----------------------- MODULE StaffApprovalsProofs -----------------------
(***************************************************************************)
(* Theorems about StaffApprovals, for every set of accounts, connections,  *)
(* requests and calls.  Every step of the composition is a step of the     *)
(* approval service as Approvals has it, or leaves the service alone: so   *)
(* the invariant of ApprovalsProofs, and with it TwoHands, DecidedOnce and *)
(* ExpiresAtDeadline, hold of the composition.  What has to be carried for *)
(* that: the call on a connection is the one its transaction was begun for *)
(* (Tied), and a request that exists has a payload whose target exists,    *)
(* accounts being never removed (Present).  What the module promises of    *)
(* accounts, beyond the service, rests on their locks (Guarded) and on the *)
(* owners' lock (Counted).                                                 *)
(***************************************************************************)
EXTENDS StaffApprovals, ApprovalsProofs, FiniteSetTheorems

(* The service's call on a connection is the transaction's.                *)
Tied ==
  \A w \in Workers :
    /\ tx[w].stage # "free" => tx[w].c \in Calls
    /\ tx[w].stage = "request" => tx[w].c.op \in Ops
    /\ call[w].pc \in {"locked", "check", "exec"} =>
         tx[w].stage # "free" /\ tx[w].c.op = call[w].op /\ tx[w].c.req = call[w].req

(* Account s has been created.                                             *)
Created(s) == acct[s].status # "absent"

(* Whatever is locked, written, acting or named by a request was created;  *)
(* only an invitation may name an account that was not.                    *)
Present ==
  /\ \A s \in Staff : acct[s].ver # 0 => Created(s)
  /\ \A w \in Workers, s \in Staff :
       /\ seen[w][s] # NoOne => Created(s)
       /\ change[w][s] # NoOne => change[w][s].status # "absent"
  /\ \A w \in Workers : tx[w].stage # "free" /\ tx[w].c.who # System => Created(tx[w].c.who)
  /\ \A r \in Requests : reqs[r].status # "absent" =>
       /\ payload[r] \in Payload
       /\ payload[r].kind # "invite" \/ payload[r].ver # 0 => Created(payload[r].target)

StaffInv == Inv /\ StaffTypeOK /\ Tied /\ Present

----------------------------------------------------------------------------
(* Every call that may arrive, from whichever start, is well-formed.       *)
LEMMA CallsTyped == Calls \subseteq CallType
BY StaffAssumption DEF Calls

(* The transaction that works is that of an arrived call.                  *)
LEMMA Working ==
  ASSUME StaffInv, NEW w \in Workers, tx[w].stage # "free"
  PROVE  /\ tx[w].c \in Calls /\ tx[w].c \in CallType
         /\ Op(w) \in Ops \cup Asks => Who(w) \in Staff /\ Req(w) \in Requests
         /\ Op(w) \notin Ops => tx[w].c.target \in Staff
BY StaffAssumption, CallsTyped DEF StaffInv, Tied, CallType, Op, Who, Req, Ops, Asks, OpCalls

(* An executor works for a request that exists, with a payload.            *)
LEMMA Executing ==
  ASSUME StaffInv, NEW w \in Workers, call[w].pc \in {"locked", "check", "exec"}
  PROVE  /\ Req(w) \in Requests /\ Req(w) = call[w].req /\ Op(w) \in Ops
         /\ call[w].pc \in {"check", "exec"} =>
              payload[Req(w)] \in Payload /\ payload[Req(w)].target \in Staff
BY DEF StaffInv, Inv, Rest, Judging, Tied, Present, Op, Req, Pending, Payload

(* Each step of the composition is one of the service, or leaves it alone. *)
LEMMA ServiceStep ==
  ASSUME StaffInv, [StaffNext]_allVars
  PROVE  [Next]_vars
<1>1. ASSUME NEW w \in Workers, LockRequest(w)
      PROVE  Next
  <2>1. Op(w) \in Ops /\ Who(w) \in Staff /\ Req(w) \in Requests
    BY <1>1, Working DEF LockRequest, StaffInv, Tied, Op
  <2>2. Permits(tx[w].role, payload[Req(w)].elevated) \in BOOLEAN
    BY DEF Permits
  <2> QED BY <1>1, <2>1, <2>2 DEF LockRequest, Next
<1>2. ASSUME NEW w \in Workers, ExecWork(w)
      PROVE  [Next]_vars
  <2>1. payload[Req(w)].target \in Staff
    BY <1>2, Executing DEF ExecWork
  <2>2. UNCHANGED vars \/ CancelByInitiator(w, payload[Req(w)].target)
    BY <1>2 DEF ExecWork
  <2> QED BY <2>1, <2>2 DEF Next
<1>3. ASSUME NEW w \in Workers, Ask(w)
      PROVE  Next
  <2>1. Who(w) \in Staff /\ Req(w) \in Requests /\ tx[w].c.target \in Staff
    BY <1>3, Working DEF Ask, Ready, Asks, Ops
  <2>2. \E t \in Staff \cup {NoOne} : Request(Req(w), Who(w), t)
    BY <1>3, <2>1 DEF Ask, Req, Who
  <2> QED BY <2>1, <2>2 DEF Next
<1>4. ASSUME NEW w \in Workers, ActDirectly(w)
      PROVE  Next
  <2>1. Op(w) \in {"disable"} \cup OpCalls /\ tx[w].stage = "accounts"
    BY <1>4 DEF ActDirectly, Ready
  <2>2. Target(w) = tx[w].c.target /\ Op(w) \notin Ops
    BY <2>1 DEF Target, OpCalls, Ops
  <2>3. Target(w) \in Staff
    BY <2>1, <2>2, Working
  <2> QED BY <1>4, <2>3 DEF ActDirectly, Next
<1>5. ASSUME NEW w \in Workers,
             \/ RefuseCall(w) \/ LapseCall(w) \/ AcceptCall(w) \/ CheckCall(w) \/ ExecRefusal(w)
             \/ ExecDone(w) \/ CommitCall(w)
      PROVE  Next
  BY <1>5 DEF RefuseCall, LapseCall, AcceptCall, CheckCall, ExecRefusal, ExecDone, CommitCall,
              Progress, Next
<1>6. ASSUME NEW w \in Workers, ExecError(w) \/ Abort(w)
      PROVE  [Next]_vars
  BY <1>6 DEF ExecError, Abort, Next
<1>7. ASSUME NEW w \in Workers, Locking(w) \/ RevokeSessions(w) \/ Decline(w)
      PROVE  UNCHANGED vars
  BY <1>7 DEF Locking, TakeOwners, WaitAccount, LockAccount, RevokeSessions, Decline
<1>8. ASSUME NEW w \in Workers, Sweep(w)
      PROVE  Next
  BY <1>8 DEF Sweep, Next
<1>9. ASSUME NEW w \in Workers, WorkerStep(w)
      PROVE  [Next]_vars
  BY <1>1, <1>2, <1>3, <1>4, <1>5, <1>6, <1>7, <1>9 DEF WorkerStep, Approving, Asking
<1>10. ASSUME NEW w \in Workers, NEW c \in left, Load(w, c)
       PROVE  UNCHANGED vars
  BY <1>10 DEF Load
<1>11. ASSUME NEW s \in Staff, Activate(s) \/ LockOut(s)
       PROVE  UNCHANGED vars
  BY <1>11 DEF Activate, LockOut
<1>12. ASSUME Tick
       PROVE  Next
  BY <1>12 DEF Next
<1>13. CASE UNCHANGED allVars
  BY <1>13 DEF allVars
<1> QED BY <1>6, <1>8, <1>9, <1>10, <1>11, <1>12, <1>13 DEF StaffNext
----------------------------------------------------------------------------
(* The call on a connection stays that of its transaction.                 *)
LEMMA TiedOther ==
  ASSUME StaffInv, NEW w \in Workers,
         \A v \in Workers \ {w} : tx'[v] = tx[v] /\ call'[v] = call[v],
         tx'[w].stage # "free" => tx'[w].c \in Calls,
         tx'[w].stage = "request" => tx'[w].c.op \in Ops,
         call'[w].pc \in {"locked", "check", "exec"} =>
           tx'[w].stage # "free" /\ tx'[w].c.op = call'[w].op /\ tx'[w].c.req = call'[w].req
  PROVE  Tied'
BY DEF StaffInv, Tied

LEMMA AtStage ==
  ASSUME StaffTypeOK, NEW w \in Workers, NEW stage \in Stages, At(w, stage)
  PROVE  /\ tx' \in [Workers -> Tx]
         /\ tx'[w].stage = stage /\ tx'[w].c = tx[w].c
         /\ \A v \in Workers \ {w} : tx'[v] = tx[v]
<1>1. tx' = [tx EXCEPT ![w] = [tx[w] EXCEPT !.stage = stage]]
  BY DEF At
<1>2. tx[w] \in Tx
  BY DEF StaffTypeOK
<1>3. [tx[w] EXCEPT !.stage = stage] \in Tx
      /\ [tx[w] EXCEPT !.stage = stage].stage = stage /\ [tx[w] EXCEPT !.stage = stage].c = tx[w].c
  BY <1>2 DEF Tx
<1> QED BY <1>1, <1>3 DEF StaffTypeOK

LEMMA TiedStep ==
  ASSUME StaffInv, [StaffNext]_allVars
  PROVE  Tied'
<1> USE DEF StaffInv, Inv, TypeOK, StaffTypeOK
<1>1. ASSUME NEW w \in Workers, NEW c \in left, Load(w, c)
      PROVE  Tied'
  <2>1. tx'[w].c = c /\ c \in Calls /\ call' = call /\ call[w].pc = "idle"
    BY <1>1 DEF Load, vars
  <2>2. tx'[w].stage = "request" => c.op \in Ops
    BY <1>1 DEF Load
  <2>3. \A v \in Workers \ {w} : tx'[v] = tx[v]
    BY <1>1 DEF Load
  <2> QED BY <2>1, <2>2, <2>3, TiedOther
<1>2. ASSUME NEW w \in Workers, LockRequest(w)
      PROVE  Tied'
  <2>1. call' = [call EXCEPT ![w] = [pc |-> "locked", op |-> Op(w), who |-> Who(w), req |-> Req(w),
                                     may |-> Permits(tx[w].role, payload[Req(w)].elevated)]]
        /\ tx' = tx
    BY <1>2 DEF LockRequest, LockApproval, staffVars
  <2> QED BY <1>2, <2>1, TiedOther DEF LockRequest, Tied, Op, Req
<1>3. ASSUME NEW w \in Workers, Locking(w)
      PROVE  Tied'
  <2>1. call' = call /\ (tx' = tx \/ (tx[w].stage = "owners" /\ At(w, "accounts")))
    BY <1>3 DEF Locking, TakeOwners, WaitAccount, LockAccount, vars
  <2>2. CASE tx' = tx
    BY <2>1, <2>2 DEF Tied
  <2>3. CASE tx[w].stage = "owners" /\ At(w, "accounts")
    <3>1. "accounts" \in Stages
      BY DEF Stages
    <3>2. tx'[w].stage = "accounts" /\ tx'[w].c = tx[w].c
          /\ \A v \in Workers \ {w} : tx'[v] = tx[v]
      BY <2>3, <3>1, AtStage
    <3>3. tx[w].c \in Calls
      BY <2>3 DEF Tied
    <3> QED BY <2>1, <2>3, <3>2, <3>3, TiedOther DEF Tied
  <2> QED BY <2>1, <2>2, <2>3
<1>4. ASSUME NEW w \in Workers, Release(w), EndTx(w) \/ (call[w].pc = "idle" /\ call' = call)
      PROVE  Tied'
  <2>1. tx'[w].stage = "free" /\ call'[w].pc = "idle"
    BY <1>4 DEF Release, Free, EndTx, Idle
  <2>2. \A v \in Workers \ {w} : tx'[v] = tx[v] /\ call'[v] = call[v]
    BY <1>4 DEF Release, EndTx
  <2> QED BY <2>1, <2>2, TiedOther
<1>5. ASSUME NEW w \in Workers,
             \/ RefuseCall(w) \/ ExecError(w) \/ Abort(w) \/ CommitCall(w) \/ Ask(w)
             \/ RevokeSessions(w) \/ Decline(w)
      PROVE  Tied'
  <2>1. Release(w) /\ (EndTx(w) \/ (call[w].pc = "idle" /\ call' = call))
    BY <1>5 DEF RefuseCall, Refuse, ExecError, Abort, Rollback, CommitCall, Commit, Ask, Request,
                RevokeSessions, Decline, vars
  <2> QED BY <1>4, <2>1
<1>6. ASSUME NEW w \in Workers, NEW pc \in Pcs, NEW stage \in Stages \ {"free", "request"},
             Step(w, pc) \/ call' = call, (tx[w].stage # "free" /\ At(w, stage)) \/ tx' = tx,
             call[w].pc \in {"locked", "check", "exec"} \/ pc \notin {"locked", "check", "exec"}
      PROVE  Tied'
  <2>1. call'[w].op = call[w].op /\ call'[w].req = call[w].req
        /\ (call'[w].pc \in {"locked", "check", "exec"} => call[w].pc \in {"locked", "check", "exec"})
    BY <1>6 DEF Step, Call
  <2>2. tx'[w].c = tx[w].c /\ (tx'[w].stage = tx[w].stage \/ tx'[w].stage = stage)
    BY <1>6, AtStage
  <2>3. \A v \in Workers \ {w} : tx'[v] = tx[v] /\ call'[v] = call[v]
    BY <1>6, AtStage DEF Step
  <2>4. /\ tx'[w].stage # "free" => tx'[w].c \in Calls
        /\ tx'[w].stage = "request" => tx'[w].c.op \in Ops
        /\ call'[w].pc \in {"locked", "check", "exec"} =>
             tx'[w].stage # "free" /\ tx'[w].c.op = call'[w].op /\ tx'[w].c.req = call'[w].req
    <3>1. CASE tx' = tx
      BY <2>1, <3>1 DEF Tied
    <3>2. CASE tx[w].stage # "free" /\ At(w, stage)
      <4>1. tx'[w].c \in Calls /\ tx'[w].stage = stage
        BY <1>6, <3>2, AtStage DEF Tied
      <4> QED BY <4>1, <2>1, <2>2 DEF Tied
    <3> QED BY <1>6, <3>1, <3>2
  <2> QED BY <2>3, <2>4, TiedOther
<1>7. ASSUME NEW w \in Workers,
             LapseCall(w) \/ AcceptCall(w) \/ CheckCall(w) \/ ExecDone(w) \/ ExecRefusal(w)
      PROVE  Tied'
  <2>1. call[w].pc \in {"locked", "check", "exec"}
    BY <1>7 DEF LapseCall, Overdue, AcceptCall, Accept, CheckCall, CheckInitiator, ExecDone, Exec,
                ExecRefusal, ExecRefused
  <2>2. \E pc \in Pcs : Step(w, pc)
    BY <1>7 DEF LapseCall, Overdue, AcceptCall, Accept, CheckCall, CheckInitiator, ExecDone, Exec,
                ExecRefusal, ExecRefused, Decide, Pcs, Ops, Rest, Judging
  <2>3. tx' = tx \/ \E stage \in {"owners", "accounts", "done"} : At(w, stage)
    BY <1>7 DEF LapseCall, AcceptCall, CheckCall, Begin, ExecDone, ExecRefusal, staffVars
  <2>4. PICK pc \in Pcs : Step(w, pc)
    BY <2>2
  <2>5. CASE tx' = tx
    <3>1. "done" \in Stages \ {"free", "request"}
      BY DEF Stages
    <3> QED BY <1>6, <2>1, <2>4, <2>5, <3>1
  <2>6. ASSUME NEW stage \in {"owners", "accounts", "done"}, At(w, stage)
        PROVE  Tied'
    <3>1. stage \in Stages \ {"free", "request"} /\ tx[w].stage # "free"
      BY <2>1 DEF Stages, Tied
    <3> QED BY <1>6, <2>1, <2>4, <2>6, <3>1
  <2> QED BY <2>3, <2>5, <2>6
<1>8. ASSUME NEW w \in Workers, ExecWork(w) \/ ActDirectly(w)
      PROVE  Tied'
  <2>1. At(w, "done") /\ call[w].pc \in {"idle", "exec"} /\ tx[w].stage # "free"
    BY <1>8 DEF ExecWork, ActDirectly, Ready
  <2>2. call' = call \/ Step(w, IF call[w].pc = "idle" THEN "commit" ELSE "exec")
    BY <1>8 DEF ExecWork, ActDirectly, CancelByInitiator, vars
  <2>3. CASE call[w].pc = "idle"
    BY <1>6, <2>1, <2>2, <2>3 DEF Stages, Pcs
  <2>4. CASE call[w].pc = "exec"
    BY <1>6, <2>1, <2>2, <2>4 DEF Stages, Pcs
  <2> QED BY <2>1, <2>3, <2>4
<1>9. ASSUME NEW w \in Workers, Sweep(w)
      PROVE  Tied'
  <2>1. tx' = tx /\ Step(w, "commit")
    BY <1>9 DEF Sweep, ExpireDue, staffVars
  <2>2. "commit" \in Pcs /\ "done" \in Stages \ {"free", "request"}
    BY DEF Stages, Pcs
  <2> QED BY <1>6, <2>1, <2>2
<1>10. ASSUME tx' = tx, call' = call
       PROVE  Tied'
  BY <1>10 DEF Tied
<1>11. CASE Tick /\ UNCHANGED staffVars
  BY <1>10, <1>11 DEF Tick, staffVars
<1>12. ASSUME NEW s \in Staff, Activate(s) \/ LockOut(s)
       PROVE  Tied'
  BY <1>10, <1>12 DEF Activate, LockOut, vars
<1>13. CASE UNCHANGED allVars
  BY <1>10, <1>13 DEF allVars, vars, staffVars
<1>14. ASSUME NEW w \in Workers, WorkerStep(w) \/ Sweep(w) \/ Abort(w)
       PROVE  Tied'
  BY <1>2, <1>3, <1>5, <1>7, <1>8, <1>9, <1>14 DEF WorkerStep, Approving, Asking
<1> QED BY <1>1, <1>11, <1>12, <1>13, <1>14 DEF StaffNext
----------------------------------------------------------------------------
(* Every variable of the module keeps its type.                            *)
LEMMA ReleaseType ==
  ASSUME StaffTypeOK, NEW w \in Workers, Release(w)
  PROVE  /\ tx' \in [Workers -> Tx]
         /\ seen' \in [Workers -> [Staff -> Account \cup {NoOne}]]
         /\ stale' \in [Workers -> Roles \cup {NoOne}]
         /\ owners' \in Workers \cup {NoOne}
         /\ change' \in [Workers -> [Staff -> Account \cup {NoOne}]]
BY DEF StaffTypeOK, Release, Free, None, Tx, Stages

(* What is written to a created account, or to a new one, is an account.   *)
LEMMA WrittenType ==
  ASSUME StaffTypeOK, NEW s \in Staff, NEW to \in Roles \cup {NoOne}
  PROVE  /\ Disabled(acct[s]) \in Account /\ Reset(acct[s]) \in Account
         /\ WithRole(acct[s], to) \in Account /\ Invited(to) \in Account
         /\ [Reset(acct[s]) EXCEPT !.role = to] \in Account
<1>1. acct[s] \in Account
  BY DEF StaffTypeOK
<1>a. acct[s].ver + 1 \in Nat /\ acct[s].sess + 1 \in Nat
  BY <1>1 DEF Account
<1>2. Disabled(acct[s]) \in Account
  BY <1>1, <1>a DEF Disabled, Account
<1>3. Reset(acct[s]) \in Account
  BY <1>1, <1>a DEF Reset, Account
<1>4. WithRole(acct[s], to) \in Account
  BY <1>1, <1>a DEF WithRole, Account
<1>5. Invited(to) \in Account
  BY DEF Invited, Account
<1>6. [Reset(acct[s]) EXCEPT !.role = to] \in Account
  BY <1>3 DEF Account
<1> QED BY <1>2, <1>3, <1>4, <1>5, <1>6

LEMMA ExecutedType ==
  ASSUME StaffTypeOK, NEW p \in Payload
  PROVE  Executed(p) \in Account
<1>1. p.target \in Staff /\ p.kind \in Asks /\ p.to \in Roles \cup {NoOne}
  BY DEF Payload
<1> QED BY <1>1, WrittenType DEF Executed, Asks

LEMMA WriteType ==
  ASSUME StaffTypeOK, NEW w \in Workers, NEW s \in Staff, NEW a \in Account, Write(w, s, a)
  PROVE  change' \in [Workers -> [Staff -> Account \cup {NoOne}]]
BY DEF StaffTypeOK, Write

(* The target an asking or acting call has checked is an account.          *)
LEMMA SeenType ==
  ASSUME StaffInv, NEW w \in Workers, Ready(w), Op(w) \in Asks \cup OpCalls, Seen(w) # NoOne
  PROVE  Seen(w) \in Account
<1>1. tx[w].c.target \in Staff
  BY Working DEF Ready, Asks, OpCalls, Ops
<1>2. CASE Op(w) = "invite"
  BY <1>1, <1>2 DEF Seen, StaffInv, StaffTypeOK
<1>3. CASE Op(w) \in {"role", "reset", "disable"} \cup OpCalls
  BY <1>1, <1>3 DEF Seen, Target, StaffInv, StaffTypeOK, OpCalls
<1> QED BY <1>2, <1>3 DEF Asks

(* The payload of a request: its initiator exists, so it was locked.       *)
LEMMA AskPayload ==
  ASSUME StaffInv, NEW w \in Workers, Ask(w)
  PROVE  /\ Seen(w) \in Account /\ Req(w) \in Requests
         /\ payload' = [payload EXCEPT ![Req(w)] = payload'[Req(w)]]
         /\ payload'[Req(w)] \in Payload
         /\ payload'[Req(w)].kind = Op(w) /\ payload'[Req(w)].target = tx[w].c.target
         /\ payload'[Req(w)].ver = Seen(w).ver
<1> DEFINE c == tx[w].c
           p == [kind |-> c.op, target |-> c.target, ver |-> Seen(w).ver,
                 initVer |-> seen[w][c.who].ver, to |-> c.to,
                 elevated |-> Permission(c.op, Seen(w).role, c.to)]
<1>1. Op(w) \in Asks /\ Ready(w) /\ tx[w].stage # "free" /\ Seen(w) # NoOne
  BY DEF Ask, Askable, Ready
<1>2. Seen(w) \in Account
  BY <1>1, SeenType
<1>3. /\ c \in CallType /\ c.who \in Staff /\ c.req \in Requests /\ c.target \in Staff
      /\ c.op \in Asks /\ c.to \in Roles \cup {NoOne}
  BY <1>1, Working DEF Who, Req, Op, Asks, Ops, CallType
<1>4. Created(c.who)
  BY <1>1, <1>3, ApprovalsAssumption DEF StaffInv, Present
<1>5. c.who \in Locked(w)
  BY <1>1, <1>3, <1>4 DEF Ready, Missing, Parties, Who, Created
<1>6. seen[w][c.who].ver \in Nat
  BY <1>3, <1>5 DEF Locked, StaffInv, StaffTypeOK, Account
<1>7. Permission(c.op, Seen(w).role, c.to) \in BOOLEAN
  <2>1. \A role : Elevated(role) \in BOOLEAN
    BY DEF Elevated
  <2>2. (Elevated(Seen(w).role) \/ Elevated(c.to)) \in BOOLEAN
    OBVIOUS
  <2> QED BY <1>3, <2>1, <2>2 DEF Permission, Asks
<1>8. p \in Payload
  BY <1>2, <1>3, <1>6, <1>7 DEF Payload, Account
<1>9. payload' = [payload EXCEPT ![c.req] = p]
  BY DEF Ask
<1>10. payload'[c.req] = p
  BY <1>3, <1>9 DEF StaffInv, StaffTypeOK
<1>11. payload'[c.req].kind = c.op /\ payload'[c.req].target = c.target
       /\ payload'[c.req].ver = Seen(w).ver
  BY <1>10
<1> HIDE DEF p
<1> QED BY <1>2, <1>3, <1>8, <1>9, <1>10, <1>11 DEF Req, Op

LEMMA StaffTypeStep ==
  ASSUME StaffInv, [StaffNext]_allVars
  PROVE  StaffTypeOK'
<1> USE DEF StaffInv, StaffTypeOK
<1>1. ASSUME NEW w \in Workers, NEW c \in left, Load(w, c)
      PROVE  StaffTypeOK'
  <2>1. c.op # "lockout" /\ (c.who = System \/ c.who \in Staff) /\ c \in Calls
    BY <1>1, StaffAssumption, CallsTyped DEF Load, CallType
  <2>2. tx' \in [Workers -> Tx]
    BY <1>1, <2>1 DEF Load, Tx, Stages, Account
  <2> QED BY <1>1, <2>2 DEF Load
<1>2. ASSUME NEW w \in Workers, Locking(w)
      PROVE  StaffTypeOK'
  <2>1. CASE TakeOwners(w)
    BY <2>1, AtStage DEF TakeOwners, Stages
  <2>2. ASSUME NEW s \in Staff, WaitAccount(w, s)
        PROVE  StaffTypeOK'
    BY <2>2 DEF WaitAccount, Account
  <2>3. ASSUME NEW s \in Staff, LockAccount(w, s)
        PROVE  StaffTypeOK'
    <3>1. (IF stale[w] = NoOne THEN acct[s] ELSE [acct[s] EXCEPT !.role = stale[w]]) \in Account
      BY DEF Account
    <3> QED BY <2>3, <3>1 DEF LockAccount
  <2> QED BY <1>2, <2>1, <2>2, <2>3 DEF Locking
<1>3. ASSUME NEW w \in Workers,
             RefuseCall(w) \/ ExecError(w) \/ Abort(w) \/ Decline(w)
      PROVE  StaffTypeOK'
  BY <1>3, ReleaseType DEF RefuseCall, ExecError, Abort, Decline
<1>4. ASSUME NEW w \in Workers, CommitCall(w)
      PROVE  StaffTypeOK'
  <2>1. acct' \in [Staff -> Account]
    BY <1>4 DEF CommitCall
  <2> QED BY <1>4, <2>1, ReleaseType DEF CommitCall
<1>5. ASSUME NEW w \in Workers, Ask(w)
      PROVE  StaffTypeOK'
  BY <1>5, AskPayload, ReleaseType DEF Ask
<1>6. ASSUME NEW w \in Workers, ActDirectly(w)
      PROVE  StaffTypeOK'
  <2>1. Target(w) \in Staff
    BY <1>6, Working DEF ActDirectly, Ready, Target, OpCalls, Ops
  <2>2. \E a \in Account : Write(w, Target(w), a)
    BY <1>6, <2>1, WrittenType DEF ActDirectly
  <2>3. "done" \in Stages
    BY DEF Stages
  <2> QED BY <1>6, <2>1, <2>2, <2>3, WriteType, AtStage DEF ActDirectly
<1>7. ASSUME NEW w \in Workers, RevokeSessions(w)
      PROVE  StaffTypeOK'
  <2>1. Target(w) \in Staff
    BY <1>7, Working DEF RevokeSessions, Ready, Target, Ops
  <2>a. acct[Target(w)] \in Account /\ acct[Target(w)].sess + 1 \in Nat
    BY <2>1 DEF Account
  <2>2. [acct[Target(w)] EXCEPT !.sess = acct[Target(w)].sess + 1] \in Account
    BY <2>a DEF Account
  <2> QED BY <1>7, <2>1, <2>2, ReleaseType DEF RevokeSessions
<1>8. ASSUME NEW w \in Workers, CheckCall(w)
      PROVE  StaffTypeOK'
  <2>1. Begin(w) \in Stages
    BY DEF Begin, Stages
  <2> QED BY <1>8, <2>1, AtStage DEF CheckCall
<1>9. ASSUME NEW w \in Workers, ExecWork(w)
      PROVE  StaffTypeOK'
  <2>1. payload[Req(w)] \in Payload /\ payload[Req(w)].target \in Staff
    BY <1>9, Executing DEF ExecWork
  <2>2. Executed(payload[Req(w)]) \in Account /\ "done" \in Stages
    BY <2>1, ExecutedType DEF Stages
  <2> QED BY <1>9, <2>1, <2>2, WriteType, AtStage DEF ExecWork
<1>10. ASSUME NEW w \in Workers, ExecRefusal(w)
       PROVE  StaffTypeOK'
  <2>1. "done" \in Stages
    BY DEF Stages
  <2> QED BY <1>10, <2>1, AtStage DEF ExecRefusal, None
<1>11. ASSUME NEW w \in Workers,
              LockRequest(w) \/ LapseCall(w) \/ AcceptCall(w) \/ ExecDone(w) \/ Sweep(w)
       PROVE  StaffTypeOK'
  BY <1>11 DEF LockRequest, LapseCall, AcceptCall, ExecDone, Sweep, staffVars
<1>12. ASSUME NEW s \in Staff, Activate(s)
       PROVE  StaffTypeOK'
  <2>1. [acct[s] EXCEPT !.status = "active"] \in Account
    BY DEF Account
  <2> QED BY <1>12, <2>1 DEF Activate
<1>13. ASSUME NEW s \in Staff, LockOut(s)
       PROVE  StaffTypeOK'
  <2>a. acct[s] \in Account /\ acct[s].ver + 1 \in Nat /\ acct[s].sess + 1 \in Nat
    BY DEF Account
  <2>1. [acct[s] EXCEPT !.ver = acct[s].ver + 1, !.sess = acct[s].sess + 1] \in Account
    BY <2>a DEF Account
  <2> QED BY <1>13, <2>1 DEF LockOut
<1>14. CASE (Tick /\ UNCHANGED staffVars) \/ UNCHANGED allVars
  BY <1>14 DEF staffVars, allVars
<1>15. ASSUME NEW w \in Workers, WorkerStep(w) \/ Sweep(w) \/ Abort(w)
       PROVE  StaffTypeOK'
  BY <1>2, <1>3, <1>4, <1>5, <1>6, <1>7, <1>8, <1>9, <1>10, <1>11, <1>15
     DEF WorkerStep, Approving, Asking
<1> QED BY <1>1, <1>12, <1>13, <1>14, <1>15 DEF StaffNext
----------------------------------------------------------------------------
(* Accounts are never removed, so what was created when it was locked,     *)
(* written, asked or asked about still is.                                 *)
AcctKept ==
  \A s \in Staff : (Created(s) => Created(s)') /\ (acct'[s].ver # 0 => Created(s)')

(* The locks, writes and transactions concern accounts that were created.  *)
TxKept ==
  /\ \A w \in Workers, s \in Staff :
       /\ seen'[w][s] # NoOne => seen[w][s] # NoOne \/ Created(s)
       /\ change'[w][s] # NoOne =>
            change'[w][s] = change[w][s] \/ change'[w][s].status # "absent"
  /\ \A w \in Workers : tx'[w].stage # "free" /\ tx'[w].c.who # System =>
       (tx[w].stage # "free" /\ tx'[w].c = tx[w].c)
         \/ (tx'[w].c.who \in Staff /\ Created(tx'[w].c.who))

(* Requests are neither made nor given another payload.                    *)
ReqsKept ==
  \A r \in Requests : payload'[r] = payload[r] /\ (reqs'[r].status # "absent" => reqs[r].status # "absent")

LEMMA PresentKept ==
  ASSUME StaffInv, AcctKept, TxKept, ReqsKept
  PROVE  Present'
<1>1. ASSUME NEW w \in Workers, tx'[w].stage # "free", tx'[w].c.who # System
      PROVE  acct'[tx'[w].c.who].status # "absent"
  <2>1. CASE tx[w].stage # "free" /\ tx'[w].c = tx[w].c
    <3>1. tx[w].c.who \in Staff /\ Created(tx[w].c.who)
      BY <1>1, <2>1, Working DEF StaffInv, Present, CallType
    <3> QED BY <2>1, <3>1 DEF AcctKept, Created
  <2>2. CASE tx'[w].c.who \in Staff /\ Created(tx'[w].c.who)
    BY <2>2 DEF AcctKept, Created
  <2> QED BY <1>1, <2>1, <2>2 DEF TxKept
<1>2. ASSUME NEW r \in Requests, reqs'[r].status # "absent"
      PROVE  /\ payload'[r] \in Payload
             /\ payload'[r].kind # "invite" \/ payload'[r].ver # 0 =>
                  acct'[payload'[r].target].status # "absent"
  BY <1>2 DEF StaffInv, Present, ReqsKept, AcctKept, Created, Payload
<1>3. ASSUME NEW w \in Workers, NEW s \in Staff
      PROVE  /\ seen'[w][s] # NoOne => acct'[s].status # "absent"
             /\ change'[w][s] # NoOne => change'[w][s].status # "absent"
  BY DEF StaffInv, Present, TxKept, AcctKept, Created
<1>4. \A s \in Staff : acct'[s].ver # 0 => acct'[s].status # "absent"
  BY DEF AcctKept, Created
<1> QED BY <1>1, <1>2, <1>3, <1>4 DEF Present, Created

(* The end of a transaction releases; a step in its course keeps its call. *)
LEMMA ReleaseKept ==
  ASSUME StaffInv, NEW w \in Workers, Release(w)
  PROVE  TxKept
BY DEF StaffInv, StaffTypeOK, Release, Free, None, TxKept

LEMMA AtKept ==
  ASSUME StaffInv, NEW w \in Workers, NEW stage \in Stages, tx[w].stage # "free", At(w, stage),
         \A v \in Workers, s \in Staff :
           /\ seen'[v][s] # NoOne => seen[v][s] # NoOne \/ Created(s)
           /\ change'[v][s] # NoOne =>
                change'[v][s] = change[v][s] \/ change'[v][s].status # "absent"
  PROVE  TxKept
<1>1. tx'[w].c = tx[w].c /\ \A v \in Workers \ {w} : tx'[v] = tx[v]
  BY AtStage DEF StaffInv
<1> QED BY <1>1 DEF TxKept

(* Only a request makes a row; a commit settles rows that were pending.    *)
LEMMA RowsKept ==
  ASSUME StaffInv, payload' = payload, reqs' = reqs \/ \E w \in Workers : Commit(w)
  PROVE  ReqsKept
<1>1. ASSUME NEW w \in Workers, Commit(w), NEW r \in Requests, reqs[r].status = "absent"
      PROVE  reqs'[r].status = "absent"
  BY <1>1 DEF Commit, Decided, StaffInv, Inv, Rest, OneDecider, Pending
<1> QED BY <1>1 DEF ReqsKept

(* An executor writes an account that is or becomes created.               *)
LEMMA ExecutedCreated ==
  ASSUME StaffInv, NEW r \in Requests, reqs[r].status # "absent"
  PROVE  Executed(payload[r]).status # "absent"
<1> DEFINE p == payload[r]
           a == acct[p.target]
<1>1. p \in Payload /\ (p.kind # "invite" => Created(p.target)) /\ a \in Account
  BY DEF StaffInv, Present, StaffTypeOK, Payload
<1>2. Invited(p.to).status = "invited"
  BY DEF Invited
<1>3. Reset(a).status = "invited" /\ Disabled(a).status = "disabled"
      /\ [Reset(a) EXCEPT !.role = p.to].status = "invited"
  BY <1>1 DEF Reset, Disabled, Account
<1>4. WithRole(a, p.to).status = a.status
  BY <1>1 DEF WithRole, Account
<1>5. p.kind \in Asks
  BY <1>1 DEF Payload
<1> QED BY <1>1, <1>2, <1>3, <1>4, <1>5 DEF Executed, Created, Asks

LEMMA PresentStep ==
  ASSUME StaffInv, [StaffNext]_allVars
  PROVE  Present'
<1> USE DEF StaffInv, StaffTypeOK
<1>1. acct' = acct => AcctKept
  BY DEF AcctKept, Present, Created
<1>2. UNCHANGED <<tx, seen, change>> => TxKept
  BY DEF TxKept
<1>3. ASSUME NEW w \in Workers, NEW c \in left, Load(w, c)
      PROVE  Present'
  <2>1. c \in CallType /\ c.op # "lockout" /\ (c.who # System => c.who \in Staff /\ Created(c.who))
    BY <1>3, StaffAssumption, CallsTyped DEF Load, CallType, Created
  <2>2. tx'[w].c = c /\ \A v \in Workers \ {w} : tx'[v] = tx[v]
    BY <1>3 DEF Load
  <2>3. TxKept
    BY <1>3, <2>1, <2>2 DEF Load, TxKept
  <2> QED BY <1>1, <1>3, <2>3, RowsKept, PresentKept DEF Load, vars
<1>4. ASSUME NEW w \in Workers, Locking(w)
      PROVE  Present'
  <2>1. CASE TakeOwners(w)
    <3>1. TxKept
      BY <2>1, AtKept DEF TakeOwners, Stages
    <3> QED BY <1>1, <2>1, <3>1, RowsKept, PresentKept DEF TakeOwners, vars
  <2>2. ASSUME NEW s \in Staff, WaitAccount(w, s)
        PROVE  Present'
    BY <1>1, <1>2, <2>2, RowsKept, PresentKept DEF WaitAccount, vars
  <2>3. ASSUME NEW s \in Staff, LockAccount(w, s)
        PROVE  Present'
    <3>1. Created(s)
      BY <2>3 DEF LockAccount, NextAccount, Missing, Parties, Created
    <3>2. TxKept
      BY <2>3, <3>1 DEF LockAccount, TxKept
    <3> QED BY <1>1, <2>3, <3>2, RowsKept, PresentKept DEF LockAccount, vars
  <2> QED BY <1>4, <2>1, <2>2, <2>3 DEF Locking
<1>5. ASSUME NEW w \in Workers, RefuseCall(w) \/ ExecError(w) \/ Abort(w) \/ Decline(w)
      PROVE  Present'
  <2>1. Release(w) /\ UNCHANGED <<acct, payload, reqs>>
    BY <1>5 DEF RefuseCall, Refuse, ExecError, Abort, Rollback, Decline, vars
  <2> QED BY <1>1, <2>1, ReleaseKept, RowsKept, PresentKept
<1>6. ASSUME NEW w \in Workers, CommitCall(w)
      PROVE  Present'
  <2>1. AcctKept
    BY <1>6 DEF CommitCall, AcctKept, Present, Created
  <2> QED BY <1>6, <2>1, ReleaseKept, RowsKept, PresentKept DEF CommitCall
<1>7. ASSUME NEW w \in Workers, Ask(w)
      PROVE  Present'
  <2>1. Seen(w) \in Account /\ Req(w) \in Requests /\ payload'[Req(w)] \in Payload
        /\ payload'[Req(w)].kind = Op(w) /\ payload'[Req(w)].target = tx[w].c.target
        /\ payload'[Req(w)].ver = Seen(w).ver
        /\ \A r \in Requests \ {Req(w)} : payload'[r] = payload[r]
    BY <1>7, AskPayload
  <2>2. tx[w].c.target \in Staff /\ Op(w) \in Asks
    BY <1>7, Working DEF Ask, Ready, Asks, Ops
  <2>3. Op(w) # "invite" => Created(tx[w].c.target)
    BY <1>7, <2>2 DEF Ask, Askable, Seen, Target, Asks, Present
  <2>4. Op(w) = "invite" /\ Seen(w).ver # 0 => Created(tx[w].c.target)
    BY <2>2 DEF Seen, Present
  <2>5. acct' = acct /\ Release(w)
    BY <1>7 DEF Ask
  <2>6. \A r \in Requests \ {Req(w)} : reqs'[r] = reqs[r]
    BY <1>7 DEF Ask, Request, Req, Inv, TypeOK
  <2>7. \A r \in Requests : reqs'[r].status # "absent" =>
          /\ payload'[r] \in Payload
          /\ payload'[r].kind # "invite" \/ payload'[r].ver # 0 => Created(payload'[r].target)
    BY <2>1, <2>3, <2>4, <2>6 DEF Present
  <2>8. /\ \A v \in Workers, s \in Staff :
              (seen'[v][s] # NoOne => Created(s))
              /\ (change'[v][s] # NoOne => change'[v][s].status # "absent")
        /\ \A v \in Workers : tx'[v].stage # "free" /\ tx'[v].c.who # System =>
              Created(tx'[v].c.who)
    BY <2>5 DEF Release, Free, None, Present
  <2> QED BY <2>5, <2>7, <2>8 DEF Present, Created
<1>8. ASSUME NEW w \in Workers, ActDirectly(w)
      PROVE  Present'
  <2>1. Target(w) \in Staff /\ "done" \in Stages
    BY <1>8, Working DEF ActDirectly, Ready, Target, OpCalls, Ops, Stages
  <2>2. Disabled(acct[Target(w)]).status = "disabled" /\ Reset(acct[Target(w)]).status = "invited"
    BY <2>1 DEF Disabled, Reset, Account
  <2>3. TxKept
    BY <1>8, <2>1, <2>2, AtKept DEF ActDirectly, Ready, Write
  <2> QED BY <1>1, <1>8, <2>3, RowsKept, PresentKept DEF ActDirectly, CancelByInitiator
<1>9. ASSUME NEW w \in Workers, RevokeSessions(w)
      PROVE  Present'
  <2>1. Target(w) \in Staff
    BY <1>9, Working DEF RevokeSessions, Ready, Target, Ops
  <2>2. AcctKept
    BY <1>9, <2>1 DEF RevokeSessions, AcctKept, Present, Created, Account
  <2> QED BY <1>9, <2>2, ReleaseKept, RowsKept, PresentKept DEF RevokeSessions, vars
<1>10. ASSUME NEW w \in Workers, CheckCall(w)
       PROVE  Present'
  <2>1. tx[w].stage # "free" /\ Begin(w) \in Stages
    BY <1>10 DEF CheckCall, CheckInitiator, Tied, Begin, Stages
  <2>2. TxKept
    BY <1>10, <2>1, AtKept DEF CheckCall, TxKept
  <2> QED BY <1>1, <1>10, <2>2, RowsKept, PresentKept DEF CheckCall, CheckInitiator
<1>11. ASSUME NEW w \in Workers, ExecWork(w)
       PROVE  Present'
  <2>1. Req(w) \in Requests /\ reqs[Req(w)].status = "pending" /\ payload[Req(w)].target \in Staff
    BY <1>11, Executing DEF ExecWork, Inv, Rest, Judging, Pending
  <2>2. Executed(payload[Req(w)]).status # "absent"
    BY <2>1, ExecutedCreated
  <2>3. tx[w].stage # "free" /\ "done" \in Stages
    BY <1>11 DEF ExecWork, Ready, Stages
  <2>4. TxKept
    BY <1>11, <2>1, <2>2, <2>3, AtKept DEF ExecWork, Write
  <2> QED BY <1>1, <1>11, <2>4, RowsKept, PresentKept DEF ExecWork, CancelByInitiator, vars
<1>12. ASSUME NEW w \in Workers, ExecRefusal(w)
       PROVE  Present'
  <2>1. tx[w].stage # "free" /\ "done" \in Stages
    BY <1>12 DEF ExecRefusal, Ready, Stages
  <2>2. TxKept
    BY <1>12, <2>1, AtKept DEF ExecRefusal, None
  <2> QED BY <1>1, <1>12, <2>2, RowsKept, PresentKept DEF ExecRefusal, ExecRefused
<1>13. ASSUME UNCHANGED <<staffVars, reqs>>
       PROVE  Present'
  BY <1>1, <1>2, <1>13, RowsKept, PresentKept DEF staffVars
<1>14. ASSUME NEW w \in Workers,
              LockRequest(w) \/ LapseCall(w) \/ AcceptCall(w) \/ ExecDone(w) \/ Sweep(w)
       PROVE  Present'
  BY <1>13, <1>14 DEF LockRequest, LockApproval, LapseCall, Overdue, AcceptCall, Accept, ExecDone,
                      Exec, Sweep, ExpireDue
<1>15. ASSUME NEW s \in Staff, Activate(s) \/ LockOut(s)
       PROVE  Present'
  <2>1. AcctKept
    BY <1>15 DEF Activate, LockOut, AcctKept, Present, Created, Account
  <2> QED BY <1>2, <1>15, <2>1, RowsKept, PresentKept DEF Activate, LockOut, vars
<1>16. CASE (Tick /\ UNCHANGED staffVars) \/ UNCHANGED allVars
  BY <1>13, <1>16 DEF Tick, allVars, vars
<1>17. ASSUME NEW w \in Workers, WorkerStep(w) \/ Sweep(w) \/ Abort(w)
       PROVE  Present'
  BY <1>4, <1>5, <1>6, <1>7, <1>8, <1>9, <1>10, <1>11, <1>12, <1>14, <1>17
     DEF WorkerStep, Approving, Asking
<1> QED BY <1>3, <1>15, <1>16, <1>17 DEF StaffNext

----------------------------------------------------------------------------
LEMMA StaffInitInv == StaffInit => StaffInv
<1> SUFFICES ASSUME StaffInit PROVE StaffInv
  OBVIOUS
<1>1. PICK start \in Starts :
        /\ acct = [s \in Staff |->
                     IF start.roles[s] = NoOne
                       THEN [status |-> "absent", role |-> NoOne, ver |-> 0, sess |-> 0]
                       ELSE [status |-> "active", role |-> start.roles[s], ver |-> 1, sess |-> 0]]
        /\ left = start.calls
  BY DEF StaffInit
<1>2. StaffTypeOK
  <2>1. left \subseteq Calls
    BY <1>1 DEF Calls
  <2>2. start.roles \in [Staff -> Roles \cup {NoOne}]
    BY StaffAssumption
  <2>3. acct \in [Staff -> Account]
    BY <1>1, <2>2 DEF Account, Roles
  <2> QED BY <2>1, <2>3 DEF StaffInit, StaffTypeOK, Free, Tx, Stages, None
<1>3. Tied
  BY DEF StaffInit, Init, Tied, Free, Idle
<1>4. Present
  BY <1>1 DEF StaffInit, Init, Present, Created, Free, None, NoRow
<1> QED BY <1>2, <1>3, <1>4, InitInv DEF StaffInit, StaffInv

LEMMA StaffInvStep == StaffInv /\ [StaffNext]_allVars => StaffInv'
BY ServiceStep, InvStep, StaffTypeStep, TiedStep, PresentStep DEF StaffInv

THEOREM StaffInvariance == StaffSpec => []StaffInv
BY StaffInitInv, StaffInvStep, PTL DEF StaffSpec

(* Every variable of the module keeps its type, for every set of accounts, *)
(* connections, requests and calls (manage.go, actions.go, operator.go).   *)
THEOREM StaffTypeCorrect == StaffSpec => []StaffTypeOK
BY StaffInvariance, PTL DEF StaffInv

(* The module uses the approval service only by its operations: without    *)
(* fairness, StaffSpec implements Approvals.                               *)
THEOREM ServiceUsed == StaffSpec => Init /\ ServiceSteps
<1>1. StaffInit => Init
  BY DEF StaffInit
<1>2. StaffInv /\ [StaffNext]_allVars => [Next]_vars
  BY ServiceStep
<1> QED BY <1>1, <1>2, StaffInvariance, PTL DEF StaffSpec, ServiceSteps

(* With the module's own locks, checks and cancellations in place, nobody  *)
(* decides what they asked for or what is about them.                      *)
THEOREM StaffTwoHands == StaffSpec => []TwoHands
<1>1. StaffInv => TwoHands
  BY DEF StaffInv, Inv, Rest, RowsRight, Right, TwoHands, Settled
<1> QED BY <1>1, StaffInvariance, PTL

(* Nor is a request decided twice or with two records, cancellations by an *)
(* executor of other requests included.                                    *)
THEOREM StaffDecidedOnce == StaffSpec => []DecidedOnce
BY StaffInvariance, PTL DEF StaffInv, Inv, Rest

----------------------------------------------------------------------------
(* Of numbers: two that bound each other are one, and a sum of growths is   *)
(* none if it ends where it began.                                          *)
LEMMA NoneBetween == \A x, y \in Nat : x <= y /\ y <= x => x = y
OBVIOUS

LEMMA NumbersGrow == \A x, y, z \in Nat : y >= x /\ z >= y => z >= x /\ (z = x => z = y /\ y = x)
OBVIOUS

(* What the locks are for.  A request is executed for what it was asked for *)
(* by who may, because an account is as it was read under its lock until    *)
(* the transaction ends (Holds, Apart), because versions only grow and name *)
(* their role (Growing), and because whatever changes the role of somebody  *)
(* active holds the owners' lock (Owns).                                    *)

(* The steps of one connection, and what they leave of another's.           *)
Own(w) == (\E c \in left : Load(w, c)) \/ WorkerStep(w) \/ Sweep(w) \/ Abort(w)
Aside(w) ==
  /\ tx'[w] = tx[w] /\ seen'[w] = seen[w] /\ stale'[w] = stale[w] /\ change'[w] = change[w]
  /\ owners = w => owners' = w
Else(w) == Aside(w) /\ call'[w] = call[w] /\ staged'[w] = staged[w]

(* A call about a request is about one that exists; whoever asked was       *)
(* created.                                                                 *)
Named ==
  /\ \A r \in Requests : reqs[r].status # "absent" => reqs[r].by \in Staff /\ Created(reqs[r].by)
  /\ \A w \in Workers : tx[w].stage # "free" /\ Op(w) \in Ops => reqs[Req(w)].status # "absent"

(* A lock is held by a transaction at work, on one of its parties, and what *)
(* it read under it is still so but for the role.                           *)
Holds(w) ==
  \A s \in Locked(w) :
    /\ tx[w].stage \in {"accounts", "done"} /\ s \in {Who(w), Initiator(w), Target(w)}
    /\ seen[w][s].status = acct[s].status /\ seen[w][s].ver = acct[s].ver /\ seen[w][s].sess = acct[s].sess

(* FOR UPDATE of the target, FOR SHARE of the others.                       *)
Apart(v, w) == \A s \in Locked(v) \cap Locked(w) : s # Target(v) /\ s # Target(w)

(* The owners' lock lasts from before the accounts' to the end of them.     *)
Owns(w) ==
  (tx[w].stage = "accounts" \/ (tx[w].stage = "done" /\ Locked(w) # {})) /\ NeedsOwners(w) => owners = w

(* What is written is the next version of a target locked, or of an account *)
(* nobody else writes that does not exist yet; the role of one that does    *)
(* changes under the owners' lock or with its sessions.                     *)
Fresh(w, s) == acct[s].status = "absent" /\ \A v \in Workers \ {w} : change[v][s] = NoOne
Following(w, s) ==
  /\ change[w][s].ver = acct[s].ver + 1
  /\ \/ acct[s].status = "absent"
     \/ change[w][s].sess > acct[s].sess
     \/ change[w][s].sess = acct[s].sess /\ (change[w][s].role = acct[s].role \/ owners = w)
Writes(w) ==
  \A s \in Staff : change[w][s] # NoOne =>
    /\ tx[w].stage = "done" /\ Following(w, s)
    /\ (s = Target(w) /\ s \in Locked(w)) \/ Fresh(w, s)

(* The session a call was loaded with is no later than the account's, and a *)
(* statement waits only while accounts are locked.                          *)
Loaded(w) ==
  /\ tx[w].stage # "free" /\ Who(w) # System => tx[w].sess <= acct[Who(w)].sess
  /\ tx[w].stage \in {"free", "request", "owners"} => stale[w] = NoOne

(* The service's call is made by who loaded it, with the session's right.   *)
Allowed(w) ==
  call[w].pc \in {"locked", "check", "exec"} =>
    /\ call[w].who = Who(w) /\ (call[w].may => Permits(tx[w].role, payload[Req(w)].elevated))
    /\ call[w].pc \in {"locked", "check"} => tx[w].stage = "request"
    /\ call[w].pc \in {"check", "exec"} => call[w].op = "approve" /\ call[w].may

(* The preliminary check stands while the initiator's version does.         *)
Checked(w) ==
  call[w].pc = "exec" =>
    LET p == payload[Req(w)]  a == acct[Initiator(w)] IN
    a.ver >= p.initVer /\ (a.ver = p.initVer => Permits(a.role, p.elevated))

(* Under the owners' lock the approver's role is what was read, even when   *)
(* the lock statement waited, unless the session is gone.                   *)
Deciding(w) ==
  /\ tx[w].stage \in {"accounts", "done"} /\ Op(w) = "approve" /\ Kind(w) # "invite"
  /\ acct[Who(w)].sess = tx[w].sess
RoleKept(w) ==
  Deciding(w) =>
    /\ Who(w) \in Locked(w) => seen[w][Who(w)].role = acct[Who(w)].role
    /\ tx[w].stage = "accounts" /\ stale[w] # NoOne /\ NextAccount(w, Who(w)) => acct[Who(w)].role = stale[w]

(* An executor that did its work did it for what was asked.                 *)
Worked(w) ==
  LET p == payload[Req(w)] IN
  /\ Op(w) = "approve" /\ tx[w].stage = "done" /\ {Who(w), Initiator(w)} \subseteq Locked(w)
  /\ InitiatorValid(acct[Initiator(w)], p)
  /\ acct[p.target].ver = p.ver /\ change[w][p.target] = Executed(p)
  /\ IF p.kind = "invite" THEN acct[p.target].status # "active"
     ELSE acct[Who(w)].status = "active" /\ Permits(acct[Who(w)].role, p.elevated)
Works(w) ==
  /\ call[w].pc = "exec" /\ tx[w].stage = "done" => Worked(w)
  /\ \A r \in Requests : staged[w][r] # NoOne =>
       /\ staged[w][r].status = "executed" => Worked(w) /\ r = Req(w) /\ staged[w][r].decider = Who(w)
       /\ staged[w][r].status = "failed" => \A s \in Staff : change[w][s] = NoOne

Guarded ==
  /\ Named /\ Solitary
  /\ \A w \in Workers :
       /\ Holds(w) /\ Owns(w) /\ Writes(w) /\ Loaded(w) /\ Allowed(w) /\ Checked(w) /\ RoleKept(w)
       /\ Works(w)
       /\ \A v \in Workers \ {w} : Apart(v, w)

----------------------------------------------------------------------------
(* Every step is one connection's, or leaves all of them alone.             *)
LEMMA Elsewhere ==
  ASSUME StaffInv, NEW u \in Workers, Own(u), NEW w \in Workers \ {u}
  PROVE  Else(w)
<1> USE DEF StaffInv, Inv, TypeOK, StaffTypeOK
<1>1. ASSUME NEW c \in left, Load(u, c) PROVE Else(w)
  BY <1>1 DEF Load, Else, Aside, vars
<1>2. ASSUME Release(u), UNCHANGED vars \/ EndTx(u) \/ UNCHANGED <<call, staged>> PROVE Else(w)
  BY <1>2 DEF Release, Else, Aside, vars, EndTx
<1>3. ASSUME Locking(u) PROVE Else(w)
  <2>1. ASSUME TakeOwners(u) PROVE Else(w)
    BY <2>1, ApprovalsAssumption DEF TakeOwners, Else, Aside, vars, At
  <2>2. ASSUME NEW s \in Staff, WaitAccount(u, s) \/ LockAccount(u, s) PROVE Else(w)
    <3>1. UNCHANGED <<tx, owners, change, call, staged>>
      BY <2>2 DEF WaitAccount, LockAccount, vars
    <3>2. seen'[w] = seen[w] /\ stale'[w] = stale[w]
      BY <2>2 DEF WaitAccount, LockAccount
    <3> QED BY <3>1, <3>2 DEF Else, Aside
  <2> QED BY <1>3, <2>1, <2>2 DEF Locking
<1>4. ASSUME LockRequest(u) \/ LapseCall(u) \/ AcceptCall(u) \/ ExecDone(u) \/ Sweep(u) PROVE Else(w)
  <2>1. UNCHANGED staffVars
    BY <1>4 DEF LockRequest, LapseCall, AcceptCall, ExecDone, Sweep
  <2>2. ASSUME LockRequest(u) PROVE call'[w] = call[w] /\ staged'[w] = staged[w]
    BY <2>2 DEF LockRequest, LockApproval
  <2>3. ASSUME LapseCall(u) PROVE call'[w] = call[w] /\ staged'[w] = staged[w]
    BY <2>3 DEF LapseCall, Overdue, Decide, Step
  <2>4. ASSUME AcceptCall(u) PROVE call'[w] = call[w] /\ staged'[w] = staged[w]
    <3>1. call[u].op \in Ops
      BY <2>4, ApprovalsAssumption DEF AcceptCall, Accept, Rest, Judging
    <3> QED BY <2>4, <3>1 DEF AcceptCall, Accept, Decide, Step, Ops
  <2>5. ASSUME ExecDone(u) PROVE call'[w] = call[w] /\ staged'[w] = staged[w]
    BY <2>5 DEF ExecDone, Exec, Decide, Step
  <2>6. ASSUME Sweep(u) PROVE call'[w] = call[w] /\ staged'[w] = staged[w]
    BY <2>6 DEF Sweep, ExpireDue, Step
  <2> QED BY <1>4, <2>1, <2>2, <2>3, <2>4, <2>5, <2>6 DEF Else, Aside, staffVars
<1>5. ASSUME CheckCall(u) PROVE Else(w)
  BY <1>5 DEF CheckCall, CheckInitiator, Decide, Step, At, Else, Aside
<1>6. ASSUME ExecWork(u) \/ ActDirectly(u) PROVE Else(w)
  BY <1>6 DEF ExecWork, ActDirectly, CancelByInitiator, Write, Step, At, Else, Aside, vars
<1>7. ASSUME ExecRefusal(u) PROVE Else(w)
  BY <1>7, ApprovalsAssumption DEF ExecRefusal, ExecRefused, Step, At, Else, Aside
<1>8. ASSUME RefuseCall(u) \/ ExecError(u) \/ Abort(u) \/ CommitCall(u) \/ Ask(u) \/ RevokeSessions(u) \/ Decline(u)
      PROVE  Else(w)
  BY <1>2, <1>8 DEF RefuseCall, Refuse, ExecError, Abort, Rollback, CommitCall, Commit, Ask, Request, RevokeSessions,
                    Decline
<1> QED BY <1>1, <1>3, <1>4, <1>5, <1>6, <1>7, <1>8 DEF Own, WorkerStep, Approving, Asking

LEMMA SomeoneSteps ==
  ASSUME StaffInv, [StaffNext]_allVars
  PROVE  (\E u \in Workers : Own(u)) \/ \A w \in Workers : Else(w)
BY DEF StaffNext, Own, Else, Aside, Activate, LockOut, Tick, vars, staffVars, allVars

(* Rows of requests, once made, keep who asked, and their payload.          *)
LEMMA RequestStays ==
  ASSUME StaffInv, [StaffNext]_allVars, NEW r \in Requests, reqs[r].status # "absent"
  PROVE  /\ payload'[r] = payload[r]
         /\ reqs'[r].by = reqs[r].by /\ reqs'[r].target = reqs[r].target /\ reqs'[r].status # "absent"
<1> USE DEF StaffInv, Inv, TypeOK, StaffTypeOK
<1>1. [Next]_vars
  BY ServiceStep
<1>2. reqs'[r].by = reqs[r].by /\ reqs'[r].target = reqs[r].target /\ reqs'[r].status # "absent"
  <2>1. UNCHANGED reqs \/ PurgeDecided \/ (\E w \in Workers : Commit(w))
        \/ \E p \in Requests, s \in Staff, t \in Staff \cup {NoOne} : Request(p, s, t)
    BY <1>1 DEF Next, Progress, vars, Tick, LockApproval, CancelByInitiator, Refuse, Overdue, Accept,
                CheckInitiator, Exec, ExecRefused, DecideFails, ExpireDue, Rollback
  <2>2. CASE PurgeDecided
    <3>1. reqs'[r] = reqs[r] \/ reqs'[r] = [reqs[r] EXCEPT !.status = "purged"]
      BY <2>2 DEF PurgeDecided
    <3>2. reqs[r] \in Row
      OBVIOUS
    <3> QED BY <3>1, <3>2 DEF Row
  <2>3. ASSUME NEW w \in Workers, Commit(w)
        PROVE  reqs'[r].by = reqs[r].by /\ reqs'[r].target = reqs[r].target /\ reqs'[r].status # "absent"
    <3>1. reqs'[r] = reqs[r] \/ (reqs'[r] = Apply(reqs[r], staged[w][r]) /\ staged[w][r] \in Decision)
      BY <2>3 DEF Commit, Decided
    <3>2. reqs[r] \in Row
      OBVIOUS
    <3> QED BY <3>1, <3>2 DEF Row, Apply, Decision, Settled
  <2>4. ASSUME NEW p \in Requests, NEW s \in Staff, NEW t \in Staff \cup {NoOne}, Request(p, s, t)
        PROVE  reqs'[r] = reqs[r]
    BY <2>4 DEF Request
  <2> QED BY <2>1, <2>2, <2>3, <2>4
<1>3. payload'[r] = payload[r]
  <2>1. payload' = payload \/ \E w \in Workers : Ask(w)
    BY DEF StaffNext, Load, WorkerStep, Locking, TakeOwners, WaitAccount, LockAccount, Approving, Asking, LockRequest,
           RefuseCall, LapseCall, AcceptCall, CheckCall, ExecWork, ExecRefusal, ExecDone, ExecError, CommitCall, Sweep,
           Abort, ActDirectly, RevokeSessions, Decline, Activate, LockOut, staffVars, allVars
  <2>2. ASSUME NEW w \in Workers, Ask(w) PROVE payload'[r] = payload[r]
    <3>1. payload' = [payload EXCEPT ![Req(w)] = payload'[Req(w)]] /\ Req(w) \in Requests
      BY <2>2, AskPayload
    <3>2. reqs[Req(w)].status = "absent"
      BY <2>2 DEF Ask, Request, Req
    <3> QED BY <3>1, <3>2
  <2> QED BY <2>1, <2>2
<1> QED BY <1>2, <1>3

(* So a transaction keeps its parties for as long as it has its call.       *)
LEMMA PartiesStay ==
  ASSUME StaffInv, Named, [StaffNext]_allVars, NEW w \in Workers, tx[w].stage # "free", tx'[w].c = tx[w].c
  PROVE  /\ Op(w)' = Op(w) /\ Who(w)' = Who(w) /\ Req(w)' = Req(w) /\ Kind(w)' = Kind(w) /\ Target(w)' = Target(w)
         /\ Initiator(w)' = Initiator(w) /\ NeedsOwners(w)' = NeedsOwners(w)
         /\ Op(w) \in Ops => payload'[Req(w)] = payload[Req(w)]
<1>1. Op(w)' = Op(w) /\ Who(w)' = Who(w) /\ Req(w)' = Req(w)
  BY DEF Op, Who, Req
<1>2. Op(w) \in Ops => /\ payload'[Req(w)] = payload[Req(w)] /\ reqs'[Req(w)].by = reqs[Req(w)].by
  BY Working, RequestStays DEF Named
<1>3. Kind(w)' = Kind(w)
  BY <1>1, <1>2 DEF Kind, Ops
<1>4. Target(w)' = Target(w)
  BY <1>1, <1>2, <1>3 DEF Target, Ops
<1>5. Initiator(w)' = Initiator(w)
  BY <1>1, <1>2 DEF Initiator, Ops
<1> QED BY <1>1, <1>2, <1>3, <1>4, <1>5 DEF NeedsOwners

(* A transaction that holds or has written anything is at work.             *)
LEMMA Busy ==
  ASSUME Guarded, NEW w \in Workers, NEW s \in Staff, s \in Locked(w) \/ change[w][s] # NoOne
  PROVE  tx[w].stage # "free"
BY DEF Guarded, Holds, Writes

(* How a step of the whole system changes an account: by a commit of what   *)
(* was written to it, by closing its sessions, or from outside.             *)
Committed(v, s) == CommitCall(v) /\ change[v][s] # NoOne /\ acct'[s] = change[v][s]
SessionsClosed(v, s) ==
  RevokeSessions(v) /\ s = Target(v) /\ s \in Locked(v) /\ acct'[s] = [acct[s] EXCEPT !.sess = @ + 1]
Outside(s) ==
  /\ Unlocked(s)
  /\ \/ acct[s].status = "invited" /\ acct'[s] = [acct[s] EXCEPT !.status = "active"]
     \/ acct[s].status = "active" /\ acct'[s] = [acct[s] EXCEPT !.ver = @ + 1, !.sess = @ + 1]

LEMMA AccountSteps ==
  ASSUME StaffInv, [StaffNext]_allVars, NEW s \in Staff
  PROVE  \/ acct'[s] = acct[s] \/ Outside(s)
         \/ \E v \in Workers : Committed(v, s) \/ SessionsClosed(v, s)
<1> USE DEF StaffInv, StaffTypeOK
<1>1. acct' = acct \/ (\E v \in Workers : CommitCall(v) \/ RevokeSessions(v)) \/ \E q \in Staff : Activate(q) \/ LockOut(q)
  BY DEF StaffNext, Load, WorkerStep, Locking, TakeOwners, WaitAccount, LockAccount, Approving, Asking, LockRequest,
         RefuseCall, LapseCall, AcceptCall, CheckCall, ExecWork, ExecRefusal, ExecDone, ExecError, Ask, Sweep,
         Abort, ActDirectly, Decline, staffVars, allVars
<1>2. ASSUME NEW v \in Workers, CommitCall(v) PROVE acct'[s] = acct[s] \/ Committed(v, s)
  BY <1>2 DEF CommitCall, Committed
<1>3. ASSUME NEW v \in Workers, RevokeSessions(v) PROVE acct'[s] = acct[s] \/ SessionsClosed(v, s)
  <2>1. Target(v) \in Staff /\ Target(v) \in Locked(v)
    <3>1. tx[v].c.target \in Staff /\ Target(v) = tx[v].c.target
      BY <1>3, Working DEF RevokeSessions, Ready, Ops, Target
    <3> QED BY <1>3, <3>1 DEF RevokeSessions, MayRevoke, Seen, Locked
  <2> QED BY <1>3, <2>1 DEF RevokeSessions, SessionsClosed
<1>4. ASSUME NEW q \in Staff, Activate(q) PROVE acct'[s] = acct[s] \/ Outside(s)
  BY <1>4 DEF Activate, Outside
<1>5. ASSUME NEW q \in Staff, LockOut(q) PROVE acct'[s] = acct[s] \/ Outside(s)
  BY <1>5 DEF LockOut, Outside
<1> QED BY <1>1, <1>2, <1>3, <1>4, <1>5

(* What a transaction at work elsewhere has locked or written is not        *)
(* changed under it.                                                        *)
LEMMA AccountsKept ==
  ASSUME StaffInv, Guarded, [StaffNext]_allVars, NEW w \in Workers, Aside(w), NEW s \in Staff,
         s \in Locked(w) \/ change[w][s] # NoOne
  PROVE  acct'[s] = acct[s]
<1>1. tx[w].stage # "free" /\ tx'[w] = tx[w]
  BY Busy DEF Aside
<1>2. tx[w] # Free
  BY <1>1 DEF Free
<1>3. (s \in Locked(w)) \/ (acct[s].status = "absent" /\ \A v \in Workers \ {w} : change[v][s] = NoOne)
  BY DEF Guarded, Writes, Fresh
<1>4. \A v \in Workers : s \in Locked(v) => acct[s].status # "absent"
  BY DEF StaffInv, Present, Locked, Created
<1>5. ASSUME NEW v \in Workers, CommitCall(v) \/ RevokeSessions(v) PROVE v # w
  BY <1>1, <1>2, <1>5 DEF CommitCall, RevokeSessions, Release, StaffInv, StaffTypeOK
<1>6. ASSUME NEW v \in Workers, Committed(v, s) PROVE FALSE
  <2>1. v # w /\ change[v][s] # NoOne
    BY <1>5, <1>6 DEF Committed
  <2>2. s \in Locked(w)
    BY <1>3, <2>1
  <2>3. s = Target(v) /\ s \in Locked(v)
    BY <1>4, <2>1, <2>2 DEF Guarded, Writes, Fresh
  <2> QED BY <2>1, <2>2, <2>3 DEF Guarded, Apart
<1>7. ASSUME NEW v \in Workers, SessionsClosed(v, s) PROVE FALSE
  <2>1. v # w /\ s \in Locked(v) /\ s = Target(v)
    BY <1>5, <1>7 DEF SessionsClosed
  <2>2. s \in Locked(w)
    BY <1>3, <1>4, <2>1
  <2> QED BY <2>1, <2>2 DEF Guarded, Apart
<1>8. ~Outside(s)
  BY <1>3 DEF Outside, Unlocked
<1> QED BY <1>6, <1>7, <1>8, AccountSteps

(* Versions and sessions only grow; the role changes with the version, and  *)
(* without the sessions only under the owners' lock.                        *)
LEMMA Growing ==
  ASSUME StaffInv, Guarded, [StaffNext]_allVars, NEW s \in Staff, Created(s)
  PROVE  /\ acct'[s].status # "absent"
         /\ acct'[s].ver >= acct[s].ver /\ acct'[s].sess >= acct[s].sess
         /\ acct'[s].ver = acct[s].ver => acct'[s].role = acct[s].role
         /\ acct'[s].sess = acct[s].sess =>
              acct'[s].role = acct[s].role \/ \E v \in Workers : CommitCall(v) /\ owners = v
<1>1. acct[s] \in Account
  BY DEF StaffInv, StaffTypeOK
<1>2. acct[s].ver \in Nat /\ acct[s].sess \in Nat
  BY <1>1 DEF Account
<1>t. acct'[s].ver \in Nat /\ acct'[s].sess \in Nat
  BY StaffTypeStep DEF StaffTypeOK, Account
<1>3. CASE acct'[s] = acct[s]
  BY <1>2, <1>3 DEF Created
<1>4. CASE Outside(s)
  <2>1. CASE acct'[s] = [acct[s] EXCEPT !.status = "active"]
    BY <1>1, <1>2, <2>1 DEF Account
  <2>2. CASE acct'[s] = [acct[s] EXCEPT !.ver = @ + 1, !.sess = @ + 1] /\ acct[s].status = "active"
    BY <1>1, <1>2, <2>2 DEF Account
  <2> QED BY <1>4, <2>1, <2>2 DEF Outside
<1>5. ASSUME NEW v \in Workers, SessionsClosed(v, s)
      PROVE  acct'[s].status = acct[s].status /\ acct'[s].ver = acct[s].ver /\ acct'[s].sess > acct[s].sess
             /\ acct'[s].role = acct[s].role
  BY <1>1, <1>2, <1>5 DEF SessionsClosed, Account
<1>6. ASSUME NEW v \in Workers, Committed(v, s)
      PROVE  acct'[s].status # "absent" /\ acct'[s].ver = acct[s].ver + 1 /\ acct'[s].sess \in Nat
             /\ \/ acct'[s].sess > acct[s].sess
                \/ acct'[s].sess = acct[s].sess /\ (acct'[s].role = acct[s].role \/ (CommitCall(v) /\ owners = v))
  <2>1. change[v][s] # NoOne /\ acct'[s] = change[v][s] /\ CommitCall(v)
    BY <1>6 DEF Committed
  <2>2. change[v][s] \in Account
    BY <2>1 DEF StaffInv, StaffTypeOK
  <2>3. Following(v, s)
    BY <2>1 DEF Guarded, Writes
  <2>4. change[v][s].status # "absent"
    BY <2>1 DEF StaffInv, Present
  <2>5. change[v][s].sess \in Nat
    BY <2>2 DEF Account
  <2> QED BY <2>1, <2>3, <2>4, <2>5 DEF Following, Created
<1>7. CASE \E v \in Workers : SessionsClosed(v, s)
  <2>1. acct'[s].status = acct[s].status /\ acct'[s].ver = acct[s].ver /\ acct'[s].sess > acct[s].sess
        /\ acct'[s].role = acct[s].role
    BY <1>5, <1>7
  <2>2. acct'[s].status # "absent" /\ acct'[s].role = acct[s].role
    BY <2>1 DEF Created
  <2>3. acct'[s].ver >= acct[s].ver
    BY <1>2, <1>t, <2>1
  <2>4. acct'[s].sess >= acct[s].sess
    BY <1>2, <1>t, <2>1
  <2> QED BY <2>2, <2>3, <2>4
<1>8. CASE \E v \in Workers : Committed(v, s)
  BY <1>2, <1>6, <1>8
<1> QED BY <1>3, <1>4, <1>7, <1>8, AccountSteps

----------------------------------------------------------------------------
(* Each part of Guarded is kept for a transaction that another's step, or   *)
(* one of the accounts' own, leaves alone.                                  *)
LEMMA ElseHolds ==
  ASSUME StaffInv, Guarded, [StaffNext]_allVars, NEW w \in Workers, Aside(w)
  PROVE  Holds(w)' /\ Owns(w)'
<1>1. tx'[w] = tx[w] /\ seen'[w] = seen[w] /\ Locked(w)' = Locked(w) /\ (owners = w => owners' = w)
  BY DEF Aside, Locked
<1>2. tx[w].stage # "free" =>
        /\ Who(w)' = Who(w) /\ Target(w)' = Target(w) /\ Initiator(w)' = Initiator(w)
        /\ NeedsOwners(w)' = NeedsOwners(w)
  BY <1>1, PartiesStay DEF Guarded
<1>3. \A s \in Locked(w) : acct'[s] = acct[s] /\ tx[w].stage # "free"
  BY AccountsKept, Busy DEF Locked
<1>4. Holds(w) /\ Owns(w)
  BY DEF Guarded
<1>5. Holds(w)'
  BY <1>1, <1>2, <1>3, <1>4 DEF Holds
<1>6. Owns(w)'
  BY <1>1, <1>2, <1>4 DEF Owns
<1> QED BY <1>5, <1>6

LEMMA ElseApart ==
  ASSUME StaffInv, Guarded, [StaffNext]_allVars, NEW w \in Workers, Aside(w), NEW v \in Workers \ {w}, Aside(v)
  PROVE  Apart(v, w)'
<1>1. \A u \in {v, w} : Locked(u)' = Locked(u) /\ tx'[u] = tx[u]
  BY DEF Aside, Locked
<1>2. \A u \in {v, w} : Locked(u) # {} => Target(u)' = Target(u)
  BY <1>1, Busy, PartiesStay DEF Guarded, Locked
<1> QED BY <1>1, <1>2 DEF Guarded, Apart

(* Nobody begins to write an account that is being created.                 *)
LEMMA NoneJoins ==
  ASSUME StaffInv, Guarded, [StaffNext]_allVars, NEW v \in Workers, NEW s \in Staff, ~Created(s),
         change[v][s] = NoOne, NEW w \in Workers \ {v}, change[w][s] # NoOne
  PROVE  change'[v][s] = NoOne
<1> USE DEF StaffInv, StaffTypeOK
<1>1. change'[v] = change[v] \/ Release(v) \/ ExecWork(v) \/ ActDirectly(v)
  <2>1. ASSUME NEW u \in Workers, Own(u) PROVE u # v => change'[v] = change[v]
    BY <2>1, Elsewhere DEF Else, Aside
  <2>2. Own(v) => change'[v] = change[v] \/ Release(v) \/ ExecWork(v) \/ ActDirectly(v)
    BY DEF Own, Load, WorkerStep, Locking, TakeOwners, WaitAccount, LockAccount, Approving, Asking, LockRequest,
           RefuseCall, LapseCall, AcceptCall, CheckCall, ExecRefusal, ExecDone, ExecError, CommitCall, Ask, Sweep,
           Abort, RevokeSessions, Decline, staffVars
  <2> QED BY <2>1, <2>2, SomeoneSteps DEF Else, Aside
<1>2. CASE Release(v)
  BY <1>2 DEF Release, None
<1>3. CASE ExecWork(v)
  <2>1. payload[Req(v)] \in Payload /\ payload[Req(v)].target \in Staff /\ Req(v) \in Requests
        /\ reqs[Req(v)].status = "pending"
    BY <1>3, Executing DEF ExecWork, Inv, Rest, Judging, Pending
  <2>2. payload[Req(v)].target # s
    BY <1>3, <2>1 DEF ExecWork, Present
  <2> QED BY <1>3, <2>1, <2>2 DEF ExecWork, Write
<1>4. CASE ActDirectly(v)
  <2>1. Target(v) \in Staff /\ Seen(v) = seen[v][Target(v)] /\ Seen(v) # NoOne
    BY <1>4, Working DEF ActDirectly, Direct, Ready, Target, OpCalls, Ops, Seen
  <2>2. Target(v) # s
    BY <2>1 DEF Present
  <2> QED BY <1>4, <2>1, <2>2 DEF ActDirectly, Write
<1> QED BY <1>1, <1>2, <1>3, <1>4

LEMMA ElseWrites ==
  ASSUME StaffInv, Guarded, [StaffNext]_allVars, NEW w \in Workers, Aside(w)
  PROVE  Writes(w)'
<1> SUFFICES ASSUME NEW s \in Staff, change'[w][s] # NoOne
             PROVE  /\ tx'[w].stage = "done" /\ Following(w, s)'
                    /\ (s = Target(w)' /\ s \in Locked(w)') \/ Fresh(w, s)'
  BY DEF Writes
<1>1. tx'[w] = tx[w] /\ change'[w] = change[w] /\ Locked(w)' = Locked(w) /\ (owners = w => owners' = w)
  BY DEF Aside, Locked
<1>2. tx[w].stage = "done" /\ Following(w, s) /\ ((s = Target(w) /\ s \in Locked(w)) \/ Fresh(w, s))
  BY <1>1 DEF Guarded, Writes
<1>3. acct'[s] = acct[s] /\ Target(w)' = Target(w)
  BY <1>1, <1>2, AccountsKept, PartiesStay DEF Guarded
<1>4. Following(w, s)'
  BY <1>1, <1>2, <1>3 DEF Following
<1>5. ASSUME Fresh(w, s) PROVE Fresh(w, s)'
  BY <1>1, <1>3, <1>5, NoneJoins DEF Fresh, Created
<1> QED BY <1>1, <1>2, <1>3, <1>4, <1>5

(* The actor and the initiator of a call about a request were created.      *)
LEMMA Persons ==
  ASSUME StaffInv, Guarded, NEW w \in Workers, tx[w].stage # "free"
  PROVE  /\ Who(w) # System => Who(w) \in Staff /\ Created(Who(w))
         /\ Op(w) \in Ops =>
              /\ Who(w) \in Staff /\ Created(Who(w)) /\ Req(w) \in Requests /\ reqs[Req(w)].status # "absent"
              /\ payload[Req(w)] \in Payload
         /\ Op(w) = "approve" => Initiator(w) = reqs[Req(w)].by /\ Initiator(w) \in Staff /\ Created(Initiator(w))
<1>1. tx[w].c \in CallType
  BY Working
<1>2. Op(w) \in Ops => Who(w) \in Staff /\ Req(w) \in Requests /\ reqs[Req(w)].status # "absent"
  BY Working DEF Guarded, Named
<1>3. Who(w) # System => Who(w) \in Staff /\ Created(Who(w))
  BY <1>1 DEF StaffInv, Present, Who, CallType
<1>4. Op(w) = "approve" => Initiator(w) = reqs[Req(w)].by /\ Initiator(w) \in Staff /\ Created(Initiator(w))
  BY <1>2 DEF Initiator, Ops, Guarded, Named
<1> QED BY <1>2, <1>3, <1>4, ApprovalsAssumption DEF StaffInv, Present, Ops

LEMMA ElseLoaded ==
  ASSUME StaffInv, Guarded, [StaffNext]_allVars, NEW w \in Workers, Aside(w)
  PROVE  Loaded(w)'
<1> USE DEF StaffInv, StaffTypeOK
<1>1. tx'[w] = tx[w] /\ stale'[w] = stale[w]
  BY DEF Aside
<1>2. Who(w)' = Who(w)
  BY <1>1 DEF Who
<1>3. Loaded(w)'
  <2>1. Loaded(w)
    BY DEF Guarded
  <2>2. ASSUME tx[w].stage # "free", Who(w) # System PROVE tx[w].sess <= acct'[Who(w)].sess
    <3>1. Who(w) \in Staff /\ Created(Who(w)) /\ acct'[Who(w)].sess >= acct[Who(w)].sess
      BY <2>2, Persons, Growing
    <3>2. tx[w].sess \in Nat /\ acct[Who(w)].sess \in Nat /\ acct'[Who(w)].sess \in Nat
      BY <3>1, StaffTypeStep DEF Tx, Account
    <3> QED BY <2>1, <2>2, <3>1, <3>2 DEF Loaded
  <2> QED BY <1>1, <1>2, <2>1, <2>2 DEF Loaded
<1> QED BY <1>3

LEMMA ElseAllowed ==
  ASSUME StaffInv, Guarded, [StaffNext]_allVars, NEW w \in Workers, Else(w)
  PROVE  Allowed(w)' /\ Checked(w)'
<1> USE DEF StaffInv, StaffTypeOK
<1>1. tx'[w] = tx[w] /\ call'[w] = call[w]
  BY DEF Else, Aside
<1>2. Who(w)' = Who(w)
  BY <1>1 DEF Who
<1>4. ASSUME call[w].pc \in {"locked", "check", "exec"}
      PROVE  /\ tx[w].stage # "free" /\ Op(w) \in Ops /\ Req(w)' = Req(w) /\ payload'[Req(w)] = payload[Req(w)]
             /\ Op(w)' = Op(w) /\ Initiator(w)' = Initiator(w)
  <2>1. tx[w].stage # "free" /\ Op(w) \in Ops
    BY <1>4, Executing DEF Tied
  <2> QED BY <1>1, <2>1, PartiesStay DEF Guarded
<1>5. Allowed(w)'
  BY <1>1, <1>2, <1>4 DEF Guarded, Allowed
<1>6. Checked(w)'
  <2> SUFFICES ASSUME call[w].pc = "exec"
               PROVE  /\ acct'[Initiator(w)].ver >= payload[Req(w)].initVer
                      /\ acct'[Initiator(w)].ver = payload[Req(w)].initVer =>
                           Permits(acct'[Initiator(w)].role, payload[Req(w)].elevated)
    BY <1>1, <1>4 DEF Checked
  <2>1. acct[Initiator(w)].ver >= payload[Req(w)].initVer
    BY DEF Guarded, Checked
  <2>b. acct[Initiator(w)].ver = payload[Req(w)].initVer => Permits(acct[Initiator(w)].role, payload[Req(w)].elevated)
    BY DEF Guarded, Checked
  <2>2. Op(w) = "approve"
    BY <1>4 DEF Guarded, Allowed, Tied, Op
  <2>3. Initiator(w) \in Staff /\ Created(Initiator(w)) /\ payload[Req(w)] \in Payload
    BY <1>4, <2>2, Persons DEF Ops
  <2>4. acct'[Initiator(w)].ver >= acct[Initiator(w)].ver
    BY <2>3, Growing
  <2>c. acct'[Initiator(w)].ver = acct[Initiator(w)].ver => acct'[Initiator(w)].role = acct[Initiator(w)].role
    BY <2>3, Growing
  <2>5. acct[Initiator(w)].ver \in Nat /\ acct'[Initiator(w)].ver \in Nat /\ payload[Req(w)].initVer \in Nat
    BY <2>3, StaffTypeStep DEF Account, Payload
  <2> DEFINE x == payload[Req(w)].initVer  y == acct[Initiator(w)].ver  z == acct'[Initiator(w)].ver
  <2>d. x \in Nat /\ y \in Nat /\ z \in Nat /\ y >= x /\ z >= y
    BY <2>1, <2>4, <2>5
  <2>e. z = x => z = y /\ y = x
    <3> HIDE DEF x, y, z
    <3> QED BY <2>d, NumbersGrow
  <2>6. acct'[Initiator(w)].ver >= payload[Req(w)].initVer
    BY <2>1, <2>4, <2>5, NumbersGrow
  <2> QED BY <2>6, <2>e, <2>b, <2>c
<1> QED BY <1>5, <1>6

(* The owners' lock is held wherever the approver's role matters.           *)
LEMMA DecidingOwns ==
  ASSUME StaffInv, Guarded, NEW w \in Workers, Deciding(w), tx[w].stage = "accounts" \/ Locked(w) # {}
  PROVE  owners = w
<1>1. payload[Req(w)] \in Payload /\ Kind(w) = payload[Req(w)].kind
  BY Persons DEF Deciding, Kind, Ops
<1>2. NeedsOwners(w)
  BY <1>1 DEF Deciding, NeedsOwners, Payload, Asks
<1> QED BY <1>2 DEF Deciding, Guarded, Owns

LEMMA ElseRoleKept ==
  ASSUME StaffInv, Guarded, [StaffNext]_allVars, NEW w \in Workers, Aside(w)
  PROVE  RoleKept(w)'
<1> SUFFICES ASSUME Deciding(w)'
             PROVE  /\ Who(w)' \in Locked(w)' => seen'[w][Who(w)'].role = acct'[Who(w)'].role
                    /\ tx'[w].stage = "accounts" /\ stale'[w] # NoOne /\ NextAccount(w, Who(w))' =>
                         acct'[Who(w)'].role = stale'[w]
  BY DEF RoleKept
<1>1. tx'[w] = tx[w] /\ seen'[w] = seen[w] /\ stale'[w] = stale[w] /\ Locked(w)' = Locked(w)
  BY DEF Aside, Locked
<1>2. tx[w].stage \in {"accounts", "done"} /\ Op(w) = "approve" /\ acct'[Who(w)].sess = tx[w].sess
      /\ Who(w)' = Who(w)
  BY <1>1 DEF Deciding, Who, Op
<1>3. Kind(w)' = Kind(w)
  BY <1>1, <1>2, PartiesStay DEF Guarded
<1>4. Who(w) \in Staff /\ Created(Who(w))
  BY <1>2, Persons DEF Ops
<1>5. acct[Who(w)].sess = tx[w].sess
  <2>1. tx[w].sess <= acct[Who(w)].sess
    BY <1>2, <1>4, ApprovalsAssumption DEF Guarded, Loaded
  <2>2. acct'[Who(w)].sess >= acct[Who(w)].sess
    BY <1>4, Growing
  <2>3. tx[w].sess \in Nat /\ acct[Who(w)].sess \in Nat
    BY <1>4 DEF StaffInv, StaffTypeOK, Tx, Account
  <2> DEFINE x == tx[w].sess  y == acct[Who(w)].sess  z == acct'[Who(w)].sess
  <2>4. x \in Nat /\ y \in Nat /\ z = x /\ x <= y /\ z >= y
    BY <1>2, <2>1, <2>2, <2>3
  <2>5. y = x
    <3> HIDE DEF x, y, z
    <3> QED BY <2>4
  <2> QED BY <2>5
<1>6. Deciding(w)
  BY <1>2, <1>3, <1>5 DEF Deciding
<1>7. Who(w) \in Locked(w) => seen'[w][Who(w)].role = acct'[Who(w)].role
  BY <1>1, <1>6, AccountsKept DEF Guarded, RoleKept, Locked
<1>8. ASSUME tx[w].stage = "accounts", stale[w] # NoOne, NextAccount(w, Who(w))'
      PROVE  acct'[Who(w)].role = stale[w]
  <2>1. NextAccount(w, Who(w))'
    BY <1>8
  <2> DEFINE s == Who(w)
  <2>2. NextAccount(w, s)
    <3>1. s \in Missing(w)' /\ \A q \in Missing(w)' : s <= q
      BY <1>2, <1>8 DEF NextAccount
    <3>2. s \in Staff /\ Created(s)
      BY <1>4
    <3>3. /\ Target(w)' = Target(w) /\ Initiator(w)' = Initiator(w)
      BY <1>1, <1>2, PartiesStay DEF Guarded
    <3>4. \A q \in Staff : Created(q) => acct'[q].status # "absent"
      BY Growing
    <3>5. Missing(w) \subseteq Missing(w)'
      BY <1>1, <1>2, <3>3, <3>4 DEF Missing, Parties, Created
    <3>6. s \in Missing(w)
      BY <1>1, <1>2, <3>1, <3>2, <3>3 DEF Missing, Parties, Created
    <3> QED BY <3>1, <3>5, <3>6 DEF NextAccount
  <2>3. acct[s].role = stale[w]
    BY <1>6, <1>8, <2>2 DEF Guarded, RoleKept
  <2>4. owners = w
    BY <1>6, <1>8, DecidingOwns
  <2>5. \A v \in Workers : ~(CommitCall(v) /\ owners = v)
    <3>1. CommitCall(w) => tx'[w] = Free
      BY DEF CommitCall, Release, StaffInv, StaffTypeOK
    <3> QED BY <1>1, <1>2, <2>4, <3>1 DEF Free
  <2>6. acct'[s].sess = acct[s].sess
    BY <1>2, <1>5
  <2>7. acct'[s].role = acct[s].role
    BY <1>4, <2>5, <2>6, Growing
  <2> QED BY <2>3, <2>7
<1> QED BY <1>1, <1>2, <1>7, <1>8

(* What an executor did stays what was asked.                               *)
LEMMA WorkedKept ==
  ASSUME StaffInv, Guarded, [StaffNext]_allVars, NEW w \in Workers, Aside(w), Worked(w)
  PROVE  Worked(w)'
<1> USE DEF StaffInv, StaffTypeOK
<1>1. tx'[w] = tx[w] /\ change'[w] = change[w] /\ Locked(w)' = Locked(w)
  BY DEF Aside, Locked
<1>2. Who(w)' = Who(w) /\ Req(w)' = Req(w) /\ Op(w)' = Op(w)
  BY <1>1 DEF Who, Req, Op
<1>3. Worked(w)'
  <2>1. Op(w) = "approve" /\ tx[w].stage = "done" /\ {Who(w), Initiator(w)} \subseteq Locked(w)
        /\ change[w][payload[Req(w)].target] = Executed(payload[Req(w)])
    BY DEF Worked
  <2>2. payload[Req(w)] \in Payload /\ payload[Req(w)].target \in Staff
    BY <2>1, Persons DEF Ops, Payload
  <2>3. payload'[Req(w)] = payload[Req(w)] /\ Initiator(w)' = Initiator(w)
    BY <1>1, <2>1, PartiesStay DEF Guarded, Ops
  <2>4. change[w][payload[Req(w)].target] # NoOne
    BY <2>1, <2>2, ExecutedType, StaffAssumption
  <2>5. acct'[Who(w)] = acct[Who(w)] /\ acct'[Initiator(w)] = acct[Initiator(w)]
        /\ acct'[payload[Req(w)].target] = acct[payload[Req(w)].target]
    BY <2>1, <2>2, <2>4, AccountsKept DEF Locked
  <2>6. Executed(payload[Req(w)])' = Executed(payload[Req(w)])
    BY <1>2, <2>3, <2>5 DEF Executed, Invited, Reset, WithRole, Disabled
  <2>7. InitiatorValid(acct[Initiator(w)], payload[Req(w)])
        /\ acct[payload[Req(w)].target].ver = payload[Req(w)].ver
    BY DEF Worked
  <2>8. IF payload[Req(w)].kind = "invite" THEN acct[payload[Req(w)].target].status # "active"
        ELSE acct[Who(w)].status = "active" /\ Permits(acct[Who(w)].role, payload[Req(w)].elevated)
    BY DEF Worked
  <2> QED BY <1>1, <1>2, <2>1, <2>3, <2>5, <2>6, <2>7, <2>8 DEF Worked
<1> QED BY <1>3

LEMMA ElseWorks ==
  ASSUME StaffInv, Guarded, [StaffNext]_allVars, NEW w \in Workers, Else(w)
  PROVE  Works(w)'
<1>1. tx'[w] = tx[w] /\ change'[w] = change[w] /\ call'[w] = call[w] /\ staged'[w] = staged[w]
  BY DEF Else, Aside
<1>2. Who(w)' = Who(w) /\ Req(w)' = Req(w)
  BY <1>1 DEF Who, Req
<1>3. Worked(w) => Worked(w)'
  BY WorkedKept DEF Else
<1> QED BY <1>1, <1>2, <1>3 DEF Guarded, Works

Proper(w) ==
  Holds(w) /\ Owns(w) /\ Writes(w) /\ Loaded(w) /\ Allowed(w) /\ Checked(w) /\ RoleKept(w) /\ Works(w)

LEMMA ElseProper ==
  ASSUME StaffInv, Guarded, [StaffNext]_allVars, NEW w \in Workers, Else(w)
  PROVE  Proper(w)'
BY ElseHolds, ElseWrites, ElseLoaded, ElseAllowed, ElseRoleKept, ElseWorks DEF Else, Proper

----------------------------------------------------------------------------
(* The steps of a transaction itself.  At its end nothing is left of it.    *)
LEMMA EndProper ==
  ASSUME StaffInv, NEW w \in Workers, Release(w), call'[w].pc = "idle", \A r \in Requests : staged'[w][r] = NoOne
  PROVE  Proper(w)' /\ Locked(w)' = {}
<1>1. tx'[w] = Free /\ seen'[w] = None /\ stale'[w] = NoOne /\ change'[w] = None
  BY DEF Release, StaffInv, StaffTypeOK
<1>2. Locked(w)' = {}
  BY <1>1 DEF Locked, None
<1>3. tx'[w].stage = "free" /\ call'[w].pc = "idle" /\ \A s \in Staff : change'[w][s] = NoOne
  BY <1>1 DEF Free, Idle, None
<1>4. Holds(w)' /\ Owns(w)' /\ Writes(w)'
  BY <1>2, <1>3 DEF Holds, Owns, Writes
<1>5. Loaded(w)' /\ Allowed(w)' /\ Checked(w)' /\ RoleKept(w)'
  BY <1>1, <1>3 DEF Loaded, Allowed, Checked, RoleKept, Deciding
<1>6. Works(w)'
  BY <1>3 DEF Works
<1> QED BY <1>2, <1>4, <1>5, <1>6 DEF Proper

LEMMA Ends ==
  ASSUME StaffInv, Guarded, NEW w \in Workers,
         RefuseCall(w) \/ ExecError(w) \/ Abort(w) \/ CommitCall(w) \/ Ask(w) \/ RevokeSessions(w) \/ Decline(w)
  PROVE  Proper(w)' /\ Locked(w)' = {}
<1>1. Release(w)
  BY DEF RefuseCall, ExecError, Abort, CommitCall, Ask, RevokeSessions, Decline
<1>2. EndTx(w) \/ (call[w].pc = "idle" /\ UNCHANGED <<call, staged>>)
  BY DEF RefuseCall, Refuse, ExecError, Abort, Rollback, CommitCall, Commit, Ask, Request, RevokeSessions, Decline, vars
<1>3. CASE EndTx(w)
  <2>1. call'[w] = Idle /\ \A r \in Requests : staged'[w][r] = NoOne
    BY <1>3 DEF EndTx, Nothing, StaffInv, Inv, TypeOK
  <2> QED BY <1>1, <2>1, EndProper DEF Idle
<1>4. CASE call[w].pc = "idle" /\ UNCHANGED <<call, staged>>
  <2>1. \A r \in Requests : staged'[w][r] = NoOne
    BY <1>4 DEF Guarded, Solitary, Bare
  <2>2. call'[w].pc = "idle"
    BY <1>4
  <2> QED BY <1>1, <2>1, <2>2, EndProper
<1> QED BY <1>2, <1>3, <1>4

(* The service's own steps leave the module's locks and writes alone.       *)
LEMMA ServiceProper ==
  ASSUME StaffInv, Guarded, [StaffNext]_allVars, NEW w \in Workers,
         LockRequest(w) \/ LapseCall(w) \/ AcceptCall(w) \/ ExecDone(w) \/ Sweep(w)
  PROVE  Proper(w)' /\ Locked(w)' = Locked(w) /\ Target(w)' = Target(w)
<1> USE DEF StaffInv, StaffTypeOK
<1>1. UNCHANGED staffVars /\ UNCHANGED reqs
  BY DEF LockRequest, LapseCall, AcceptCall, ExecDone, Sweep, LockApproval, Overdue, Accept, Exec, ExpireDue
<1>2. Aside(w) /\ Locked(w)' = Locked(w) /\ Target(w)' = Target(w) /\ Who(w)' = Who(w) /\ Req(w)' = Req(w)
      /\ Op(w)' = Op(w)
  BY <1>1 DEF Aside, staffVars, Locked, Target, Kind, Op, Req, Who
<1>3. Holds(w)' /\ Owns(w)' /\ Writes(w)' /\ Loaded(w)' /\ RoleKept(w)' /\ (Worked(w) => Worked(w)')
  BY <1>2, ElseHolds, ElseWrites, ElseLoaded, ElseRoleKept, WorkedKept
<1>4. CASE LockRequest(w)
  <2>1. call'[w] = [pc |-> "locked", op |-> Op(w), who |-> Who(w), req |-> Req(w),
                    may |-> Permits(tx[w].role, payload[Req(w)].elevated)]
        /\ staged' = staged /\ call[w].pc = "idle" /\ tx[w].stage = "request"
    BY <1>4 DEF LockRequest, LockApproval, Inv, TypeOK
  <2>2. call'[w].pc = "locked" /\ call'[w].who = Who(w)
        /\ (call'[w].may <=> Permits(tx[w].role, payload[Req(w)].elevated))
    BY <2>1
  <2>3. Allowed(w)' /\ Checked(w)'
    BY <1>1, <1>2, <2>1, <2>2 DEF Allowed, Checked, staffVars
  <2>4. Works(w)'
    BY <2>1, <2>2 DEF Works, Guarded, Solitary, Bare
  <2> QED BY <1>2, <1>3, <2>3, <2>4 DEF Proper
<1>5. CASE LapseCall(w)
  <2>1. call'[w].pc = "commit" /\ call[w].pc = "locked" /\ call[w].req \in Requests
        /\ staged'[w] = [staged[w] EXCEPT ![call[w].req] = Lapsed(call[w].req)]
    BY <1>5 DEF LapseCall, Overdue, Decide, Step, Inv, TypeOK, Rest, Judging
  <2>2. \A r \in Requests : staged'[w][r] # NoOne => staged'[w][r].status = "expired"
    BY <2>1 DEF Guarded, Solitary, Bare, Inv, TypeOK, Lapsed
  <2>3. Allowed(w)' /\ Checked(w)' /\ Works(w)'
    BY <2>1, <2>2 DEF Allowed, Checked, Works
  <2> QED BY <1>2, <1>3, <2>3 DEF Proper
<1>6. CASE AcceptCall(w)
  <2>1. call[w].pc = "locked" /\ call[w].req \in Requests /\ call[w].op \in Ops /\ Entitled(call[w])
    BY <1>6, ApprovalsAssumption DEF AcceptCall, Accept, Inv, Rest, Judging
  <2>2. CASE call[w].op = "approve"
    <3>1. Step(w, "check") /\ staged' = staged
      BY <1>6, <2>2 DEF AcceptCall, Accept
    <3>2. call[w] \in Call /\ call'[w] = [call[w] EXCEPT !.pc = "check"]
      BY <3>1 DEF Step, Inv, TypeOK
    <3>3. call'[w].pc = "check" /\ call'[w].op = call[w].op /\ call'[w].who = call[w].who /\ call'[w].may = call[w].may
      BY <3>2 DEF Call
    <3>4. call[w].may
      BY <2>1, <2>2 DEF Entitled
    <3>5. call'[w].may
      BY <3>3, <3>4
    <3>6. call[w].who = Who(w) /\ Permits(tx[w].role, payload[Req(w)].elevated) /\ tx[w].stage = "request"
      BY <2>1, <3>4 DEF Guarded, Allowed
    <3>7. Allowed(w)'
      BY <1>1, <1>2, <2>2, <3>3, <3>5, <3>6 DEF Allowed, staffVars
    <3>8. Checked(w)' /\ Works(w)'
      BY <2>1, <3>1, <3>3 DEF Checked, Works, Guarded, Solitary, Bare
    <3> QED BY <1>2, <1>3, <3>7, <3>8 DEF Proper
  <2>3. CASE call[w].op # "approve"
    <3>1. PICK st \in {"rejected", "cancelled"} : Decide(w, call[w].req, Verdict(st, call[w].who))
      BY <1>6, <2>1, <2>3 DEF AcceptCall, Accept, Ops
    <3>2. call'[w].pc = "commit" /\ staged'[w] = [staged[w] EXCEPT ![call[w].req] = Verdict(st, call[w].who)]
      BY <3>1 DEF Decide, Step, Inv, TypeOK
    <3>3. \A r \in Requests : staged'[w][r] # NoOne => staged'[w][r].status = st
      BY <2>1, <3>2 DEF Guarded, Solitary, Bare, Inv, TypeOK, Verdict
    <3>4. Allowed(w)' /\ Checked(w)' /\ Works(w)'
      BY <3>2, <3>3 DEF Allowed, Checked, Works
    <3> QED BY <1>2, <1>3, <3>4 DEF Proper
  <2> QED BY <2>2, <2>3
<1>7. CASE ExecDone(w)
  <2>1. call'[w].pc = "commit" /\ call[w].pc = "exec" /\ call[w].req \in Requests /\ tx[w].stage = "done"
        /\ staged'[w] = [staged[w] EXCEPT ![call[w].req] = Verdict("executed", call[w].who)]
    BY <1>7 DEF ExecDone, Exec, Decide, Step, Inv, TypeOK, Rest, Judging
  <2>2. Worked(w) /\ call[w].req = Req(w) /\ call[w].who = Who(w)
    BY <2>1, Executing DEF Guarded, Works, Allowed
  <2>3. staged'[w][Req(w)].status = "executed" /\ staged'[w][Req(w)].decider = Who(w)
    BY <2>1, <2>2 DEF Verdict, Inv, TypeOK
  <2>4. \A r \in Requests \ {Req(w)} : staged'[w][r] = staged[w][r]
    BY <2>1, <2>2 DEF Inv, TypeOK
  <2>5. \A r \in Requests : staged[w][r] # NoOne => staged[w][r].status # "failed"
    BY <2>1 DEF Guarded, Solitary, Lone
  <2>6. Works(w)'
    <3>1. Worked(w)'
      BY <1>3, <2>2
    <3>2. \A r \in Requests \ {Req(w)} : staged[w][r] # NoOne =>
             staged[w][r].status # "executed" /\ staged[w][r].status # "failed"
      BY <2>5 DEF Guarded, Works
    <3> QED BY <1>2, <2>1, <2>3, <2>4, <3>1, <3>2 DEF Works
  <2>7. Allowed(w)' /\ Checked(w)'
    BY <2>1 DEF Allowed, Checked
  <2> QED BY <1>2, <1>3, <2>6, <2>7 DEF Proper
<1>8. CASE Sweep(w)
  <2>1. call'[w].pc = "commit" /\ \A r \in Requests : staged'[w][r] # NoOne => staged'[w][r].status = "expired"
    BY <1>8 DEF Sweep, ExpireDue, Step, Lapsed, Inv, TypeOK
  <2>2. Allowed(w)' /\ Checked(w)' /\ Works(w)'
    BY <2>1 DEF Allowed, Checked, Works
  <2> QED BY <1>2, <1>3, <2>2 DEF Proper
<1> QED BY <1>4, <1>5, <1>6, <1>7, <1>8

(* The session is loaded: nothing is locked or written yet.                 *)
LEMMA LoadProper ==
  ASSUME StaffInv, Guarded, [StaffNext]_allVars, NEW w \in Workers, NEW c \in left, Load(w, c)
  PROVE  Proper(w)' /\ Locked(w)' = {}
<1> USE DEF StaffInv, StaffTypeOK
<1>1. /\ tx[w].stage = "free" /\ call[w].pc = "idle" /\ UNCHANGED <<vars, acct, payload, seen, stale, owners, change>>
      /\ c \in CallType
  BY CallsTyped DEF Load
<1>2. /\ tx'[w].c = c /\ tx'[w].sess = (IF c.who = System THEN 0 ELSE acct[c.who].sess)
      /\ tx'[w].stage = (IF c.op \in Ops THEN "request"
                         ELSE IF c.op \in {"role", "reset", "disable", "opdisable"} THEN "owners" ELSE "accounts")
  BY DEF Load
<1>3. Locked(w) = {} /\ \A s \in Staff : change[w][s] = NoOne
  BY <1>1 DEF Guarded, Holds, Writes
<1>4. Locked(w)' = {} /\ \A s \in Staff : change'[w][s] = NoOne
  BY <1>1, <1>3 DEF Locked
<1>5. call'[w].pc = "idle" /\ \A r \in Requests : staged'[w][r] = NoOne
  BY <1>1 DEF vars, Guarded, Solitary, Bare
<1>6. Op(w)' = c.op /\ Who(w)' = c.who
  BY <1>2 DEF Op, Who
<1>7. Holds(w)' /\ Writes(w)'
  BY <1>4 DEF Holds, Writes
<1>8. Owns(w)'
  <2>1. tx'[w].stage # "done"
    BY <1>2
  <2>2. ASSUME tx'[w].stage = "accounts" PROVE ~NeedsOwners(w)'
    <3>1. c.op \notin Ops \cup {"role", "reset", "disable", "opdisable"}
      BY <1>2, <2>2
    <3>2. Kind(w)' = c.op
      BY <1>6, <3>1 DEF Kind, Ops
    <3> QED BY <3>1, <3>2 DEF NeedsOwners
  <2> QED BY <2>1, <2>2 DEF Owns
<1>9. Loaded(w)'
  <2>1. stale'[w] = NoOne
    BY <1>1 DEF Guarded, Loaded
  <2>2. c.who # System => c.who \in Staff
    BY <1>1 DEF CallType
  <2>3. ASSUME c.who # System PROVE tx'[w].sess <= acct'[c.who].sess
    <3>1. tx'[w].sess = acct[c.who].sess /\ acct' = acct /\ acct[c.who].sess \in Nat
      BY <1>1, <1>2, <2>2, <2>3 DEF Account
    <3> QED BY <3>1
  <2> QED BY <1>6, <2>1, <2>3 DEF Loaded
<1>10. RoleKept(w)'
  <2>1. c.op = "approve" => tx'[w].stage = "request"
    BY <1>2 DEF Ops
  <2> QED BY <1>6, <2>1 DEF RoleKept, Deciding
<1>11. Allowed(w)' /\ Checked(w)' /\ Works(w)'
  BY <1>5 DEF Allowed, Checked, Works
<1> QED BY <1>4, <1>7, <1>8, <1>9, <1>10, <1>11 DEF Proper

(* The preliminary check.                                                   *)
LEMMA CheckProper ==
  ASSUME StaffInv, Guarded, [StaffNext]_allVars, NEW w \in Workers, CheckCall(w)
  PROVE  Proper(w)' /\ Locked(w)' = {}
<1> USE DEF StaffInv, StaffTypeOK
<1> DEFINE p == payload[Req(w)]
<1>1. /\ call[w].pc = "check" /\ tx[w].stage = "request" /\ UNCHANGED <<acct, payload, left, seen, stale, owners, change>>
      /\ UNCHANGED reqs /\ call[w].op = "approve" /\ call[w].may /\ call[w].who = Who(w)
      /\ Permits(tx[w].role, p.elevated)
  BY DEF CheckCall, CheckInitiator, Guarded, Allowed
<1>2. Op(w) = "approve" /\ Req(w) \in Requests /\ Req(w) = call[w].req /\ p \in Payload /\ Kind(w) = p.kind
  BY <1>1, Executing DEF Tied, Op, Kind
<1>3. Locked(w) = {} /\ (\A s \in Staff : change[w][s] = NoOne) /\ stale[w] = NoOne
  BY <1>1 DEF Guarded, Holds, Writes, Loaded
<1>4. Locked(w)' = {} /\ (\A s \in Staff : change'[w][s] = NoOne) /\ stale'[w] = NoOne
  BY <1>1, <1>3 DEF Locked
<1>5. Holds(w)' /\ Writes(w)'
  BY <1>4 DEF Holds, Writes
<1>6. /\ tx'[w].c = tx[w].c /\ tx'[w].role = tx[w].role /\ tx'[w].sess = tx[w].sess
      /\ tx'[w].stage \in {"request", Begin(w)}
  <2>1. tx[w] \in Tx
    OBVIOUS
  <2>2. tx' = tx \/ tx' = [tx EXCEPT ![w].stage = Begin(w)]
    BY DEF CheckCall, At
  <2> QED BY <1>1, <2>1, <2>2 DEF Tx
<1>7. Op(w)' = Op(w) /\ Who(w)' = Who(w) /\ Req(w)' = Req(w) /\ Kind(w)' = Kind(w) /\ Initiator(w)' = Initiator(w)
      /\ NeedsOwners(w)' = NeedsOwners(w)
  BY <1>1, <1>6 DEF Op, Who, Req, Kind, Initiator, NeedsOwners
<1>8. Loaded(w)'
  <2>1. Loaded(w)
    BY DEF Guarded
  <2> QED BY <1>1, <1>4, <1>6, <1>7, <2>1 DEF Loaded
<1>9. tx'[w].stage # "done" /\ (tx'[w].stage = "accounts" => ~NeedsOwners(w))
  BY <1>6 DEF Begin
<1>10. Owns(w)'
  BY <1>7, <1>9 DEF Owns
<1>11. RoleKept(w)'
  <2>1. p.kind \in Asks
    BY <1>2 DEF Payload
  <2>2. tx'[w].stage = "accounts" => Kind(w)' = "invite"
    BY <1>2, <1>7, <1>9, <2>1 DEF NeedsOwners, Asks
  <2> QED BY <1>9, <2>2 DEF RoleKept, Deciding
<1>12. /\ \A r \in Requests : staged[w][r] = NoOne
       /\ (Step(w, "exec") /\ staged' = staged) \/ Decide(w, call[w].req, Verdict("failed", call[w].who))
  BY <1>1 DEF CheckCall, CheckInitiator, Guarded, Solitary, Bare
<1>13. CASE Step(w, "exec") /\ staged' = staged
  <2>1. call[w] \in Call /\ call'[w] = [call[w] EXCEPT !.pc = "exec"]
    BY <1>13 DEF Step, Inv, TypeOK
  <2>2. call'[w].pc = "exec" /\ call'[w].op = call[w].op /\ call'[w].who = call[w].who /\ call'[w].may = call[w].may
    BY <2>1 DEF Call
  <2>3. call'[w].may
    BY <1>1, <2>2
  <2>4. Allowed(w)'
    BY <1>1, <1>6, <1>7, <2>2, <2>3 DEF Allowed
  <2>5. InitiatorValid(acct[reqs[Req(w)].by], p) /\ Initiator(w) = reqs[Req(w)].by
    BY <1>2, <2>2 DEF CheckCall, Initiator
  <2>6. Initiator(w) \in Staff
    BY <1>1, <1>2, Persons
  <2>7. acct[Initiator(w)].ver = p.initVer /\ p.initVer \in Nat /\ Permits(acct[Initiator(w)].role, p.elevated)
    BY <1>2, <2>5 DEF InitiatorValid, Payload
  <2>8. acct[Initiator(w)].ver >= p.initVer
    BY <2>7
  <2>9. Checked(w)'
    BY <1>1, <1>7, <2>7, <2>8 DEF Checked
  <2>10. Works(w)'
    BY <1>9, <1>12, <1>13 DEF Works
  <2> QED BY <1>4, <1>5, <1>8, <1>10, <1>11, <2>4, <2>9, <2>10 DEF Proper
<1>14. CASE Decide(w, call[w].req, Verdict("failed", call[w].who))
  <2>1. call'[w].pc = "commit" /\ staged'[w] = [staged[w] EXCEPT ![call[w].req] = Verdict("failed", call[w].who)]
    BY <1>14 DEF Decide, Step, Inv, TypeOK
  <2>2. \A r \in Requests : staged'[w][r] # NoOne => staged'[w][r].status = "failed"
    BY <1>2, <1>12, <2>1 DEF Verdict, Inv, TypeOK
  <2>3. Allowed(w)' /\ Checked(w)' /\ Works(w)'
    BY <1>4, <2>1, <2>2 DEF Allowed, Checked, Works
  <2> QED BY <1>4, <1>5, <1>8, <1>10, <1>11, <2>3 DEF Proper
<1> QED BY <1>12, <1>13, <1>14

(* The locks: the service's call and what is written are left alone.        *)
LEMMA LockingKeeps ==
  ASSUME StaffInv, Guarded, [StaffNext]_allVars, NEW w \in Workers, Locking(w)
  PROVE  /\ UNCHANGED <<vars, acct, payload, change>> /\ tx[w].stage \in {"owners", "accounts"} /\ tx'[w].stage = "accounts"
         /\ tx'[w].c = tx[w].c /\ tx'[w].role = tx[w].role /\ tx'[w].sess = tx[w].sess
         /\ Op(w)' = Op(w) /\ Who(w)' = Who(w) /\ Req(w)' = Req(w) /\ Kind(w)' = Kind(w) /\ Target(w)' = Target(w)
         /\ Initiator(w)' = Initiator(w) /\ NeedsOwners(w)' = NeedsOwners(w)
         /\ Writes(w)' /\ Allowed(w)' /\ Checked(w)' /\ Works(w)'
<1> USE DEF StaffInv, StaffTypeOK
<1>1. UNCHANGED <<vars, acct, payload, change>> /\ tx[w].stage \in {"owners", "accounts"} /\ tx'[w].stage = "accounts"
      /\ tx'[w].c = tx[w].c /\ tx'[w].role = tx[w].role /\ tx'[w].sess = tx[w].sess
  <2>1. tx[w] \in Tx
    OBVIOUS
  <2>2. CASE TakeOwners(w)
    <3>1. tx'[w] = [tx[w] EXCEPT !.stage = "accounts"]
      BY <2>2 DEF TakeOwners, At
    <3> QED BY <2>1, <2>2, <3>1 DEF TakeOwners, Tx
  <2>3. ASSUME NEW s \in Staff, WaitAccount(w, s) \/ LockAccount(w, s)
        PROVE  UNCHANGED <<vars, acct, payload, change, tx>> /\ tx[w].stage = "accounts"
    BY <2>3 DEF WaitAccount, LockAccount
  <2> QED BY <2>2, <2>3 DEF Locking
<1>2. /\ Op(w)' = Op(w) /\ Who(w)' = Who(w) /\ Req(w)' = Req(w) /\ Kind(w)' = Kind(w) /\ Target(w)' = Target(w)
      /\ Initiator(w)' = Initiator(w) /\ NeedsOwners(w)' = NeedsOwners(w)
  BY <1>1, PartiesStay DEF Guarded
<1>3. \A s \in Staff : change[w][s] = NoOne
  BY <1>1 DEF Guarded, Writes
<1>4. Writes(w)'
  BY <1>1, <1>3 DEF Writes
<1>5. Allowed(w) /\ Checked(w) /\ Works(w) /\ ~Worked(w)
  BY <1>1 DEF Guarded, Worked
<1>6. Allowed(w)'
  <2>1. ASSUME call[w].pc \in {"locked", "check"} PROVE FALSE
    BY <1>1, <1>5, <2>1 DEF Allowed
  <2>2. call'[w] = call[w] /\ payload' = payload
    BY <1>1 DEF vars
  <2> QED BY <1>1, <1>2, <1>5, <2>1, <2>2 DEF Allowed
<1>7. Checked(w)'
  BY <1>1, <1>2, <1>5 DEF Checked, vars
<1>8. Works(w)'
  BY <1>1, <1>2, <1>3, <1>5 DEF Works, vars
<1> QED BY <1>1, <1>2, <1>4, <1>6, <1>7, <1>8

LEMMA OwnersProper ==
  ASSUME StaffInv, Guarded, [StaffNext]_allVars, NEW w \in Workers, TakeOwners(w)
  PROVE  Proper(w)' /\ Locked(w)' = {}
<1> USE DEF StaffInv, StaffTypeOK
<1>1. Locking(w)
  BY DEF Locking
<1>2. tx[w].stage = "owners" /\ owners' = w /\ seen' = seen /\ stale' = stale /\ acct' = acct
  BY DEF TakeOwners
<1>3. Locked(w)' = {} /\ stale'[w] = NoOne
  BY <1>2 DEF Guarded, Holds, Loaded, Locked
<1>4. Holds(w)' /\ Owns(w)'
  BY <1>2, <1>3 DEF Holds, Owns
<1>5. Loaded(w)'
  <2>1. Loaded(w)
    BY DEF Guarded
  <2> QED BY <1>1, <1>2, <1>3, <2>1, LockingKeeps DEF Loaded
<1>6. RoleKept(w)'
  BY <1>3 DEF RoleKept
<1> QED BY <1>1, <1>3, <1>4, <1>5, <1>6, LockingKeeps DEF Proper

(* A statement that waits remembers the role its snapshot has.              *)
LEMMA WaitProper ==
  ASSUME StaffInv, Guarded, [StaffNext]_allVars, NEW w \in Workers, NEW s \in Staff, WaitAccount(w, s)
  PROVE  Proper(w)' /\ Locked(w)' = Locked(w) /\ Target(w)' = Target(w)
<1> USE DEF StaffInv, StaffTypeOK
<1>1. Locking(w)
  BY DEF Locking
<1>2. tx[w].stage = "accounts" /\ NextAccount(w, s) /\ UNCHANGED <<vars, acct, payload, left, tx, seen, owners, change>>
      /\ stale'[w] = acct[s].role
  BY DEF WaitAccount
<1>3. Locked(w)' = Locked(w)
  BY <1>2 DEF Locked
<1>4. Who(w)' = Who(w) /\ Target(w)' = Target(w) /\ Initiator(w)' = Initiator(w) /\ NeedsOwners(w)' = NeedsOwners(w)
      /\ Op(w)' = Op(w) /\ Kind(w)' = Kind(w)
  BY <1>1, LockingKeeps
<1>5. Holds(w)' /\ Owns(w)'
  BY <1>2, <1>3, <1>4 DEF Guarded, Holds, Owns
<1>6. Loaded(w)'
  <2>1. Loaded(w)
    BY DEF Guarded
  <2> QED BY <1>2, <1>4, <2>1 DEF Loaded
<1>7. RoleKept(w)'
  <2>1. Deciding(w)' => Deciding(w)
    BY <1>2, <1>4 DEF Deciding
  <2>2. ASSUME Deciding(w), Who(w) \in Locked(w) PROVE seen[w][Who(w)].role = acct[Who(w)].role
    BY <2>2 DEF Guarded, RoleKept
  <2>3. Missing(w)' = Missing(w)
    BY <1>2, <1>3, <1>4 DEF Missing, Parties
  <2>4. ASSUME NextAccount(w, Who(w))' PROVE acct[Who(w)].role = stale'[w]
    <3>1. Who(w) \in Missing(w) /\ \A q \in Missing(w) : Who(w) <= q
      BY <1>4, <2>3, <2>4 DEF NextAccount
    <3>2. s \in Missing(w) /\ \A q \in Missing(w) : s <= q
      BY <1>2 DEF NextAccount
    <3>3. Missing(w) \subseteq Nat
      BY StaffAssumption DEF Missing, Parties
    <3>4. s <= Who(w) /\ Who(w) <= s /\ s \in Nat /\ Who(w) \in Nat
      BY <3>1, <3>2, <3>3
    <3>5. s = Who(w)
      BY <3>4, NoneBetween
    <3> QED BY <1>2, <3>5
  <2> QED BY <1>2, <1>3, <1>4, <2>1, <2>2, <2>4 DEF RoleKept
<1> QED BY <1>1, <1>3, <1>4, <1>5, <1>6, <1>7, LockingKeeps DEF Proper

(* The lock is had: what is read is the account, but for the role of a      *)
(* statement that waited; nobody else has it who may write or is written.   *)
LEMMA LockProper ==
  ASSUME StaffInv, Guarded, [StaffNext]_allVars, NEW w \in Workers, NEW s \in Staff, LockAccount(w, s)
  PROVE  /\ Proper(w)' /\ Target(w)' = Target(w) /\ Locked(w)' = Locked(w) \cup {s}
         /\ \A v \in Workers \ {w} : s \in Locked(v) => s # Target(v) /\ s # Target(w)
<1> USE DEF StaffInv, StaffTypeOK
<1> DEFINE a == IF stale[w] = NoOne THEN acct[s] ELSE [acct[s] EXCEPT !.role = stale[w]]
<1>1. Locking(w)
  BY DEF Locking
<1>2. tx[w].stage = "accounts" /\ NextAccount(w, s) /\ UNCHANGED <<vars, acct, payload, left, tx, owners, change>>
      /\ Blockers(w, s) = {} /\ stale'[w] = NoOne
  BY DEF LockAccount
<1>3. seen'[w] = [seen[w] EXCEPT ![s] = a]
  BY DEF LockAccount
<1>4. acct[s] \in Account /\ a \in Account
  BY DEF Account
<1>5. a.status = acct[s].status /\ a.ver = acct[s].ver /\ a.sess = acct[s].sess
      /\ a.role = (IF stale[w] = NoOne THEN acct[s].role ELSE stale[w])
  BY <1>4 DEF Account
<1>6. seen'[w][s] = a /\ (\A q \in Staff \ {s} : seen'[w][q] = seen[w][q]) /\ a # NoOne
  BY <1>3, <1>4, StaffAssumption
<1> HIDE DEF a
<1>7. Locked(w)' = Locked(w) \cup {s}
  BY <1>6 DEF Locked
<1>8. \A v \in Workers \ {w} : s \in Locked(v) => s # Target(v) /\ s # Target(w)
  BY <1>2 DEF Blockers
<1>9. Who(w)' = Who(w) /\ Target(w)' = Target(w) /\ Initiator(w)' = Initiator(w) /\ NeedsOwners(w)' = NeedsOwners(w)
      /\ Op(w)' = Op(w) /\ Kind(w)' = Kind(w)
  BY <1>1, LockingKeeps
<1>10. s \in {Who(w), Initiator(w), Target(w)}
  BY <1>2 DEF NextAccount, Missing, Parties
<1>11. Holds(w)'
  <2> SUFFICES ASSUME NEW q \in Locked(w)'
               PROVE  /\ tx'[w].stage \in {"accounts", "done"} /\ q \in {Who(w)', Initiator(w)', Target(w)'}
                      /\ seen'[w][q].status = acct'[q].status /\ seen'[w][q].ver = acct'[q].ver
                      /\ seen'[w][q].sess = acct'[q].sess
    BY DEF Holds
  <2>1. CASE q = s
    BY <1>2, <1>5, <1>6, <1>9, <1>10, <2>1
  <2>2. CASE q # s
    <3>1. q \in Locked(w) /\ seen'[w][q] = seen[w][q]
      BY <1>6, <1>7, <2>2 DEF Locked
    <3> QED BY <1>2, <1>9, <3>1 DEF Guarded, Holds
  <2> QED BY <2>1, <2>2
<1>12. Owns(w)'
  BY <1>2, <1>9 DEF Guarded, Owns
<1>13. Loaded(w)'
  <2>1. Loaded(w)
    BY DEF Guarded
  <2> QED BY <1>2, <1>9, <2>1 DEF Loaded
<1>14. RoleKept(w)'
  <2> SUFFICES ASSUME Deciding(w)', Who(w)' \in Locked(w)'
               PROVE  seen'[w][Who(w)'].role = acct'[Who(w)'].role
    BY <1>2 DEF RoleKept
  <2>1. Deciding(w)
    BY <1>2, <1>9 DEF Deciding
  <2>2. CASE Who(w) = s
    <3>1. stale[w] # NoOne => acct[s].role = stale[w]
      BY <1>2, <2>1, <2>2 DEF Guarded, RoleKept
    <3> QED BY <1>2, <1>5, <1>6, <1>9, <2>2, <3>1
  <2>3. CASE Who(w) # s
    <3>1. Who(w) \in Locked(w) /\ seen'[w][Who(w)] = seen[w][Who(w)]
      BY <1>6, <1>7, <1>9, <2>3 DEF Locked
    <3> QED BY <1>2, <1>9, <2>1, <3>1 DEF Guarded, RoleKept
  <2> QED BY <2>2, <2>3
<1> QED BY <1>1, <1>7, <1>8, <1>9, <1>11, <1>12, <1>13, <1>14, LockingKeeps DEF Proper

(* What follows an account: the next version, with its sessions closed, or  *)
(* with its role changed only.                                              *)
LEMMA NextVersions ==
  ASSUME StaffTypeOK, NEW s \in Staff, NEW to \in Roles \cup {NoOne}
  PROVE  /\ Disabled(acct[s]).ver = acct[s].ver + 1 /\ Disabled(acct[s]).sess > acct[s].sess
         /\ Reset(acct[s]).ver = acct[s].ver + 1 /\ Reset(acct[s]).sess > acct[s].sess
         /\ [Reset(acct[s]) EXCEPT !.role = to].ver = acct[s].ver + 1
         /\ [Reset(acct[s]) EXCEPT !.role = to].sess > acct[s].sess
         /\ WithRole(acct[s], to).ver = acct[s].ver + 1 /\ WithRole(acct[s], to).sess = acct[s].sess
<1>1. acct[s] \in Account
  BY DEF StaffTypeOK
<1>2. acct[s].ver \in Nat /\ acct[s].sess \in Nat /\ acct[s].sess + 1 > acct[s].sess
  BY <1>1 DEF Account
<1>3. Disabled(acct[s]).ver = acct[s].ver + 1 /\ Disabled(acct[s]).sess = acct[s].sess + 1
  BY <1>1 DEF Disabled, Account
<1>4. Reset(acct[s]).ver = acct[s].ver + 1 /\ Reset(acct[s]).sess = acct[s].sess + 1
  BY <1>1 DEF Reset, Account
<1>5. Reset(acct[s]) \in Account
  BY WrittenType
<1>6. [Reset(acct[s]) EXCEPT !.role = to].ver = Reset(acct[s]).ver
      /\ [Reset(acct[s]) EXCEPT !.role = to].sess = Reset(acct[s]).sess
  BY <1>5 DEF Account
<1>7. WithRole(acct[s], to).ver = acct[s].ver + 1 /\ WithRole(acct[s], to).sess = acct[s].sess
  BY <1>1 DEF WithRole, Account
<1> QED BY <1>2, <1>3, <1>4, <1>6, <1>7

(* Disabling at once, by an employee or by the operator.                    *)
LEMMA DirectProper ==
  ASSUME StaffInv, Guarded, [StaffNext]_allVars, NEW w \in Workers, ActDirectly(w)
  PROVE  Proper(w)' /\ Locked(w)' = Locked(w) /\ Target(w)' = Target(w)
<1> USE DEF StaffInv, StaffTypeOK
<1> DEFINE t == Target(w)
           a == IF Op(w) = "opreset" THEN Reset(acct[t]) ELSE Disabled(acct[t])
<1>1. /\ tx[w].stage = "accounts" /\ call[w].pc = "idle" /\ Op(w) \in {"disable"} \cup OpCalls
      /\ UNCHANGED <<acct, payload, left, seen, stale, owners>> /\ At(w, "done") /\ CancelByInitiator(w, t)
      /\ change' = [change EXCEPT ![w][t] = a]
  BY DEF ActDirectly, Ready, Write
<1>2. t \in Staff /\ seen[w][t] # NoOne
  BY <1>1, Working DEF ActDirectly, Direct, Target, OpCalls, Ops, Seen
<1>3. tx'[w].stage = "done" /\ tx'[w].c = tx[w].c
  BY <1>1, AtStage DEF Stages
<1>4. tx'[w].sess = tx[w].sess
  <2>1. tx[w] \in Tx /\ tx'[w] = [tx[w] EXCEPT !.stage = "done"]
    BY <1>1 DEF At
  <2> QED BY <2>1 DEF Tx
<1>5. Op(w)' = Op(w) /\ Who(w)' = Who(w) /\ Target(w)' = t /\ Initiator(w)' = Initiator(w)
      /\ NeedsOwners(w)' = NeedsOwners(w)
  BY <1>1, <1>3, PartiesStay DEF Guarded
<1>6. Locked(w)' = Locked(w) /\ t \in Locked(w)
  BY <1>1, <1>2 DEF Locked
<1>7. Holds(w)'
  BY <1>1, <1>3, <1>5, <1>6 DEF Guarded, Holds
<1>8. Owns(w)'
  BY <1>1, <1>3, <1>5, <1>6 DEF Guarded, Owns
<1>9. Writes(w)'
  <2>1. \A s \in Staff : change[w][s] = NoOne
    BY <1>1 DEF Guarded, Writes
  <2>2. \A s \in Staff \ {t} : change'[w][s] = NoOne
    BY <1>1, <1>2, <2>1
  <2>3. change'[w][t] = a
    BY <1>1, <1>2
  <2>4. a.ver = acct[t].ver + 1 /\ a.sess > acct[t].sess
    BY <1>2, NextVersions
  <2> HIDE DEF a
  <2>5. ASSUME NEW q \in Staff, q = t PROVE Following(w, q)'
    BY <1>1, <2>3, <2>4, <2>5 DEF Following
  <2> QED BY <1>3, <1>5, <1>6, <2>2, <2>5 DEF Writes
<1>10. Loaded(w)'
  <2>1. Loaded(w)
    BY DEF Guarded
  <2> QED BY <1>1, <1>3, <1>4, <1>5, <2>1 DEF Loaded
<1>11. RoleKept(w)'
  BY <1>1, <1>5 DEF RoleKept, Deciding, OpCalls
<1>12. call'[w].pc = "commit"
  BY <1>1 DEF CancelByInitiator, Step, Inv, TypeOK
<1>13. \A r \in Requests : staged'[w][r] # NoOne => staged'[w][r].status = "cancelled"
  BY <1>1 DEF CancelByInitiator, Verdict, Inv, TypeOK, Guarded, Solitary, Bare
<1>14. Allowed(w)' /\ Checked(w)' /\ Works(w)'
  BY <1>12, <1>13 DEF Allowed, Checked, Works
<1> QED BY <1>5, <1>6, <1>7, <1>8, <1>9, <1>10, <1>11, <1>14 DEF Proper

(* The executor refuses: back to the savepoint.                             *)
LEMMA RefusalProper ==
  ASSUME StaffInv, Guarded, [StaffNext]_allVars, NEW w \in Workers, ExecRefusal(w)
  PROVE  Proper(w)' /\ Locked(w)' = {}
<1> USE DEF StaffInv, StaffTypeOK
<1>1. /\ tx[w].stage = "accounts" /\ call[w].pc = "exec" /\ At(w, "done") /\ seen'[w] = None
      /\ UNCHANGED <<acct, payload, left, stale, change>> /\ call'[w].pc = "commit" /\ call[w].req \in Requests
      /\ staged'[w] = [Nothing EXCEPT ![call[w].req] = Verdict("failed", call[w].who)]
  BY DEF ExecRefusal, Ready, ExecRefused, Step, Inv, TypeOK, Rest, Judging
<1>2. Locked(w)' = {}
  BY <1>1 DEF Locked, None
<1>3. tx'[w].stage = "done" /\ tx'[w].c = tx[w].c
  BY <1>1, AtStage DEF Stages
<1>4. tx'[w].sess = tx[w].sess
  <2>1. tx[w] \in Tx /\ tx'[w] = [tx[w] EXCEPT !.stage = "done"]
    BY <1>1 DEF At
  <2> QED BY <2>1 DEF Tx
<1>5. \A s \in Staff : change'[w][s] = NoOne
  BY <1>1 DEF Guarded, Writes
<1>6. Holds(w)' /\ Owns(w)' /\ Writes(w)'
  BY <1>2, <1>3, <1>5 DEF Holds, Owns, Writes
<1>7. Loaded(w)'
  <2>1. Loaded(w)
    BY DEF Guarded
  <2>2. Who(w)' = Who(w)
    BY <1>3 DEF Who
  <2> QED BY <1>1, <1>3, <1>4, <2>1, <2>2 DEF Loaded
<1>8. RoleKept(w)'
  BY <1>2, <1>3 DEF RoleKept
<1>9. \A r \in Requests : staged'[w][r] # NoOne => staged'[w][r].status = "failed"
  BY <1>1 DEF Nothing, Verdict
<1>10. Allowed(w)' /\ Checked(w)' /\ Works(w)'
  BY <1>1, <1>5, <1>9 DEF Allowed, Checked, Works
<1> QED BY <1>2, <1>6, <1>7, <1>8, <1>10 DEF Proper

(* The executor does its work under the locks: what it checked holds of the *)
(* accounts as they are.                                                    *)
LEMMA WorkProper ==
  ASSUME StaffInv, Guarded, [StaffNext]_allVars, NEW w \in Workers, ExecWork(w)
  PROVE  Proper(w)' /\ Locked(w)' = Locked(w) /\ Target(w)' = Target(w)
<1> USE DEF StaffInv, StaffTypeOK
<1> DEFINE r == Req(w)
           p == payload[r]
           t == p.target
           fresh == p.kind = "invite" /\ p.ver = 0
<1>1. /\ tx[w].stage = "accounts" /\ Missing(w) = {} /\ call[w].pc = "exec" /\ ActorOk(w) /\ Executable(w)
      /\ UNCHANGED <<acct, payload, left, seen, stale, owners>> /\ At(w, "done")
      /\ change' = [change EXCEPT ![w][t] = Executed(p)]
      /\ fresh => \A v \in Workers : change[v][t] = NoOne
      /\ UNCHANGED vars \/ CancelByInitiator(w, t)
  BY DEF ExecWork, Ready, Write
<1>2. /\ Op(w) = "approve" /\ call[w].may /\ call[w].who = Who(w) /\ r \in Requests /\ p \in Payload /\ t \in Staff
      /\ Permits(tx[w].role, p.elevated)
  BY <1>1, Executing DEF Guarded, Allowed, Tied, Op
<1>3. /\ Who(w) \in Staff /\ Created(Who(w)) /\ Initiator(w) \in Staff /\ Created(Initiator(w)) /\ Who(w) # System
      /\ Initiator(w) = reqs[r].by /\ reqs[r].status # "absent"
  BY <1>1, <1>2, Persons, ApprovalsAssumption DEF Ops
<1>4. Kind(w) = p.kind /\ Target(w) = (IF fresh THEN NoOne ELSE t)
  <2>1. p.kind \in Asks
    BY <1>2 DEF Payload
  <2> QED BY <1>2, <2>1 DEF Kind, Target, OpCalls
<1>5. tx'[w].stage = "done" /\ tx'[w].c = tx[w].c
  BY <1>1, AtStage DEF Stages
<1>6. tx'[w].sess = tx[w].sess
  <2>1. tx[w] \in Tx /\ tx'[w] = [tx[w] EXCEPT !.stage = "done"]
    BY <1>1 DEF At
  <2> QED BY <2>1 DEF Tx
<1>7. Op(w)' = Op(w) /\ Who(w)' = Who(w) /\ Req(w)' = r /\ Target(w)' = Target(w) /\ Initiator(w)' = Initiator(w)
      /\ NeedsOwners(w)' = NeedsOwners(w) /\ Kind(w)' = Kind(w)
  BY <1>1, <1>5, PartiesStay DEF Guarded
<1>8. Locked(w)' = Locked(w)
  BY <1>1 DEF Locked
<1>9. Who(w) \in Locked(w) /\ Initiator(w) \in Locked(w)
  BY <1>1, <1>3 DEF Missing, Parties, Created
<1>10. ~fresh => t \in Locked(w)
  <2>1. ~fresh => Created(t)
    BY <1>2, <1>3 DEF Present
  <2> QED BY <1>1, <1>2, <1>4, <2>1 DEF Missing, Parties, Created
<1>11. fresh => acct[t].status = "absent" /\ acct[t].ver = 0
  BY <1>1, <1>2 DEF Executable, Present, Created
<1>12. \A s \in Staff : change[w][s] = NoOne
  BY <1>1 DEF Guarded, Writes
<1>13. change'[w][t] = Executed(p) /\ (\A s \in Staff \ {t} : change'[w][s] = NoOne)
       /\ (\A v \in Workers \ {w} : change'[v] = change[v])
  BY <1>1, <1>2, <1>12
<1>14. Executed(p) # NoOne
  BY <1>2, ExecutedType, StaffAssumption
<1>15. NeedsOwners(w) => owners = w
  BY <1>1 DEF Guarded, Owns
<1>16. Holds(w)' /\ Owns(w)'
  BY <1>1, <1>5, <1>7, <1>8, <1>15 DEF Guarded, Holds, Owns
<1>17. /\ Executed(p).ver = acct[t].ver + 1
       /\ fresh \/ Executed(p).sess > acct[t].sess \/ (Executed(p).sess = acct[t].sess /\ owners = w)
  <2>1. p.to \in Roles \cup {NoOne} /\ p.kind \in Asks
    BY <1>2 DEF Payload
  <2>2. /\ Disabled(acct[t]).ver = acct[t].ver + 1 /\ Disabled(acct[t]).sess > acct[t].sess
        /\ Reset(acct[t]).ver = acct[t].ver + 1 /\ Reset(acct[t]).sess > acct[t].sess
        /\ [Reset(acct[t]) EXCEPT !.role = p.to].ver = acct[t].ver + 1
        /\ [Reset(acct[t]) EXCEPT !.role = p.to].sess > acct[t].sess
        /\ WithRole(acct[t], p.to).ver = acct[t].ver + 1 /\ WithRole(acct[t], p.to).sess = acct[t].sess
    BY <1>2, <2>1, NextVersions
  <2>3. CASE fresh
    BY <1>11, <2>3 DEF Executed, Invited
  <2>4. CASE p.kind = "invite" /\ p.ver # 0
    BY <2>2, <2>4 DEF Executed
  <2>5. CASE p.kind = "role"
    <3>1. owners = w
      BY <1>4, <1>15, <2>5 DEF NeedsOwners
    <3>2. Executed(p) = WithRole(acct[t], p.to)
      BY <2>5 DEF Executed
    <3> QED BY <2>2, <3>1, <3>2
  <2>6. CASE p.kind = "reset"
    BY <2>2, <2>6 DEF Executed
  <2>7. CASE p.kind = "disable"
    BY <2>2, <2>7 DEF Executed
  <2> QED BY <2>1, <2>3, <2>4, <2>5, <2>6, <2>7 DEF Asks
<1>18. Writes(w)'
  <2> SUFFICES ASSUME NEW s \in Staff, change'[w][s] # NoOne
               PROVE  /\ tx'[w].stage = "done" /\ Following(w, s)'
                      /\ (s = Target(w)' /\ s \in Locked(w)') \/ Fresh(w, s)'
    BY DEF Writes
  <2>1. s = t
    BY <1>13
  <2>2. Following(w, s)'
    BY <1>1, <1>11, <1>13, <1>17, <2>1 DEF Following
  <2>3. CASE fresh
    BY <1>1, <1>5, <1>11, <1>13, <2>1, <2>2, <2>3 DEF Fresh
  <2>4. CASE ~fresh
    BY <1>4, <1>5, <1>7, <1>8, <1>10, <2>1, <2>2, <2>4
  <2> QED BY <2>3, <2>4
<1>19. Loaded(w)'
  <2>1. Loaded(w)
    BY DEF Guarded
  <2> QED BY <1>1, <1>5, <1>6, <1>7, <2>1 DEF Loaded
<1>20. RoleKept(w)'
  <2>1. Deciding(w)' => Deciding(w)
    BY <1>1, <1>6, <1>7 DEF Deciding
  <2> QED BY <1>1, <1>5, <1>7, <1>8, <2>1 DEF Guarded, RoleKept
<1>21. call[w] \in Call /\ (call'[w] = call[w] \/ call'[w] = [call[w] EXCEPT !.pc = "exec"])
  BY <1>1 DEF CancelByInitiator, Step, vars, Inv, TypeOK
<1>22. call'[w].pc = "exec" /\ call'[w].op = call[w].op /\ call'[w].who = call[w].who /\ call'[w].may = call[w].may
  BY <1>1, <1>21 DEF Call
<1>23. call[w].op = "approve" /\ call'[w].may
  BY <1>1, <1>2, <1>22 DEF Guarded, Allowed
<1>24. Allowed(w)'
  <2>1. tx'[w].role = tx[w].role
    <3>1. tx[w] \in Tx /\ tx'[w] = [tx[w] EXCEPT !.stage = "done"]
      BY <1>1 DEF At
    <3> QED BY <3>1 DEF Tx
  <2> QED BY <1>1, <1>2, <1>7, <1>22, <1>23, <2>1 DEF Allowed
<1>25. Checked(w)'
  BY <1>1, <1>7 DEF Guarded, Checked
<1>26. Worked(w)'
  <2>1. acct[Initiator(w)].status = "active" /\ acct[Initiator(w)].ver = p.initVer
    <3>1. InitiatorValid(seen[w][Initiator(w)], p)
      BY <1>1 DEF Executable
    <3> QED BY <1>9, <3>1 DEF InitiatorValid, Guarded, Holds
  <2>2. Permits(acct[Initiator(w)].role, p.elevated)
    BY <1>1, <2>1 DEF Guarded, Checked
  <2>3. InitiatorValid(acct[Initiator(w)], p)
    BY <2>1, <2>2 DEF InitiatorValid
  <2>4. acct[t].ver = p.ver
    <3>1. CASE fresh
      BY <1>11, <3>1
    <3>2. CASE ~fresh
      <4>1. t \in Locked(w) /\ Target(w) = t /\ t # NoOne /\ seen[w][t] # NoOne
        BY <1>2, <1>4, <1>10, <3>2, ApprovalsAssumption DEF Locked
      <4>2. seen[w][t].ver = p.ver
        BY <1>1, <4>1 DEF Executable
      <4> QED BY <4>1, <4>2 DEF Guarded, Holds
    <3> QED BY <3>1, <3>2
  <2>5. p.kind # "invite" => acct[Who(w)].status = "active" /\ Permits(acct[Who(w)].role, p.elevated)
    <3> SUFFICES ASSUME p.kind # "invite"
                 PROVE  acct[Who(w)].status = "active" /\ Permits(acct[Who(w)].role, p.elevated)
      OBVIOUS
    <3>1. seen[w][Who(w)].status = "active" /\ seen[w][Who(w)].role = tx[w].role /\ acct[Who(w)].sess = tx[w].sess
      BY <1>1, <1>3 DEF ActorOk, SessionStands
    <3>2. Deciding(w)
      BY <1>1, <1>2, <1>4, <3>1 DEF Deciding
    <3>3. acct[Who(w)].role = tx[w].role
      BY <1>9, <3>1, <3>2 DEF Guarded, RoleKept
    <3>4. acct[Who(w)].status = "active"
      BY <1>9, <3>1 DEF Guarded, Holds
    <3> QED BY <1>2, <3>3, <3>4
  <2>a. p.kind = "invite" => acct[t].status # "active"
    <3>1. CASE fresh
      BY <1>11, <3>1
    <3>2. CASE p.kind = "invite" /\ ~fresh
      <4>1. t \in Locked(w) /\ Target(w) = t /\ t # NoOne
        BY <1>2, <1>4, <1>10, <3>2, ApprovalsAssumption
      <4>2. seen[w][t].status = "disabled"
        BY <1>1, <3>2, <4>1 DEF Executable
      <4> QED BY <4>1, <4>2 DEF Guarded, Holds
    <3> QED BY <3>1, <3>2
  <2>6. Executed(payload[Req(w)])' = Executed(p)
    BY <1>1, <1>7 DEF Executed, Invited, Reset, WithRole, Disabled
  <2>7. payload'[Req(w)'] = p /\ acct' = acct
    BY <1>1, <1>7
  <2> HIDE DEF p, r
  <2> QED BY <1>2, <1>5, <1>7, <1>8, <1>9, <1>13, <2>3, <2>4, <2>5, <2>a, <2>6, <2>7 DEF Worked
<1>27. \A q \in Requests : staged'[w][q] # NoOne =>
          staged'[w][q].status = "cancelled" \/ (staged'[w][q] = staged[w][q] /\ staged[w][q] # NoOne)
  BY <1>1 DEF CancelByInitiator, Verdict, vars, Inv, TypeOK
<1>28. \A q \in Requests : staged[w][q] # NoOne => staged[w][q].status \notin {"executed", "failed"}
  <2>1. ~Worked(w)
    BY <1>1 DEF Worked
  <2> QED BY <1>1, <2>1 DEF Guarded, Works, Solitary, Lone
<1>29. Works(w)'
  BY <1>26, <1>27, <1>28 DEF Works
<1> QED BY <1>7, <1>8, <1>16, <1>18, <1>19, <1>20, <1>24, <1>25, <1>29 DEF Proper

----------------------------------------------------------------------------
(* All of it together.                                                      *)
LEMMA OwnProper ==
  ASSUME StaffInv, Guarded, [StaffNext]_allVars, NEW w \in Workers, Own(w)
  PROVE  /\ Proper(w)'
         /\ \/ Locked(w)' = {}
            \/ Target(w)' = Target(w) /\ Locked(w)' = Locked(w)
            \/ \E s \in Staff :
                 /\ Target(w)' = Target(w) /\ Locked(w)' = Locked(w) \cup {s}
                 /\ \A v \in Workers \ {w} : s \in Locked(v) => s # Target(v) /\ s # Target(w)
<1>1. ASSUME NEW c \in left, Load(w, c) PROVE Proper(w)' /\ Locked(w)' = {}
  BY <1>1, LoadProper
<1>2. CASE Locking(w)
  <2>1. CASE TakeOwners(w)
    BY <2>1, OwnersProper
  <2>2. ASSUME NEW s \in Staff, WaitAccount(w, s) PROVE Proper(w)' /\ Locked(w)' = Locked(w) /\ Target(w)' = Target(w)
    BY <2>2, WaitProper
  <2>3. ASSUME NEW s \in Staff, LockAccount(w, s)
        PROVE  /\ Proper(w)' /\ Target(w)' = Target(w) /\ Locked(w)' = Locked(w) \cup {s}
               /\ \A v \in Workers \ {w} : s \in Locked(v) => s # Target(v) /\ s # Target(w)
    BY <2>3, LockProper
  <2> QED BY <1>2, <2>1, <2>2, <2>3 DEF Locking
<1>3. CASE LockRequest(w) \/ LapseCall(w) \/ AcceptCall(w) \/ ExecDone(w) \/ Sweep(w)
  BY <1>3, ServiceProper
<1>4. CASE CheckCall(w)
  BY <1>4, CheckProper
<1>5. CASE ExecWork(w)
  BY <1>5, WorkProper
<1>6. CASE ExecRefusal(w)
  BY <1>6, RefusalProper
<1>7. CASE ActDirectly(w)
  BY <1>7, DirectProper
<1>8. CASE RefuseCall(w) \/ ExecError(w) \/ Abort(w) \/ CommitCall(w) \/ Ask(w) \/ RevokeSessions(w) \/ Decline(w)
  BY <1>8, Ends
<1> QED BY <1>1, <1>2, <1>3, <1>4, <1>5, <1>6, <1>7, <1>8 DEF Own, WorkerStep, Approving, Asking

LEMMA OwnApart ==
  ASSUME StaffInv, Guarded, [StaffNext]_allVars, NEW w \in Workers, Own(w), NEW v \in Workers \ {w}
  PROVE  Apart(v, w)' /\ Apart(w, v)'
<1>1. Else(v)
  BY Elsewhere
<1>2. Locked(v)' = Locked(v) /\ (Locked(v) # {} => Target(v)' = Target(v))
  <2>1. tx'[v] = tx[v] /\ seen'[v] = seen[v]
    BY <1>1 DEF Else, Aside
  <2>2. Locked(v) # {} => tx[v].stage # "free"
    BY Busy DEF Locked
  <2> QED BY <2>1, <2>2, PartiesStay DEF Guarded, Locked
<1>3. Apart(v, w)
  BY DEF Guarded
<1>4. CASE Locked(w)' = {}
  BY <1>4 DEF Apart
<1>5. CASE Target(w)' = Target(w) /\ Locked(w)' = Locked(w)
  BY <1>2, <1>3, <1>5 DEF Apart
<1>6. ASSUME NEW s \in Staff, Target(w)' = Target(w), Locked(w)' = Locked(w) \cup {s},
             s \in Locked(v) => s # Target(v) /\ s # Target(w)
      PROVE  Apart(v, w)' /\ Apart(w, v)'
  BY <1>2, <1>3, <1>6 DEF Apart
<1> QED BY <1>4, <1>5, <1>6, OwnProper

(* A call stays until its transaction ends, and begins by being loaded.     *)
LEMMA CallStays ==
  ASSUME StaffInv, [StaffNext]_allVars, NEW w \in Workers, tx'[w].stage # "free"
  PROVE  (tx[w].stage # "free" /\ tx'[w].c = tx[w].c) \/ \E c \in left : Load(w, c)
<1> USE DEF StaffInv, StaffTypeOK
<1>1. ASSUME NEW u \in Workers, Own(u) PROVE u # w => tx'[w] = tx[w]
  BY <1>1, Elsewhere DEF Else, Aside
<1>2. CASE tx'[w] = tx[w]
  BY <1>2
<1>3. CASE Own(w)
  <2>1. CASE Release(w)
    BY <2>1 DEF Release, Free
  <2>2. ASSUME NEW stage \in Stages, At(w, stage), tx[w].stage # "free" PROVE tx'[w].c = tx[w].c
    BY <2>2, AtStage
  <2>3. CASE TakeOwners(w) \/ ExecWork(w) \/ ExecRefusal(w) \/ ActDirectly(w)
    <3>1. tx[w].stage # "free" /\ (At(w, "accounts") \/ At(w, "done"))
      BY <2>3 DEF TakeOwners, ExecWork, ExecRefusal, ActDirectly, Ready
    <3> QED BY <2>2, <3>1 DEF Stages
  <2>4. CASE CheckCall(w)
    <3>1. tx[w].stage # "free" /\ (tx' = tx \/ At(w, Begin(w))) /\ Begin(w) \in Stages
      BY <2>4 DEF CheckCall, CheckInitiator, Tied, Begin, Stages
    <3> QED BY <2>2, <3>1
  <2>5. \/ Release(w) \/ (\E c \in left : Load(w, c)) \/ tx' = tx
        \/ TakeOwners(w) \/ ExecWork(w) \/ ExecRefusal(w) \/ ActDirectly(w) \/ CheckCall(w)
    BY <1>3 DEF Own, WorkerStep, Locking, WaitAccount, LockAccount, Approving, Asking, LockRequest, RefuseCall,
                LapseCall, AcceptCall, ExecDone, ExecError, CommitCall, Ask, Sweep, Abort, RevokeSessions, Decline, staffVars
  <2> QED BY <2>1, <2>3, <2>4, <2>5
<1> QED BY <1>1, <1>2, <1>3, SomeoneSteps DEF Else, Aside

(* Rows of requests change by being asked for and by commits only.          *)
LEMMA RowSteps ==
  ASSUME StaffInv, [StaffNext]_allVars
  PROVE  reqs' = reqs \/ \E w \in Workers : CommitCall(w) \/ Ask(w)
<1>1. ASSUME NEW w \in Workers, (\E c \in left : Load(w, c)) \/ Locking(w) \/ RevokeSessions(w) \/ Decline(w)
      PROVE  reqs' = reqs
  BY <1>1 DEF Load, Locking, TakeOwners, WaitAccount, LockAccount, RevokeSessions, Decline, vars
<1>2. ASSUME NEW w \in Workers,
             LockRequest(w) \/ RefuseCall(w) \/ LapseCall(w) \/ AcceptCall(w) \/ CheckCall(w) \/ ExecDone(w) \/ Sweep(w)
      PROVE  reqs' = reqs
  BY <1>2 DEF LockRequest, LockApproval, RefuseCall, Refuse, LapseCall, Overdue, AcceptCall, Accept, CheckCall,
              CheckInitiator, ExecDone, Exec, Sweep, ExpireDue
<1>3. ASSUME NEW w \in Workers, ExecWork(w) \/ ActDirectly(w) \/ ExecRefusal(w)
      PROVE  reqs' = reqs
  BY <1>3 DEF ExecWork, ActDirectly, ExecRefusal, CancelByInitiator, ExecRefused, vars
<1>4. ASSUME NEW w \in Workers, ExecError(w) \/ Abort(w)
      PROVE  reqs' = reqs
  BY <1>4 DEF ExecError, Abort, Rollback, vars
<1>5. ASSUME (\E s \in Staff : Activate(s) \/ LockOut(s)) \/ Tick \/ UNCHANGED allVars
      PROVE  reqs' = reqs
  BY <1>5 DEF Activate, LockOut, Tick, vars, allVars
<1> QED BY <1>1, <1>2, <1>3, <1>4, <1>5 DEF StaffNext, WorkerStep, Approving, Asking

LEMMA NamedStep ==
  ASSUME StaffInv, Guarded, [StaffNext]_allVars
  PROVE  Named'
<1> USE DEF StaffInv, Inv, TypeOK, StaffTypeOK
<1>1. ASSUME NEW r \in Requests, reqs'[r].status # "absent"
      PROVE  reqs'[r].by \in Staff /\ acct'[reqs'[r].by].status # "absent"
  <2>1. CASE reqs[r].status # "absent"
    BY <2>1, RequestStays, Growing DEF Guarded, Named
  <2>2. CASE reqs[r].status = "absent"
    <3>1. ASSUME NEW w \in Workers, CommitCall(w) PROVE FALSE
      BY <1>1, <2>2, <3>1 DEF CommitCall, Commit, Decided, Rest, OneDecider, Pending
    <3>2. PICK w \in Workers : Ask(w)
      BY <1>1, <2>2, <3>1, RowSteps
    <3>3. tx[w].stage # "free" /\ Op(w) \in Asks /\ Ready(w)
      BY <3>2 DEF Ask, Ready
    <3>4. Who(w) \in Staff /\ Created(Who(w))
      BY <3>3, Working, Persons, ApprovalsAssumption
    <3>5. reqs'[r].by = Who(w)
      BY <1>1, <2>2, <3>2 DEF Ask, Request, Who
    <3> QED BY <3>4, <3>5, Growing
  <2> QED BY <2>1, <2>2
<1>2. ASSUME NEW w \in Workers, tx'[w].stage # "free", tx'[w].c.op \in Ops
      PROVE  reqs'[tx'[w].c.req].status # "absent"
  <2>1. CASE tx[w].stage # "free" /\ tx'[w].c = tx[w].c
    <3>1. Req(w) \in Requests /\ reqs[Req(w)].status # "absent" /\ tx'[w].c.req = Req(w)
      BY <1>2, <2>1, Working DEF Guarded, Named, Op, Req
    <3> QED BY <3>1, RequestStays
  <2>2. ASSUME NEW c \in left, Load(w, c) PROVE reqs'[tx'[w].c.req].status # "absent"
    <3>1. tx'[w].c = c /\ reqs' = reqs
      BY <2>2 DEF Load, vars
    <3> QED BY <1>2, <2>2, <3>1 DEF Load, Exists
  <2> QED BY <1>2, <2>1, <2>2, CallStays
<1> QED BY <1>1, <1>2 DEF Named, Created, Op, Req

LEMMA GuardedStep ==
  ASSUME StaffInv, Guarded, [StaffNext]_allVars
  PROVE  Guarded'
<1>1. Named'
  BY NamedStep
<1>2. Solitary'
  BY ServiceStep, SolitaryStep DEF Guarded, StaffInv, Inv
<1>3. CASE \A w \in Workers : Else(w)
  <2>1. \A w \in Workers : Proper(w)'
    BY <1>3, ElseProper
  <2>2. \A w \in Workers : \A v \in Workers \ {w} : Apart(v, w)'
    BY <1>3, ElseApart DEF Else
  <2> QED BY <1>1, <1>2, <2>1, <2>2 DEF Guarded, Proper
<1>4. ASSUME NEW u \in Workers, Own(u) PROVE Guarded'
  <2>1. \A w \in Workers \ {u} : Else(w)
    BY <1>4, Elsewhere
  <2>2. \A w \in Workers : Proper(w)'
    BY <1>4, <2>1, ElseProper, OwnProper
  <2>3. \A w \in Workers : \A v \in Workers \ {w} : Apart(v, w)'
    <3> SUFFICES ASSUME NEW w \in Workers, NEW v \in Workers \ {w} PROVE Apart(v, w)'
      OBVIOUS
    <3>1. CASE u = w
      BY <1>4, <3>1, OwnApart
    <3>2. CASE u = v
      BY <1>4, <3>2, OwnApart
    <3>3. CASE u # w /\ u # v
      BY <2>1, <3>3, ElseApart DEF Else
    <3> QED BY <3>1, <3>2, <3>3
  <2> QED BY <1>1, <1>2, <2>2, <2>3 DEF Guarded, Proper
<1> QED BY <1>3, <1>4, SomeoneSteps

LEMMA GuardedInit == StaffInit => Guarded
<1> SUFFICES ASSUME StaffInit PROVE Guarded
  OBVIOUS
<1>1. /\ \A w \in Workers : tx[w].stage = "free" /\ stale[w] = NoOne /\ call[w].pc = "idle" /\ Locked(w) = {}
      /\ \A w \in Workers, s \in Staff : change[w][s] = NoOne
      /\ \A w \in Workers, r \in Requests : staged[w][r] = NoOne
      /\ \A r \in Requests : reqs[r].status = "absent"
  BY DEF StaffInit, Init, Free, None, Idle, Nothing, NoRow, Locked
<1>2. Named /\ Solitary
  BY <1>1 DEF Named, Solitary, Bare
<1>3. \A w \in Workers : Holds(w) /\ Owns(w) /\ Writes(w) /\ Loaded(w) /\ Allowed(w)
  BY <1>1 DEF Holds, Owns, Writes, Loaded, Allowed
<1>4. \A w \in Workers : Checked(w) /\ RoleKept(w) /\ Works(w) /\ \A v \in Workers \ {w} : Apart(v, w)
  BY <1>1 DEF Checked, RoleKept, Deciding, Works, Apart
<1> QED BY <1>2, <1>3, <1>4 DEF Guarded

LEMMA GuardedAlways == StaffSpec => [](StaffInv /\ Guarded)
<1>1. StaffInit => StaffInv /\ Guarded
  BY StaffInitInv, GuardedInit
<1>2. StaffInv /\ Guarded /\ [StaffNext]_allVars => (StaffInv /\ Guarded)'
  BY StaffInvStep, GuardedStep
<1> QED BY <1>1, <1>2, PTL DEF StaffSpec

(* An executor's verdict, success or refusal, is committed by its call.     *)
LEMMA Verdicts ==
  ASSUME StaffInv, Guarded, [StaffNext]_allVars, NEW r \in Requests, Pending(r),
         reqs'[r].status \in {"executed", "failed"}
  PROVE  \E w \in Workers :
           /\ CommitCall(w) /\ staged[w][r] # NoOne
           /\ reqs'[r].status = staged[w][r].status /\ reqs'[r].decider = staged[w][r].decider
<1> USE DEF StaffInv, Inv, TypeOK
<1>1. reqs[r] \in Row /\ reqs[r].status = "pending"
  BY DEF Pending
<1>2. ASSUME NEW w \in Workers, Ask(w) PROVE FALSE
  <2>1. reqs'[r] = reqs[r] \/ reqs'[r].status = "pending"
    BY <1>2 DEF Ask, Request
  <2> QED BY <1>1, <2>1
<1>3. PICK w \in Workers : CommitCall(w)
  BY <1>1, <1>2, RowSteps
<1>4. reqs'[r] = (IF staged[w][r] # NoOne THEN Apply(reqs[r], staged[w][r]) ELSE reqs[r])
  BY <1>3 DEF CommitCall, Commit, Decided
<1>5. staged[w][r] # NoOne
  BY <1>1, <1>4
<1>6. reqs'[r].status = staged[w][r].status /\ reqs'[r].decider = staged[w][r].decider
  BY <1>1, <1>4, <1>5 DEF Apply, Row
<1> QED BY <1>3, <1>5, <1>6

LEMMA ExecutedBy ==
  ASSUME StaffInv, Guarded, [StaffNext]_allVars, NEW r \in Requests, Executes(r)
  PROVE  \E w \in Workers :
           CommitCall(w) /\ Worked(w) /\ r = Req(w) /\ reqs'[r].decider = Who(w) /\ Initiator(w) = reqs[r].by
<1>1. PICK w \in Workers :
        /\ CommitCall(w) /\ staged[w][r] # NoOne
        /\ staged[w][r].status = "executed" /\ reqs'[r].decider = staged[w][r].decider
  BY Verdicts DEF Executes
<1>2. Worked(w) /\ r = Req(w) /\ staged[w][r].decider = Who(w)
  BY <1>1 DEF Guarded, Works
<1>3. Initiator(w) = reqs[r].by
  BY <1>2 DEF Worked, Initiator
<1> QED BY <1>1, <1>2, <1>3

(* A request is executed for what was asked: at the commit the initiator is *)
(* active, allowed and as they were when they asked, and so is the target.  *)
(* The locks of both last from the executor's checks to the commit, which   *)
(* no other transaction's writes can come between (execLocks, lockAccounts).*)
THEOREM ExecutedAsAskedAlways == StaffSpec => ExecutedAsAsked
<1>1. ASSUME StaffInv, Guarded, [StaffNext]_allVars, NEW r \in Requests, Executes(r)
      PROVE  /\ InitiatorValid(acct[reqs[r].by], payload[r])
             /\ acct[reqs[r].by].ver = payload[r].initVer
             /\ acct[payload[r].target].ver = payload[r].ver
  BY <1>1, ExecutedBy DEF Worked, InitiatorValid
<1>2. StaffInv /\ Guarded /\ [StaffNext]_allVars =>
        [\A r \in Requests : Executes(r) =>
           /\ InitiatorValid(acct[reqs[r].by], payload[r])
           /\ acct[reqs[r].by].ver = payload[r].initVer
           /\ acct[payload[r].target].ver = payload[r].ver]_allVars
  BY <1>1
<1> QED BY <1>2, GuardedAlways, PTL DEF StaffSpec, ExecutedAsAsked

(* The approver is active and holds the permission at the commit: the role  *)
(* read under FOR SHARE may be the one of a snapshot taken before a wait,   *)
(* but nobody changes a role meanwhile without the owners' lock or without  *)
(* closing the session (checkActor, lockOwners, ManageShareAccount).        *)
THEOREM ApproverHoldsPermissionAlways == StaffSpec => ApproverHoldsPermission
<1>1. ASSUME StaffInv, Guarded, [StaffNext]_allVars, NEW r \in Requests, Executes(r), payload[r].kind # "invite"
      PROVE  ApproverAllowed(r)
  BY <1>1, ExecutedBy DEF Worked, ApproverAllowed
<1>2. StaffInv /\ Guarded /\ [StaffNext]_allVars =>
        [\A r \in Requests : Executes(r) /\ payload[r].kind # "invite" => ApproverAllowed(r)]_allVars
  BY <1>1
<1> QED BY <1>2, GuardedAlways, PTL DEF StaffSpec, ApproverHoldsPermission

(* The verdict commits with its effect: executed with the change, failed    *)
(* with none (sp.Rollback in decide, the locks of the target till the end). *)
THEOREM EffectWithVerdictAlways == StaffSpec => EffectWithVerdict
<1>1. ASSUME StaffInv, Guarded, [StaffNext]_allVars, NEW r \in Requests, Executes(r)
      PROVE  acct'[payload[r].target] = Executed(payload[r])
  <2>1. PICK w \in Workers : CommitCall(w) /\ Worked(w) /\ r = Req(w)
    BY <1>1, ExecutedBy
  <2>2. payload[r] \in Payload /\ payload[r].target \in Staff
    BY <1>1 DEF StaffInv, Present, Executes, Pending, Payload
  <2>3. change[w][payload[r].target] = Executed(payload[r])
    BY <2>1 DEF Worked
  <2>4. Executed(payload[r]) # NoOne
    BY <1>1, <2>2, ExecutedType, StaffAssumption DEF StaffInv
  <2> QED BY <2>1, <2>2, <2>3, <2>4 DEF CommitCall
<1>2. ASSUME StaffInv, Guarded, [StaffNext]_allVars, NEW r \in Requests, Pending(r), reqs'[r].status = "failed"
      PROVE  acct' = acct
  <2>1. PICK w \in Workers : CommitCall(w) /\ staged[w][r] # NoOne /\ staged[w][r].status = "failed"
    BY <1>2, Verdicts
  <2>2. \A s \in Staff : change[w][s] = NoOne
    BY <1>2, <2>1 DEF Guarded, Works
  <2> QED BY <1>2, <2>1, <2>2 DEF CommitCall, StaffInv, StaffTypeOK
<1>3. StaffInv /\ Guarded /\ [StaffNext]_allVars =>
        [\A r \in Requests :
           /\ Executes(r) => acct'[payload[r].target] = Executed(payload[r])
           /\ Pending(r) /\ reqs'[r].status = "failed" => acct' = acct]_allVars
  BY <1>1, <1>2
<1> QED BY <1>3, GuardedAlways, PTL DEF StaffSpec, EffectWithVerdict
----------------------------------------------------------------------------
(* The guard of the last owner.  It counts under the owners' lock, which    *)
(* whoever takes an active owner away holds until the commit; the role the  *)
(* guard looks at may be an old one, but nobody becomes an owner meanwhile  *)
(* except by an invitation, and then the one who asked for it is an owner.  *)

(* Another owner is active.                                                 *)
Another(s) == ActiveOwners(acct) \ {s} # {}

(* What was asked: somebody else's account, the row's, under the permission *)
(* the role invited takes.                                                  *)
RowsAsked ==
  \A r \in Requests : reqs[r].status # "absent" =>
    /\ payload[r].target # reqs[r].by
    /\ payload[r].kind # "invite" => reqs[r].target = payload[r].target
    /\ payload[r].kind = "invite" => (payload[r].elevated <=> Elevated(payload[r].to))

(* Who takes an active owner away has the owners' lock and leaves another.  *)
Takes(w, s) ==
  /\ s \in ActiveOwners(acct) /\ change[w][s] # NoOne
  /\ ~(change[w][s].status = "active" /\ change[w][s].role = "owner")
Taking(w) == \A s \in Staff : Takes(w, s) => owners = w /\ Another(s)

(* Who makes an owner has the owners' lock or acts for an active owner.     *)
Owner(s) == Created(s) /\ acct[s].role = "owner"
Makes(w, s) == change[w][s] # NoOne /\ ~Owner(s) /\ change[w][s].role = "owner"
Patron(w, s) == Initiator(w) \in Locked(w) \cap (ActiveOwners(acct) \ {s}) /\ change[w][Initiator(w)] = NoOne
Making(w) == \A s \in Staff : Makes(w, s) => owners = w \/ Patron(w, s)

(* Who does not know that the target is an owner need not.                  *)
Unaware(w) ==
  /\ tx[w].stage = "accounts" /\ NeedsOwners(w) /\ Target(w) \in Staff /\ acct[Target(w)].role = "owner"
  /\ \/ Target(w) \in Locked(w) /\ seen[w][Target(w)].role # "owner"
     \/ stale[w] \notin {NoOne, "owner"} /\ NextAccount(w, Target(w))
Heirs(w) == Taking(w) /\ Making(w) /\ (Unaware(w) => Another(Target(w)))

NoResets == \A c \in Calls : c.op # "opreset"

Counted == RowsAsked /\ \A w \in Workers : Heirs(w)

----------------------------------------------------------------------------
(* An active owner stays one while somebody else has the owners' lock.      *)
LEMMA OwnerStays ==
  ASSUME StaffInv, Guarded, Counted, [StaffNext]_allVars, NEW s \in ActiveOwners(acct),
         \A v \in Workers : CommitCall(v) => owners # v
  PROVE  s \in ActiveOwners(acct')
<1>1. s \in Staff /\ acct[s].status = "active" /\ acct[s].role = "owner" /\ acct[s] \in Account
  BY DEF ActiveOwners, StaffInv, StaffTypeOK
<1>2. CASE acct'[s] = acct[s]
  BY <1>1, <1>2 DEF ActiveOwners
<1>3. ASSUME Outside(s) PROVE acct'[s].status = "active" /\ acct'[s].role = "owner"
  BY <1>1, <1>3 DEF Outside, Account
<1>4. ASSUME NEW v \in Workers, SessionsClosed(v, s) PROVE acct'[s].status = "active" /\ acct'[s].role = "owner"
  BY <1>1, <1>4 DEF SessionsClosed, Account
<1>5. ASSUME NEW v \in Workers, Committed(v, s) PROVE acct'[s].status = "active" /\ acct'[s].role = "owner"
  <2>1. ~Takes(v, s)
    BY <1>1, <1>5 DEF Committed, Counted, Heirs, Taking
  <2> QED BY <1>5, <2>1 DEF Takes, Committed
<1>6. acct'[s].status = "active" /\ acct'[s].role = "owner" => s \in ActiveOwners(acct')
  BY <1>1 DEF ActiveOwners
<1> QED BY <1>1, <1>2, <1>3, <1>4, <1>5, <1>6, AccountSteps

(* Whoever is aside with the owners' lock keeps the other owners.           *)
LEMMA AnotherStays ==
  ASSUME StaffInv, Guarded, Counted, [StaffNext]_allVars, NEW w \in Workers, Aside(w), tx[w].stage # "free",
         owners = w, NEW s, Another(s)
  PROVE  ActiveOwners(acct') \ {s} # {}
<1>1. \A v \in Workers : CommitCall(v) => owners # v
  <2>1. CommitCall(w) => tx'[w] = Free
    BY DEF CommitCall, Release, StaffInv, StaffTypeOK
  <2> QED BY <2>1 DEF Aside, Free
<1>2. PICK q \in ActiveOwners(acct) : q # s
  BY DEF Another
<1>3. q \in ActiveOwners(acct')
  BY <1>1, OwnerStays
<1> QED BY <1>2, <1>3

LEMMA ElseTaking ==
  ASSUME StaffInv, Guarded, Counted, [StaffNext]_allVars, NEW w \in Workers, Aside(w)
  PROVE  Taking(w)' /\ Making(w)'
<1>1. tx'[w] = tx[w] /\ change'[w] = change[w] /\ Locked(w)' = Locked(w) /\ (owners = w => owners' = w)
  BY DEF Aside, Locked
<1>2. ASSUME NEW s \in Staff, change[w][s] # NoOne
      PROVE  acct'[s] = acct[s] /\ tx[w].stage # "free" /\ Initiator(w)' = Initiator(w)
  BY <1>1, <1>2, AccountsKept, Busy, PartiesStay DEF Guarded
<1>3. ASSUME NEW s \in Staff, Takes(w, s)' PROVE owners' = w /\ Another(s)'
  <2>1. change[w][s] # NoOne
    BY <1>1, <1>3 DEF Takes
  <2>2. Takes(w, s)
    BY <1>1, <1>2, <1>3, <2>1 DEF Takes, ActiveOwners
  <2>3. owners = w /\ Another(s)
    BY <2>2 DEF Counted, Heirs, Taking
  <2> QED BY <1>1, <1>2, <2>1, <2>3, AnotherStays DEF Another
<1>4. ASSUME NEW s \in Staff, Makes(w, s)' PROVE owners' = w \/ Patron(w, s)'
  <2>1. change[w][s] # NoOne
    BY <1>1, <1>4 DEF Makes
  <2>2. Makes(w, s)
    BY <1>1, <1>2, <1>4, <2>1 DEF Makes, Owner, Created
  <2>3. owners = w \/ Patron(w, s)
    BY <2>2 DEF Counted, Heirs, Making
  <2>4. ASSUME Patron(w, s) PROVE Initiator(w) \in ActiveOwners(acct') \ {s}
    BY <2>4, AccountsKept DEF Patron, Locked, ActiveOwners
  <2>5. Initiator(w)' = Initiator(w)
    BY <1>2, <2>1
  <2>6. ASSUME Patron(w, s) PROVE Patron(w, s)'
    BY <1>1, <2>4, <2>5, <2>6 DEF Patron
  <2> QED BY <1>1, <2>3, <2>6
<1> QED BY <1>3, <1>4 DEF Taking, Making

(* Somebody was made an owner while w, with the owners' lock, was aside.    *)
LEMMA MadeBeside ==
  ASSUME StaffInv, Guarded, Counted, [StaffNext]_allVars, NEW w \in Workers, Aside(w), tx[w].stage # "free",
         owners = w, NEW s \in Staff, ~Owner(s), acct'[s].status # "absent", acct'[s].role = "owner"
  PROVE  ActiveOwners(acct') \ {s} # {}
<1> USE DEF StaffInv, StaffTypeOK
<1>1. acct[s] \in Account
  OBVIOUS
<1>2. acct'[s] # acct[s]
  BY DEF Owner, Created
<1>3. ~Outside(s)
  BY <1>1 DEF Outside, Account, Owner, Created
<1>4. ASSUME NEW v \in Workers, SessionsClosed(v, s) PROVE FALSE
  BY <1>1, <1>4 DEF SessionsClosed, Account, Owner, Created
<1>5. PICK v \in Workers : Committed(v, s)
  BY <1>2, <1>3, <1>4, AccountSteps
<1>6. v # w
  <2>1. CommitCall(w) => tx'[w] = Free
    BY DEF CommitCall, Release
  <2> QED BY <1>5, <2>1 DEF Committed, Aside, Free
<1>7. Makes(v, s)
  BY <1>5 DEF Makes, Committed
<1> DEFINE q == Initiator(v)
<1>8. q \in ActiveOwners(acct) \ {s} /\ change[v][q] = NoOne
  BY <1>6, <1>7 DEF Counted, Heirs, Making, Patron
<1>9. acct'[q] = acct[q]
  BY <1>5, <1>8 DEF Committed, CommitCall, ActiveOwners
<1>10. q \in ActiveOwners(acct')
  BY <1>8, <1>9 DEF ActiveOwners
<1> HIDE DEF q
<1> QED BY <1>8, <1>10

LEMMA ElseUnaware ==
  ASSUME StaffInv, Guarded, Counted, [StaffNext]_allVars, NEW w \in Workers, Aside(w), Unaware(w)',
         NEW t, t = Target(w)
  PROVE  Target(w)' = t /\ Another(t)'
<1>1. tx'[w] = tx[w] /\ seen'[w] = seen[w] /\ stale'[w] = stale[w] /\ Locked(w)' = Locked(w) /\ (owners = w => owners' = w)
  BY DEF Aside, Locked
<1>2. tx[w].stage = "accounts" /\ Target(w)' = t /\ NeedsOwners(w)' = NeedsOwners(w) /\ Who(w)' = Who(w)
      /\ Initiator(w)' = Initiator(w)
  BY <1>1, PartiesStay DEF Unaware, Guarded
<1>3. NeedsOwners(w) /\ t \in Staff /\ acct'[t].role = "owner"
  BY <1>2 DEF Unaware
<1>4. owners = w
  BY <1>2, <1>3 DEF Guarded, Owns
<1>5. (t \in Locked(w) /\ seen[w][t].role # "owner") \/ (stale[w] \notin {NoOne, "owner"} /\ NextAccount(w, t)')
  <2>1. NextAccount(w, Target(w))' => t \in Missing(w)' /\ \A q \in Missing(w)' : t <= q
    BY <1>2 DEF NextAccount
  <2>2. NextAccount(w, t)' <=> t \in Missing(w)' /\ \A q \in Missing(w)' : t <= q
    BY DEF NextAccount
  <2> QED BY <1>1, <1>2, <2>1, <2>2 DEF Unaware
<1>6. CASE Owner(t)
  <2>1. ASSUME NextAccount(w, t)' PROVE NextAccount(w, t)
    <3>1. t \in Missing(w)' /\ \A q \in Missing(w)' : t <= q
      BY <2>1 DEF NextAccount
    <3>2. \A q \in Staff : Created(q) => acct'[q].status # "absent"
      BY Growing
    <3>3. Missing(w) \subseteq Missing(w)'
      BY <1>1, <1>2, <3>2 DEF Missing, Parties, Created
    <3>4. t \in Missing(w)
      BY <1>1, <1>2, <1>6, <3>1 DEF Missing, Parties, Created, Owner
    <3> QED BY <3>1, <3>3, <3>4 DEF NextAccount
  <2>2. Unaware(w)
    BY <1>2, <1>3, <1>5, <1>6, <2>1 DEF Unaware, Owner
  <2>3. Another(t)
    BY <2>2 DEF Counted, Heirs
  <2>4. Another(t)'
    BY <1>2, <1>4, <2>3, AnotherStays DEF Another
  <2> QED BY <1>2, <2>4
<1>7. CASE ~Owner(t)
  <2>1. acct'[t].status # "absent"
    <3>1. CASE t \in Locked(w)
      BY <1>3, <3>1, Growing DEF StaffInv, Present, Locked
    <3>2. CASE NextAccount(w, t)'
      BY <3>2 DEF NextAccount, Missing, Parties
    <3> QED BY <1>5, <3>1, <3>2
  <2>2. Another(t)'
    BY <1>2, <1>3, <1>4, <1>7, <2>1, MadeBeside DEF Another
  <2> QED BY <1>2, <2>2
<1> QED BY <1>6, <1>7

LEMMA ElseHeirs ==
  ASSUME StaffInv, Guarded, Counted, [StaffNext]_allVars, NEW w \in Workers, Aside(w)
  PROVE  Heirs(w)'
<1>1. Taking(w)' /\ Making(w)'
  BY ElseTaking
<1>2. ASSUME Unaware(w)' PROVE Another(Target(w))'
  <2>1. \A t : t = Target(w) => Target(w)' = t /\ Another(t)'
    BY <1>2, ElseUnaware
  <2> DEFINE t == Target(w)
  <2>2. Target(w)' = t /\ ActiveOwners(acct') \ {t} # {}
    BY <2>1 DEF Another
  <2> QED BY <2>2 DEF Another
<1> QED BY <1>1, <1>2 DEF Heirs

(* Whoever may take the target away leaves another owner: the guard counted *)
(* one, or the target was not known for an owner.                           *)
LEMMA Spared ==
  ASSUME StaffInv, Guarded, Counted, NEW w \in Workers, tx[w].stage = "accounts", NeedsOwners(w),
         Target(w) \in Locked(w) \cap ActiveOwners(acct), GuardOk(w) \/ seen[w][Target(w)].role # "owner"
  PROVE  owners = w /\ Another(Target(w))
<1>1. owners = w /\ Target(w) \in Staff /\ seen[w][Target(w)].status = "active" /\ acct[Target(w)].role = "owner"
  BY DEF Guarded, Owns, Holds, ActiveOwners
<1>2. CASE seen[w][Target(w)].role = "owner"
  BY <1>1, <1>2 DEF GuardOk, Another
<1>3. CASE seen[w][Target(w)].role # "owner"
  BY <1>1, <1>3 DEF Unaware, Counted, Heirs
<1> QED BY <1>1, <1>2, <1>3

(* A transaction that has written nothing and is past its locks, or has     *)
(* none yet.                                                                *)
LEMMA QuietHeirs ==
  ASSUME NEW w \in Workers, \A s \in Staff : change'[w][s] = NoOne,
         tx'[w].stage # "accounts" \/ (Locked(w)' = {} /\ stale'[w] = NoOne)
  PROVE  Heirs(w)'
<1>1. Taking(w)' /\ Making(w)'
  BY DEF Taking, Takes, Making, Makes
<1>2. ~Unaware(w)'
  BY DEF Unaware
<1> QED BY <1>1, <1>2 DEF Heirs

LEMMA LockingHeirs ==
  ASSUME StaffInv, Guarded, Counted, [StaffNext]_allVars, NEW w \in Workers, Locking(w)
  PROVE  Heirs(w)'
<1> USE DEF StaffInv, StaffTypeOK
<1>1. /\ UNCHANGED <<vars, acct, payload, change>> /\ tx[w].stage \in {"owners", "accounts"} /\ tx'[w].stage = "accounts"
      /\ Who(w)' = Who(w) /\ Target(w)' = Target(w) /\ Initiator(w)' = Initiator(w) /\ NeedsOwners(w)' = NeedsOwners(w)
  BY LockingKeeps
<1>2. \A s \in Staff : change'[w][s] = NoOne
  BY <1>1 DEF Guarded, Writes
<1>3. CASE TakeOwners(w)
  <2>1. Locked(w)' = {} /\ stale'[w] = NoOne
    BY <1>3, OwnersProper DEF TakeOwners, Guarded, Loaded
  <2> QED BY <1>2, <2>1, QuietHeirs
<1>4. Taking(w)' /\ Making(w)'
  BY <1>2 DEF Taking, Takes, Making, Makes
<1> DEFINE t == Target(w)
<1>5. ASSUME Unaware(w) => FALSE, Unaware(w)', NEW s \in Staff, WaitAccount(w, s) PROVE FALSE
  <2>1. tx' = tx /\ seen' = seen /\ stale'[w] = acct[s].role /\ NextAccount(w, s)
    BY <1>5 DEF WaitAccount
  <2>2. Locked(w)' = Locked(w) /\ Missing(w)' = Missing(w)
    BY <1>1, <2>1 DEF Locked, Missing, Parties
  <2>3. NextAccount(w, Target(w))' => t \in Missing(w) /\ \A q \in Missing(w) : t <= q
    BY <1>1, <2>2 DEF NextAccount
  <2>4. tx[w].stage = "accounts" /\ NeedsOwners(w) /\ t \in Staff /\ acct[t].role = "owner"
    BY <1>1, <1>5, <2>1 DEF Unaware
  <2>5. ~(t \in Locked(w) /\ seen[w][t].role # "owner")
    BY <1>5, <2>4 DEF Unaware
  <2>6. stale'[w] # "owner" /\ t \in Missing(w) /\ \A q \in Missing(w) : t <= q
    BY <1>1, <1>5, <2>1, <2>2, <2>3, <2>5 DEF Unaware
  <2>7. s \in Missing(w) /\ (\A q \in Missing(w) : s <= q) /\ Missing(w) \subseteq Nat
    BY <2>1, StaffAssumption DEF NextAccount, Missing, Parties
  <2>8. s = t
    BY <2>6, <2>7, NoneBetween
  <2> QED BY <2>1, <2>4, <2>6, <2>8
<1>6. ASSUME Unaware(w) => FALSE, Unaware(w)', NEW s \in Staff, LockAccount(w, s) PROVE FALSE
  <2>1. tx' = tx /\ stale'[w] = NoOne /\ NextAccount(w, s) /\ Locked(w)' = Locked(w) \cup {s}
    BY <1>6, LockProper DEF LockAccount
  <2>2. tx[w].stage = "accounts" /\ NeedsOwners(w) /\ t \in Staff /\ acct[t].role = "owner"
    BY <1>1, <1>6, <2>1 DEF Unaware
  <2>3. t \in Locked(w)' /\ seen'[w][t].role # "owner"
    BY <1>1, <1>6, <2>1 DEF Unaware
  <2>4. CASE t # s
    <3>1. seen'[w][t] = seen[w][t] /\ t \in Locked(w)
      BY <1>6, <2>1, <2>2, <2>3, <2>4 DEF LockAccount
    <3> QED BY <1>6, <2>2, <2>3, <3>1 DEF Unaware
  <2>5. CASE t = s
    <3>1. seen'[w][s] = IF stale[w] = NoOne THEN acct[s] ELSE [acct[s] EXCEPT !.role = stale[w]]
      BY <1>6 DEF LockAccount
    <3>2. acct[s] \in Account /\ stale[w] \in Roles \cup {NoOne}
      OBVIOUS
    <3>3. stale[w] # NoOne => seen'[w][s].role = stale[w]
      BY <3>1, <3>2 DEF Account
    <3>4. stale[w] \notin {NoOne, "owner"}
      BY <2>2, <2>3, <2>5, <3>1, <3>3
    <3> QED BY <1>6, <2>1, <2>2, <2>5, <3>4 DEF Unaware
  <2> QED BY <2>4, <2>5
<1>7. ASSUME NEW s \in Staff, WaitAccount(w, s) \/ LockAccount(w, s), Unaware(w)' PROVE Another(Target(w))'
  <2>1. Unaware(w)
    BY <1>5, <1>6, <1>7
  <2>2. Another(t)
    BY <2>1 DEF Counted, Heirs
  <2> QED BY <1>1, <2>2 DEF Another
<1> QED BY <1>3, <1>4, <1>7 DEF Locking, Heirs

(* What an executor takes or makes.                                         *)
LEMMA WorkHeirs ==
  ASSUME StaffInv, Guarded, Counted, [StaffNext]_allVars, NEW w \in Workers, ExecWork(w)
  PROVE  Heirs(w)'
<1> USE DEF StaffInv, StaffTypeOK
<1> DEFINE p == payload[Req(w)]
           t == p.target
<1>1. /\ tx[w].stage = "accounts" /\ Executable(w) /\ UNCHANGED <<acct, payload, seen, owners>>
      /\ change' = [change EXCEPT ![w][t] = Executed(p)] /\ call[w].pc = "exec"
  BY DEF ExecWork, Ready, Write
<1>2. Proper(w)' /\ Locked(w)' = Locked(w) /\ Target(w)' = Target(w)
  BY WorkProper
<1>3. Worked(w)' /\ tx'[w].stage = "done" /\ tx'[w].c = tx[w].c
  <2>1. tx'[w].stage = "done" /\ tx'[w].c = tx[w].c
    BY AtStage DEF ExecWork, Stages
  <2>2. call[w] \in Call /\ (call'[w] = call[w] \/ call'[w] = [call[w] EXCEPT !.pc = "exec"])
    BY DEF ExecWork, CancelByInitiator, Step, vars, Inv, TypeOK
  <2>3. call'[w].pc = "exec"
    BY <1>1, <2>2 DEF Call
  <2> QED BY <1>2, <2>1, <2>3 DEF Proper, Works
<1>4. Op(w) = "approve" /\ Req(w)' = Req(w) /\ Initiator(w)' = Initiator(w) /\ p \in Payload /\ t \in Staff
      /\ Req(w) \in Requests /\ reqs[Req(w)].status # "absent" /\ Kind(w) = p.kind
  <2>1. Op(w) = "approve"
    BY <1>3 DEF Worked, Op
  <2> QED BY <1>1, <1>3, <2>1, Persons, PartiesStay DEF Guarded, Ops, Payload, Kind
<1>5. \A s \in Staff \ {t} : change'[w][s] = NoOne
  BY <1>1, <1>4 DEF Guarded, Writes
<1>6. change'[w][t] = Executed(p)
  BY <1>1, <1>4
<1>7. p.kind = "invite" => acct[t].status # "active"
  BY <1>1, <1>3, <1>4 DEF Worked
<1>8. InitiatorValid(acct[Initiator(w)], p) /\ Initiator(w) \in Locked(w)
  BY <1>1, <1>2, <1>3, <1>4 DEF Worked
<1>9. acct[t] \in Account /\ p.kind \in Asks /\ p.to \in Roles \cup {NoOne}
  BY <1>4 DEF Payload
<1>10. p.kind # "invite" => NeedsOwners(w) /\ Target(w) = t
  BY <1>4, <1>9 DEF NeedsOwners, Target, Asks, OpCalls
<1>11. Taking(w)'
  <2> SUFFICES ASSUME NEW s \in Staff, Takes(w, s)' PROVE owners' = w /\ Another(s)'
    BY DEF Taking
  <2>1. s = t /\ acct[t].status = "active" /\ acct[t].role = "owner"
    BY <1>1, <1>5 DEF Takes, ActiveOwners
  <2>2. p.kind # "invite"
    BY <1>7, <2>1
  <2>3. t \in Locked(w)
    BY <1>1, <1>2, <1>4, <2>1 DEF Proper, Writes, Fresh, Takes
  <2>4. p.kind = "role" => p.to # "owner"
    <3>1. WithRole(acct[t], "owner").status = "active" /\ WithRole(acct[t], "owner").role = "owner"
      BY <1>9, <2>1 DEF WithRole, Account
    <3> QED BY <1>6, <2>1, <3>1 DEF Takes, Executed
  <2>5. GuardOk(w)
    BY <1>1, <1>9, <2>2, <2>4 DEF Executable, Asks
  <2>6. owners = w /\ Another(t)
    BY <1>1, <1>4, <1>10, <2>1, <2>2, <2>3, <2>5, Spared DEF ActiveOwners
  <2> QED BY <1>1, <2>1, <2>6 DEF Another
<1>12. Making(w)'
  <2> SUFFICES ASSUME NEW s \in Staff, Makes(w, s)' PROVE owners' = w \/ Patron(w, s)'
    BY DEF Making
  <2>1. s = t /\ ~Owner(t) /\ Executed(p).role = "owner"
    BY <1>1, <1>5, <1>6 DEF Makes, Owner, Created
  <2>2. CASE p.kind = "role"
    BY <1>1, <1>10, <2>2 DEF Guarded, Owns
  <2>3. p.kind \notin {"reset", "disable"}
    <3>1. Reset(acct[t]).role = acct[t].role /\ Disabled(acct[t]).role = acct[t].role
      BY <1>9 DEF Reset, Disabled, Account
    <3>2. p.kind # "invite" => Created(t)
      BY <1>4 DEF Present
    <3> QED BY <2>1, <3>1, <3>2 DEF Executed, Owner
  <2>4. CASE p.kind = "invite"
    <3>1. p.to = "owner"
      <4>1. Invited(p.to).role = p.to /\ Reset(acct[t]) \in Account
        BY <1>4, <1>9, WrittenType DEF Invited
      <4>2. [Reset(acct[t]) EXCEPT !.role = p.to].role = p.to
        BY <4>1 DEF Account
      <4> QED BY <2>1, <2>4, <4>1, <4>2 DEF Executed
    <3>2. p.elevated
      <4>1. p.elevated <=> Elevated(p.to)
        BY <1>4, <2>4 DEF Counted, RowsAsked
      <4> QED BY <3>1, <4>1 DEF Elevated
    <3>3. acct[Initiator(w)].status = "active" /\ Permits(acct[Initiator(w)].role, p.elevated)
      BY <1>8 DEF InitiatorValid
    <3>4. acct[Initiator(w)].role = "owner"
      BY <3>2, <3>3 DEF Permits
    <3>5. Initiator(w) \in ActiveOwners(acct) /\ Initiator(w) # t
      BY <1>7, <1>8, <2>4, <3>3, <3>4 DEF ActiveOwners, Locked
    <3>6. change'[w][Initiator(w)] = NoOne
      BY <1>5, <3>5 DEF ActiveOwners
    <3> QED BY <1>1, <1>2, <1>4, <1>8, <2>1, <3>5, <3>6 DEF Patron
  <2> QED BY <1>9, <2>2, <2>3, <2>4 DEF Asks
<1>13. ~Unaware(w)'
  BY <1>3 DEF Unaware
<1> QED BY <1>11, <1>12, <1>13 DEF Heirs

(* What is done at once, the operator's reset apart.                        *)
LEMMA DirectHeirs ==
  ASSUME NoResets, StaffInv, Guarded, Counted, [StaffNext]_allVars, NEW w \in Workers, ActDirectly(w)
  PROVE  Heirs(w)'
<1> USE DEF StaffInv, StaffTypeOK
<1> DEFINE t == Target(w)
<1>1. /\ tx[w].stage = "accounts" /\ Direct(w) /\ UNCHANGED <<acct, payload, seen, owners>> /\ Op(w) \in {"disable"} \cup OpCalls
  BY DEF ActDirectly, Ready
<1>2. Op(w) \in {"disable", "opdisable"}
  BY <1>1, Working DEF NoResets, OpCalls, Op
<1>3. change' = [change EXCEPT ![w][t] = Disabled(acct[t])]
  BY <1>2 DEF ActDirectly, Write
<1>4. t \in Staff /\ seen[w][t] # NoOne /\ Seen(w) = seen[w][t]
  BY <1>1, <1>2, Working DEF Direct, Target, OpCalls, Ops, Seen
<1>5. NeedsOwners(w) /\ t \in Locked(w)
  BY <1>2, <1>4 DEF NeedsOwners, Kind, Locked
<1>6. change'[w][t] = Disabled(acct[t]) /\ \A s \in Staff \ {t} : change'[w][s] = NoOne
  BY <1>1, <1>3, <1>4 DEF Guarded, Writes
<1>7. GuardOk(w) \/ seen[w][t].role # "owner"
  BY <1>1, <1>2, <1>4 DEF Direct
<1>8. Taking(w)'
  <2> SUFFICES ASSUME NEW s \in Staff, Takes(w, s)' PROVE owners' = w /\ Another(s)'
    BY DEF Taking
  <2>1. s = t /\ t \in ActiveOwners(acct)
    BY <1>1, <1>6 DEF Takes
  <2>2. owners = w /\ Another(t)
    BY <1>1, <1>5, <1>7, <2>1, Spared
  <2> QED BY <1>1, <2>1, <2>2 DEF Another
<1>9. Making(w)'
  <2> SUFFICES ASSUME NEW s \in Staff, Makes(w, s)' PROVE FALSE
    BY DEF Making
  <2>1. s = t /\ ~Owner(t) /\ Disabled(acct[t]).role = "owner"
    BY <1>1, <1>6 DEF Makes, Owner, Created
  <2>2. acct[t] \in Account /\ Created(t)
    BY <1>4 DEF Present
  <2>3. Disabled(acct[t]).role = acct[t].role
    BY <2>2 DEF Disabled, Account
  <2> QED BY <2>1, <2>2, <2>3 DEF Owner
<1>10. ~Unaware(w)'
  <2>1. tx'[w].stage = "done"
    BY AtStage DEF ActDirectly, Stages
  <2> QED BY <2>1 DEF Unaware
<1> QED BY <1>8, <1>9, <1>10 DEF Heirs

LEMMA OwnHeirs ==
  ASSUME NoResets, StaffInv, Guarded, Counted, [StaffNext]_allVars, NEW w \in Workers, Own(w)
  PROVE  Heirs(w)'
<1> USE DEF StaffInv, StaffTypeOK
<1>1. ASSUME NEW c \in left, Load(w, c) PROVE Heirs(w)'
  <2>1. Locked(w)' = {} /\ stale'[w] = NoOne
    BY <1>1, LoadProper DEF Load, Guarded, Loaded
  <2>2. \A s \in Staff : change'[w][s] = NoOne
    BY <1>1 DEF Load, Guarded, Writes
  <2> QED BY <2>1, <2>2, QuietHeirs
<1>2. CASE LockRequest(w) \/ LapseCall(w) \/ AcceptCall(w) \/ ExecDone(w) \/ Sweep(w)
  <2>1. UNCHANGED staffVars
    BY <1>2 DEF LockRequest, LapseCall, AcceptCall, ExecDone, Sweep
  <2>2. Aside(w)
    BY <2>1 DEF Aside, staffVars
  <2> QED BY <2>2, ElseHeirs
<1>3. CASE CheckCall(w)
  <2>1. tx[w].stage = "request" /\ change' = change /\ stale' = stale
    BY <1>3 DEF CheckCall, CheckInitiator, Guarded, Allowed
  <2>2. Locked(w)' = {} /\ stale'[w] = NoOne
    BY <1>3, <2>1, CheckProper DEF Guarded, Loaded
  <2>3. \A s \in Staff : change'[w][s] = NoOne
    BY <2>1 DEF Guarded, Writes
  <2> QED BY <2>2, <2>3, QuietHeirs
<1>4. CASE ExecRefusal(w)
  <2>1. tx'[w].stage = "done" /\ tx[w].stage = "accounts" /\ change' = change
    BY <1>4, AtStage DEF ExecRefusal, Ready, Stages
  <2>2. \A s \in Staff : change'[w][s] = NoOne
    BY <2>1 DEF Guarded, Writes
  <2> QED BY <2>1, <2>2, QuietHeirs
<1>5. CASE RefuseCall(w) \/ ExecError(w) \/ Abort(w) \/ CommitCall(w) \/ Ask(w) \/ RevokeSessions(w) \/ Decline(w)
  <2>1. Release(w)
    BY <1>5 DEF RefuseCall, ExecError, Abort, CommitCall, Ask, RevokeSessions, Decline
  <2>2. tx'[w].stage = "free" /\ \A s \in Staff : change'[w][s] = NoOne
    BY <2>1 DEF Release, Free, None
  <2> QED BY <2>2, QuietHeirs
<1> QED BY <1>1, <1>2, <1>3, <1>4, <1>5, LockingHeirs, WorkHeirs, DirectHeirs DEF Own, WorkerStep, Approving, Asking

(* Requests are asked for as the rows say.                                  *)
LEMMA RowsAskedStep ==
  ASSUME StaffInv, Guarded, RowsAsked, [StaffNext]_allVars
  PROVE  RowsAsked'
<1> USE DEF StaffInv, Inv, TypeOK, StaffTypeOK
<1> SUFFICES ASSUME NEW r \in Requests, reqs'[r].status # "absent"
             PROVE  /\ payload'[r].target # reqs'[r].by
                    /\ payload'[r].kind # "invite" => reqs'[r].target = payload'[r].target
                    /\ payload'[r].kind = "invite" => (payload'[r].elevated <=> Elevated(payload'[r].to))
  BY DEF RowsAsked, Elevated
<1>1. CASE reqs[r].status # "absent"
  BY <1>1, RequestStays DEF RowsAsked
<1>2. CASE reqs[r].status = "absent"
  <2>1. ASSUME NEW w \in Workers, CommitCall(w) PROVE FALSE
    BY <1>2, <2>1 DEF CommitCall, Commit, Decided, Rest, OneDecider, Pending
  <2>2. PICK w \in Workers : Ask(w)
    BY <1>2, <2>1, RowSteps
  <2> DEFINE c == tx[w].c
             t == Seen(w)
             p == [kind |-> c.op, target |-> c.target, ver |-> t.ver, initVer |-> seen[w][c.who].ver,
                   to |-> c.to, elevated |-> Permission(c.op, t.role, c.to)]
  <2>3. /\ Ready(w) /\ Op(w) \in Asks /\ Askable(w) /\ Request(c.req, c.who, IF t.status = "absent" THEN NoOne ELSE c.target)
        /\ payload' = [payload EXCEPT ![c.req] = p] /\ c.req \in Requests
    BY <2>2, AskPayload DEF Ask, Req
  <2>4. r = c.req
    BY <1>2, <2>3 DEF Request
  <2>5. payload'[r] = p
    BY <2>3, <2>4
  <2>6. reqs'[r].by = c.who /\ reqs'[r].target = IF t.status = "absent" THEN NoOne ELSE c.target
    BY <2>3, <2>4 DEF Request
  <2>7. c \in Calls /\ c.op \notin Ops /\ c.op = Op(w)
    BY <2>3, Working DEF Ready, Asks, Ops, Op
  <2>8. c.target # c.who
    BY <2>7, StaffAssumption
  <2>9. c.op # "invite" => t.status # "absent"
    <3>1. c.op # "invite" => t = seen[w][c.target] /\ t # NoOne /\ c.target \in Staff
      BY <2>3, <2>7, Working DEF Ready, Askable, Seen, Target, Asks, OpCalls
    <3>2. \A s \in Locked(w) : seen[w][s].status = acct[s].status /\ acct[s].status # "absent"
      BY DEF Guarded, Holds, Present, Created, Locked
    <3> QED BY <3>1, <3>2 DEF Locked
  <2>10. p.kind = c.op /\ p.target = c.target /\ p.to = c.to /\ p.elevated = Permission(c.op, t.role, c.to)
    OBVIOUS
  <2>11. c.op = "invite" => Permission(c.op, t.role, c.to) = Elevated(c.to)
    BY DEF Permission
  <2> HIDE DEF p, t
  <2>12. p.kind = "invite" => p.elevated = Elevated(p.to)
    BY <2>10, <2>11
  <2>13. p.target # reqs'[r].by
    BY <2>6, <2>8, <2>10
  <2>14. p.kind # "invite" => reqs'[r].target = p.target
    BY <2>6, <2>9, <2>10
  <2> QED BY <2>5, <2>12, <2>13, <2>14
<1> QED BY <1>1, <1>2

LEMMA AskedAlways == StaffSpec => [](StaffInv /\ Guarded /\ RowsAsked)
<1>1. StaffInit => RowsAsked
  BY DEF StaffInit, Init, NoRow, RowsAsked
<1>2. StaffInv /\ Guarded /\ RowsAsked /\ [StaffNext]_allVars => RowsAsked'
  BY RowsAskedStep
<1> QED BY <1>1, <1>2, GuardedAlways, PTL DEF StaffSpec

LEMMA CountedAlways == ASSUME NoResets PROVE StaffSpec => [](StaffInv /\ Guarded /\ Counted)
<1>1. StaffInit => Counted
  <2> SUFFICES ASSUME StaffInit PROVE Counted
    OBVIOUS
  <2>1. RowsAsked
    BY DEF StaffInit, Init, NoRow, RowsAsked
  <2>2. \A w \in Workers : tx[w].stage = "free" /\ \A s \in Staff : change[w][s] = NoOne
    BY DEF StaffInit, Free, None
  <2>3. \A w \in Workers : Taking(w) /\ Making(w) /\ ~Unaware(w)
    BY <2>2 DEF Taking, Takes, Making, Makes, Unaware
  <2> QED BY <2>1, <2>3 DEF Counted, Heirs
<1>2. ASSUME StaffInv, Guarded, Counted, [StaffNext]_allVars PROVE Counted'
  <2>1. RowsAsked'
    BY <1>2, RowsAskedStep DEF Counted
  <2>2. CASE \A w \in Workers : Else(w)
    BY <1>2, <2>1, <2>2, ElseHeirs DEF Else, Counted
  <2>3. ASSUME NEW u \in Workers, Own(u) PROVE Counted'
    <3>1. \A w \in Workers \ {u} : Heirs(w)'
      BY <1>2, <2>3, Elsewhere, ElseHeirs DEF Else
    <3>2. Heirs(u)'
      BY <1>2, <2>3, OwnHeirs
    <3> QED BY <2>1, <3>1, <3>2 DEF Counted
  <2> QED BY <1>2, <2>2, <2>3, SomeoneSteps
<1>3. StaffInv /\ Guarded /\ Counted /\ [StaffNext]_allVars => Counted'
  BY <1>2
<1> QED BY <1>1, <1>3, GuardedAlways, PTL DEF StaffSpec

(* The guard of the last owner: as long as the operator resets nobody, who  *)
(* does it without the guard, the system that has an active owner keeps     *)
(* one, whatever waits, commits and invitations cross (ownerGuard,          *)
(* lockOwners, count of active owners).                                     *)
THEOREM GuardKeepsOwnerAlways ==
  ASSUME NoResets
  PROVE  StaffSpec => GuardKeepsOwner
<1>1. ASSUME StaffInv, Guarded, Counted, [StaffNext]_allVars, ActiveOwners(acct) # {}
      PROVE  ActiveOwners(acct') # {}
  <2>1. CASE \A v \in Workers : ~CommitCall(v)
    BY <1>1, <2>1, OwnerStays
  <2>2. ASSUME NEW v \in Workers, CommitCall(v) PROVE ActiveOwners(acct') # {}
    <3>1. CASE \E s \in Staff : Takes(v, s)
      <4>1. PICK s \in Staff : Takes(v, s)
        BY <3>1
      <4>2. s = Target(v)
        BY <1>1, <4>1 DEF Takes, ActiveOwners, Guarded, Writes, Fresh
      <4>3. PICK h \in ActiveOwners(acct) : h # s
        BY <1>1, <4>1 DEF Counted, Heirs, Taking, Another
      <4>4. change[v][h] = NoOne
        BY <1>1, <4>2, <4>3 DEF Guarded, Writes, Fresh, ActiveOwners
      <4>5. h \in ActiveOwners(acct')
        BY <2>2, <4>3, <4>4 DEF CommitCall, ActiveOwners
      <4> QED BY <4>5
    <3>2. CASE \A s \in Staff : ~Takes(v, s)
      <4>1. PICK h : h \in ActiveOwners(acct)
        BY <1>1
      <4>2. h \in ActiveOwners(acct')
        BY <2>2, <3>2, <4>1 DEF CommitCall, Takes, ActiveOwners
      <4> QED BY <4>2
    <3> QED BY <3>1, <3>2
  <2> QED BY <2>1, <2>2
<1>2. StaffInv /\ Guarded /\ Counted /\ [StaffNext]_allVars =>
        [\A w \in Workers :
           change[w] # None /\ change'[w] = None /\ acct' # acct /\ Op(w) # "opreset" =>
             ActiveOwners(acct) = {} \/ ActiveOwners(acct') # {}]_allVars
  BY <1>1
<1> QED BY <1>2, CountedAlways, PTL DEF StaffSpec, GuardKeepsOwner

(* Two persons leave two owners: the initiator and the approver of what     *)
(* takes the owners' permission are themselves active owners at the commit  *)
(* (initiatorValid, checkActor), they are not the target of it, and the     *)
(* commit changes nobody but the target.                                    *)
THEOREM ApprovedLeavesTwoOwnersAlways == StaffSpec => ApprovedLeavesTwoOwners
<1>1. ASSUME StaffInv, StaffInv', Guarded, RowsAsked, [StaffNext]_allVars, NEW r \in Requests, Executes(r), payload[r].elevated,
             payload[r].target \in ActiveOwners(acct) \ ActiveOwners(acct')
      PROVE  Cardinality(ActiveOwners(acct')) >= 2
  <2> DEFINE p == payload[r]
             a == reqs[r].by
             d == reqs'[r].decider
  <2>1. PICK w \in Workers :
          CommitCall(w) /\ Worked(w) /\ r = Req(w) /\ d = Who(w) /\ Initiator(w) = a
    BY <1>1, ExecutedBy
  <2>2. Op(w) = "approve" /\ {d, a} \subseteq Locked(w) /\ tx[w].stage # "free" /\ reqs[r].status # "absent"
    BY <1>1, <2>1 DEF Worked, Executes, Pending
  <2>3. p.kind # "invite"
    BY <1>1, <2>1 DEF Worked, ActiveOwners
  <2>4. acct[a].status = "active" /\ Permits(acct[a].role, p.elevated)
        /\ acct[d].status = "active" /\ Permits(acct[d].role, p.elevated)
    BY <2>1, <2>3 DEF Worked, InitiatorValid
  <2>5. a \in ActiveOwners(acct) /\ d \in ActiveOwners(acct)
    BY <1>1, <2>2, <2>4 DEF Permits, ActiveOwners, Locked
  <2>6. p.target # a /\ reqs[r].target = p.target /\ reqs'[r].by = a /\ reqs'[r].target = p.target
    BY <1>1, <2>2, <2>3, RequestStays DEF RowsAsked
  <2>7. d \notin {a, p.target}
    <3>1. reqs'[r].status = "executed"
      BY <1>1 DEF Executes
    <3>2. RowsRight'
      BY <1>1 DEF StaffInv, Inv, Rest
    <3>3. d \in Staff \ {reqs'[r].by, reqs'[r].target}
      BY <3>1, <3>2 DEF RowsRight, Settled, Right
    <3> QED BY <2>6, <3>3
  <2>8. \A s \in Staff : change[w][s] # NoOne /\ s \in Locked(w) => s = Target(w)
    BY <1>1 DEF Guarded, Writes, Fresh, StaffInv, Present, Locked, Created
  <2>9. Target(w) = p.target
    BY <2>1, <2>2, <2>3 DEF Target, Kind, OpCalls
  <2>10. change[w][a] = NoOne /\ change[w][d] = NoOne
    BY <2>2, <2>5, <2>6, <2>7, <2>8, <2>9 DEF ActiveOwners
  <2>11. {a, d} \subseteq ActiveOwners(acct')
    BY <2>1, <2>5, <2>10 DEF CommitCall, ActiveOwners
  <2> HIDE DEF a, d
  <2>12. IsFiniteSet(ActiveOwners(acct'))
    <3>1. ActiveOwners(acct') \subseteq Staff
      BY DEF ActiveOwners
    <3> QED BY <3>1, StaffAssumption, FS_Subset
  <2>13. a # d
    BY <2>7
  <2>14. Cardinality({a, d}) = 2
    <3>1. IsFiniteSet({a}) /\ Cardinality({a}) = 1
      BY FS_Singleton
    <3>2. d \notin {a} /\ {a} \cup {d} = {a, d}
      BY <2>13
    <3>3. Cardinality({a} \cup {d}) = Cardinality({a}) + 1
      BY <3>1, <3>2, FS_AddElement
    <3> QED BY <3>1, <3>2, <3>3
  <2>15. Cardinality({a, d}) <= Cardinality(ActiveOwners(acct'))
    BY <2>11, <2>12, FS_Subset
  <2>16. Cardinality(ActiveOwners(acct')) \in Nat
    BY <2>12, FS_CardinalityType
  <2> QED BY <2>14, <2>15, <2>16
<1>2. StaffInv /\ Guarded /\ RowsAsked /\ StaffInv' /\ [StaffNext]_allVars =>
        [\A r \in Requests :
           Executes(r) /\ payload[r].elevated /\ payload[r].target \in ActiveOwners(acct) \ ActiveOwners(acct') =>
             Cardinality(ActiveOwners(acct')) >= 2]_allVars
  BY <1>1
<1> QED BY <1>2, AskedAlways, PTL DEF StaffSpec, ApprovedLeavesTwoOwners
=============================================================================

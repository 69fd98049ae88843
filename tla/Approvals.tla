----------------------------- MODULE Approvals -----------------------------
(***************************************************************************)
(* The platform's service of two-person approvals                          *)
(* (backend/internal/platform/approvals) at the granularity of its         *)
(* database transactions: SELECT ... FOR UPDATE on the request's row, the  *)
(* checks under that lock, the initiator check, the executor under a       *)
(* savepoint, and the commit that makes the row, the audit record and the  *)
(* outbox event visible together.  Cancellation by the module and expiry   *)
(* take rows with SKIP LOCKED.  The module that owns the actions (staff)   *)
(* is the environment here: the outcome of its initiator check and of its  *)
(* executor is arbitrary.  StaffApprovals.tla puts the real one in place.  *)
(***************************************************************************)
EXTENDS Naturals, Sequences, FiniteSets

CONSTANTS
  Requests,   \* identifiers of rows of table approvals
  Staff,      \* employees
  Workers,    \* connections of admin-api, one transaction each
  NoOne,      \* NULL: no target, not decided, not locked
  System,     \* decided_by_label = 'system'
  TTL,        \* how long a request waits for a decision
  Retention,  \* how long a decided request is kept
  BatchSize,  \* rows per transaction of ExpireDue
  MaxTime,    \* bound: the clock stops here
  MaxEnv      \* bound: calls, module cancellations and failures per behaviour

ASSUME ApprovalsAssumption ==
  /\ NoOne \notin Staff \cup Workers \cup {System}
  /\ System \notin Staff
  /\ TTL \in Nat \ {0} /\ Retention \in Nat \ {0} /\ BatchSize \in Nat \ {0}
  /\ MaxTime \in Nat /\ MaxEnv \in Nat

VARIABLES
  now,        \* Service.now
  reqs,       \* committed rows of table approvals
  lock,       \* lock[r]: the transaction that holds row r FOR UPDATE
  call,       \* call[w]: the transaction connection w is running
  staged,     \* staged[w][r]: w's uncommitted decision of r
  journal,    \* journal[r]: committed decision records of r (audit + event)
  env         \* environment events so far

vars == <<now, reqs, lock, call, staged, journal, env>>

Settled == {"executed", "rejected", "cancelled", "expired", "failed"}
Row == [status : {"absent", "pending", "purged"} \cup Settled,
        by : Staff \cup {NoOne}, target : Staff \cup {NoOne}, expires : Nat,
        decider : Staff \cup {System, NoOne}, at : Nat]
Decision == [status : Settled, decider : Staff \cup {System}, at : Nat]
Ops == {"approve", "reject", "cancel"}
Pcs == {"idle", "locked", "check", "exec", "commit"}
Call == [pc : Pcs,
         op : Ops \cup {NoOne}, who : Staff \cup {NoOne}, req : Requests \cup {NoOne},
         may : BOOLEAN]

NoRow  == [status |-> "absent", by |-> NoOne, target |-> NoOne, expires |-> 0,
           decider |-> NoOne, at |-> 0]
Idle   == [pc |-> "idle", op |-> NoOne, who |-> NoOne, req |-> NoOne, may |-> FALSE]
Nothing == [r \in Requests |-> NoOne]

TypeOK ==
  /\ now \in Nat /\ env \in Nat
  /\ reqs \in [Requests -> Row]
  /\ lock \in [Requests -> Workers \cup {NoOne}]
  /\ call \in [Workers -> Call]
  /\ staged \in [Workers -> [Requests -> Decision \cup {NoOne}]]
  /\ journal \in [Requests -> Seq(Decision)]

Init ==
  /\ now = 0 /\ env = 0
  /\ reqs = [r \in Requests |-> NoRow]
  /\ lock = [r \in Requests |-> NoOne]
  /\ call = [w \in Workers |-> Idle]
  /\ staged = [w \in Workers |-> Nothing]
  /\ journal = [r \in Requests |-> <<>>]

----------------------------------------------------------------------------
(* Reading the rows.                                                       *)

Pending(r) == reqs[r].status = "pending"
Exists(r)  == reqs[r].status \notin {"absent", "purged"}
(* now >= expires_at: at the very deadline it is already too late.         *)
Expired(r) == now >= reqs[r].expires
(* What the lists show: a pending row past its deadline is shown expired.  *)
Effective(r) == IF Pending(r) /\ Expired(r) THEN "expired" ELSE reqs[r].status

(* Rows a statement with FOR UPDATE SKIP LOCKED run by w does not skip:    *)
(* its own locks do not stand in its way.                                  *)
TakeableLocked(w) == Requests
Takeable(w) == {r \in Requests : lock[r] \in {NoOne, w}}

(* Due(t): what a sweep that read its clock at t may decide for the system.*)
Due(t) == {r \in Requests : Pending(r) /\ reqs[r].expires <= t}

(* ORDER BY ... LIMIT BatchSize over the rows of R, key being the order.   *)
BatchOfFull(B, R, key) ==
  /\ B \in SUBSET R /\ Cardinality(B) = BatchSize
  /\ \A r \in B, q \in R \ B : key[r] <= key[q]
BatchOf(B, R, key) ==
  /\ B \in (SUBSET R) \ {{}}
  /\ Cardinality(B) = BatchSize \/ (Cardinality(B) < BatchSize /\ B = R)
  /\ \A r \in B, q \in R \ B : key[r] <= key[q]

VerdictNoLabel(st, who) == [status |-> st, decider |-> NoOne, at |-> now]
Verdict(st, who) == [status |-> st, decider |-> who, at |-> now]
(* An expired request is decided at its deadline, not at the click.        *)
LapsedNow(r) == [status |-> "expired", decider |-> System, at |-> now]
Lapsed(r) == [status |-> "expired", decider |-> System, at |-> reqs[r].expires]

Step(w, pc) == call' = [call EXCEPT ![w].pc = pc]

(* decide: UPDATE ... WHERE status = 'pending' of the locked row, with its *)
(* audit record and event; none of it is committed yet.                    *)
Decide(w, r, d) ==
  /\ staged[w][r] = NoOne
  /\ staged' = [staged EXCEPT ![w][r] = d]
  /\ Step(w, "commit")

(* The end of a transaction: its row locks and what it staged are gone.    *)
EndTx(w) ==
  /\ lock' = [r \in Requests |-> IF lock[r] = w THEN NoOne ELSE lock[r]]
  /\ staged' = [staged EXCEPT ![w] = Nothing]
  /\ call' = [call EXCEPT ![w] = Idle]

Budget == env < MaxEnv /\ env' = env + 1

----------------------------------------------------------------------------
(* The clock, and a request made in the transaction of the module.         *)

Tick ==
  /\ now < MaxTime
  /\ now' = now + 1
  /\ UNCHANGED <<reqs, lock, call, staged, journal, env>>

Request(r, s, t) ==
  /\ reqs[r].status = "absent"
  /\ now + TTL <= MaxTime     \* bound: the deadline is within the modelled time
  /\ reqs' = [reqs EXCEPT ![r] = [status |-> "pending", by |-> s, target |-> t,
                                  expires |-> now + TTL, decider |-> NoOne, at |-> 0]]
  /\ UNCHANGED <<now, lock, call, staged, journal, env>>

----------------------------------------------------------------------------
(* Approve, Reject and Cancel: the lock, then the checks in their order.   *)

(* The variant that reads the row without FOR UPDATE, for comparison.      *)
LockApprovalPlain(w, op, s, r, may) ==
  /\ call[w].pc = "idle" /\ Budget
  /\ Exists(r)
  /\ call' = [call EXCEPT ![w] = [pc |-> "locked", op |-> op, who |-> s, req |-> r, may |-> may]]
  /\ UNCHANGED <<now, reqs, lock, staged, journal>>

(* may: the permission stored in the request, decided on the principal the *)
(* session was loaded with before the lock was asked for.                  *)
LockApproval(w, op, s, r, may) ==
  /\ call[w].pc = "idle" /\ Budget
  /\ Exists(r) /\ lock[r] = NoOne
  /\ lock' = [lock EXCEPT ![r] = w]
  /\ call' = [call EXCEPT ![w] = [pc |-> "locked", op |-> op, who |-> s, req |-> r, may |-> may]]
  /\ UNCHANGED <<now, reqs, staged, journal>>

(* Cancelling is the initiator's; deciding is for someone else than the    *)
(* initiator and the target, who holds the permission of the request.      *)
EntitledNoTarget(c) ==
  IF c.op = "cancel" THEN c.who = reqs[c.req].by
                     ELSE c.may /\ c.who # reqs[c.req].by
Entitled(c) ==
  IF c.op = "cancel" THEN c.who = reqs[c.req].by
                     ELSE c.may /\ c.who \notin {reqs[c.req].by, reqs[c.req].target}

(* ErrForbidden, ErrSelf, ErrNotFound or ErrClosed: nothing is decided.    *)
Refuse(w) ==
  /\ call[w].pc = "locked"
  /\ ~(Entitled(call[w]) /\ Pending(call[w].req))
  /\ EndTx(w)
  /\ UNCHANGED <<now, reqs, journal, env>>

Overdue(w) ==
  /\ call[w].pc = "locked"
  /\ Entitled(call[w]) /\ Pending(call[w].req) /\ Expired(call[w].req)
  /\ Decide(w, call[w].req, Lapsed(call[w].req))
  /\ UNCHANGED <<now, reqs, lock, journal, env>>

Accept(w) ==
  LET c == call[w] IN
  /\ c.pc = "locked"
  /\ Entitled(c) /\ Pending(c.req) /\ ~Expired(c.req)
  /\ CASE c.op = "approve" -> Step(w, "check") /\ UNCHANGED staged
       [] c.op = "reject"  -> Decide(w, c.req, Verdict("rejected", c.who))
       [] c.op = "cancel"  -> Decide(w, c.req, Verdict("cancelled", c.who))
  /\ UNCHANGED <<now, reqs, lock, journal, env>>

(* The module's InitiatorCheck: a refusal is committed as failed.          *)
CheckInitiator(w) ==
  LET c == call[w] IN
  /\ c.pc = "check"
  /\ \/ Step(w, "exec") /\ UNCHANGED staged
     \/ Decide(w, c.req, Verdict("failed", c.who))
  /\ UNCHANGED <<now, reqs, lock, journal, env>>

(* The executor under the savepoint succeeded.  If it cancelled the very   *)
(* request it executes, the UPDATE finds no pending row: see DecideFails.  *)
Exec(w) ==
  /\ call[w].pc = "exec"
  /\ Decide(w, call[w].req, Verdict("executed", call[w].who))
  /\ UNCHANGED <<now, reqs, lock, journal, env>>

(* The variant without the savepoint, for comparison.                      *)
ExecRefusedNoSavepoint(w) ==
  LET c == call[w] IN
  /\ c.pc = "exec"
  /\ Decide(w, c.req, Verdict("failed", c.who))
  /\ UNCHANGED <<now, reqs, lock, journal, env>>

(* The executor refused: back to the savepoint, with the cancellations and *)
(* the row locks taken since, and the request has failed.                  *)
ExecRefused(w) ==
  LET c == call[w] IN
  /\ c.pc = "exec"
  /\ lock' = [r \in Requests |-> IF lock[r] = w /\ r # c.req THEN NoOne ELSE lock[r]]
  /\ staged' = [staged EXCEPT ![w] = [Nothing EXCEPT ![c.req] = Verdict("failed", c.who)]]
  /\ Step(w, "commit")
  /\ UNCHANGED <<now, reqs, journal, env>>

DecideFails(w) ==
  /\ call[w].pc = "exec" /\ staged[w][call[w].req] # NoOne
  /\ EndTx(w)
  /\ UNCHANGED <<now, reqs, journal, env>>

----------------------------------------------------------------------------
(* Decisions of the system.                                                *)

(* In a transaction of the module, or in the executor's: every pending     *)
(* request of s, overdue or not, except those under another's lock.        *)
CancelByInitiator(w, s) ==
  LET R == {r \in Takeable(w) : Pending(r) /\ reqs[r].by = s /\ staged[w][r] = NoOne} IN
  /\ call[w].pc \in {"idle", "exec"} /\ Budget
  /\ lock' = [r \in Requests |-> IF r \in R THEN w ELSE lock[r]]
  /\ staged' = [staged EXCEPT ![w] =
       [r \in Requests |-> IF r \in R THEN Verdict("cancelled", System) ELSE staged[w][r]]]
  /\ Step(w, IF call[w].pc = "idle" THEN "commit" ELSE "exec")
  /\ UNCHANGED <<now, reqs, journal>>

(* One batch of the sweep: the sweep reads the clock once, at its start.   *)
ExpireDue(w) ==
  /\ call[w].pc = "idle"
  /\ \E t \in 0..now : \E B \in SUBSET (Due(t) \cap Takeable(w)) :
       /\ BatchOf(B, Due(t) \cap Takeable(w), [r \in Requests |-> reqs[r].expires])
       /\ lock' = [r \in Requests |-> IF r \in B THEN w ELSE lock[r]]
       /\ staged' = [staged EXCEPT ![w] =
            [r \in Requests |-> IF r \in B THEN Lapsed(r) ELSE NoOne]]
  /\ Step(w, "commit")
  /\ UNCHANGED <<now, reqs, journal, env>>

(* Old decisions go in batches; a row under a lock makes the delete wait.  *)
Old(t) == {r \in Requests : reqs[r].status \in Settled /\ reqs[r].at + Retention < t}

PurgeDecided ==
  /\ \E t \in 0..now : \E B \in SUBSET Old(t) :
       /\ BatchOf(B, Old(t), [r \in Requests |-> reqs[r].at])
       /\ \A r \in B : lock[r] = NoOne
       /\ reqs' = [r \in Requests |->
                     IF r \in B THEN [reqs[r] EXCEPT !.status = "purged"] ELSE reqs[r]]
  /\ UNCHANGED <<now, lock, call, staged, journal, env>>

----------------------------------------------------------------------------
(* The end of a transaction.                                               *)

Decided(w) == {r \in Requests : staged[w][r] # NoOne}

Apply(q, d) == [q EXCEPT !.status = d.status, !.decider = d.decider, !.at = d.at]

Commit(w) ==
  /\ call[w].pc = "commit"
  /\ reqs' = [r \in Requests |->
                IF r \in Decided(w) THEN Apply(reqs[r], staged[w][r]) ELSE reqs[r]]
  /\ journal' = [r \in Requests |->
                   IF r \in Decided(w) THEN Append(journal[r], staged[w][r]) ELSE journal[r]]
  /\ EndTx(w)
  /\ UNCHANGED <<now, env>>

(* An error, a panic, a lost connection or the death of the process.       *)
Rollback(w) ==
  /\ call[w].pc # "idle" /\ Budget
  /\ EndTx(w)
  /\ UNCHANGED <<now, reqs, journal>>

----------------------------------------------------------------------------
(* What a worker does on its own once its transaction is open.             *)
Progress(w) ==
  \/ Refuse(w) \/ Overdue(w) \/ Accept(w)
  \/ CheckInitiator(w) \/ Exec(w) \/ ExecRefused(w) \/ DecideFails(w)
  \/ Commit(w)

Next ==
  \/ Tick
  \/ \E r \in Requests, s \in Staff, t \in Staff \cup {NoOne} : Request(r, s, t)
  \/ \E w \in Workers, op \in Ops, s \in Staff, r \in Requests, may \in BOOLEAN :
       LockApproval(w, op, s, r, may)
  \/ \E w \in Workers, s \in Staff : CancelByInitiator(w, s)
  \/ \E w \in Workers : Progress(w) \/ ExpireDue(w) \/ Rollback(w)
  \/ PurgeDecided

(* Open transactions go on and the cleaner's sweep comes back.             *)
Fairness ==
  /\ WF_vars(Tick)
  /\ \A w \in Workers : WF_vars(Progress(w))
  /\ WF_vars(\E w \in Workers : ExpireDue(w))

Spec == Init /\ [][Next]_vars /\ Fairness

----------------------------------------------------------------------------
(* Properties.                                                             *)

(* An action is executed, or refused after its checks, by a person who is  *)
(* neither the one who asked for it nor the one it is about (Approve,      *)
(* Reject: ErrSelf), whatever ran between the check and the commit.        *)
TwoHands ==
  \A r \in Requests : reqs[r].status \in {"executed", "rejected", "failed"} =>
    reqs[r].decider \in Staff \ {reqs[r].by, reqs[r].target}

(* A request is decided at most once: whatever approvals, cancellations,   *)
(* sweeps and failures race for its row, exactly one audit record and one  *)
(* event are committed for it, and they say what the row says (record).    *)
DecidedOnce ==
  \A r \in Requests :
    CASE reqs[r].status \in {"absent", "pending"} -> journal[r] = <<>>
      [] reqs[r].status = "purged" -> Len(journal[r]) = 1
      [] OTHER -> journal[r] = <<[status  |-> reqs[r].status,
                                  decider |-> reqs[r].decider, at |-> reqs[r].at]>>

(* Two transactions never both hold a verdict on the same request, and a   *)
(* verdict not yet committed stands only while its row is still pending    *)
(* and under that transaction's lock: FOR UPDATE and SKIP LOCKED together. *)
OneDecider ==
  \A w \in Workers, r \in Requests :
    staged[w][r] # NoOne => lock[r] = w /\ Pending(r)

(* From the lock to the end of the transaction the row a decision is about *)
(* stays what Approve, Reject and Cancel read: the initiator is checked,   *)
(* the executor runs and the verdict is given on that one reading, and no  *)
(* other decision, cancellation, sweep or purge changes or deletes the row *)
(* in between.                                                             *)
JudgedAsRead ==
  [][\A w \in Workers :
       call[w].req # NoOne /\ call'[w] # Idle =>
         reqs'[call[w].req] = reqs[call[w].req]]_vars

(* A request that expired did so at its deadline, which had come, and      *)
(* nobody is named as its decider.                                         *)
ExpiresAtDeadline ==
  \A r \in Requests : reqs[r].status = "expired" =>
    reqs[r].at = reqs[r].expires /\ reqs[r].decider = System /\ now >= reqs[r].expires

(* A request that failed took nothing else with it: what its executor had  *)
(* cancelled before refusing is undone (sp.Rollback), even though the      *)
(* failure itself commits.                                                 *)
FailedAlone ==
  [][\A r, q \in Requests :
       reqs[r].status = "pending" /\ reqs'[r].status = "failed" /\ q # r =>
         reqs'[q] = reqs[q]]_vars

(* Every request is settled in the end, even if nobody ever answers and    *)
(* whatever transactions that touched it were rolled back.                 *)
EventuallySettled ==
  \A r \in Requests : Pending(r) ~> ~Pending(r)

(* What list.go and approvals.sql say of an overdue row: it can no longer  *)
(* be decided, so what the list shows as expired stays expired.            *)
ShownExpiredStays ==
  [][\A r \in Requests : Effective(r) = "expired" =>
       Effective(r)' \in {"expired", "purged"}]_vars

(* The service implements ApprovalLifecycle.                               *)
rowBar == [r \in Requests |-> [status |-> reqs[r].status, by |-> reqs[r].by,
                               target |-> reqs[r].target, decider |-> reqs[r].decider]]
Lifecycle == INSTANCE ApprovalLifecycle WITH row <- rowBar

(* Seen from outside, each commit settles some pending requests by those   *)
(* entitled to, each purge forgets settled ones, and nothing else changes. *)
ImplementsLifecycle == Lifecycle!Spec
=============================================================================

--------------------------- MODULE StaffApprovals ---------------------------
(***************************************************************************)
(* Managing employees by two persons: the approval service of Approvals    *)
(* with the real module in the place of its environment                    *)
(* (backend/internal/staff: manage.go, actions.go, operator.go).           *)
(*                                                                         *)
(* A transaction loads its actor's session, takes the lock of the owners'  *)
(* guard where an active owner may go, then the accounts it concerns in    *)
(* ascending order of id, the target FOR UPDATE, the actor, the approver   *)
(* and the initiator FOR SHARE; it checks under those locks, writes,       *)
(* cancels the target's own pending requests, and commits.                 *)
(*                                                                         *)
(* A lock statement joins the account with its role, FOR UPDATE or FOR     *)
(* SHARE OF the account only.  When it had to wait, READ COMMITTED reads   *)
(* the account again but keeps the role of the statement's snapshot: a     *)
(* wait is therefore a step of its own (WaitAccount), which remembers it.  *)
(***************************************************************************)
EXTENDS Approvals

CONSTANT
  Starts  \* bound: the roles at the start (NoOne: no account yet), and the
          \* calls that may arrive, each once at most

Roles    == {"owner", "admin", "moderator"}
Asks     == {"role", "reset", "disable", "invite"}
OpCalls  == {"opdisable", "opreset"}  \* the operator's command line
CallType == [op : Ops \cup Asks \cup OpCalls \cup {"sessions", "lockout"}, who : Staff \cup {System},
             target : Staff \cup {NoOne}, to : Roles \cup {NoOne}, req : Requests \cup {NoOne}]
Calls    == UNION {s.calls : s \in Starts}
(* sess counts the times the sessions of the account were revoked.         *)
Account == [status : {"absent", "invited", "active", "disabled"},
            role : Roles \cup {NoOne}, ver : Nat, sess : Nat]

ASSUME StaffAssumption ==
  /\ Staff \subseteq Nat /\ IsFiniteSet(Staff) /\ NoOne \notin Account
  /\ Starts \subseteq [roles : [Staff -> Roles \cup {NoOne}], calls : SUBSET CallType]
  /\ \A c \in Calls : /\ c.op \in OpCalls \cup {"lockout"} <=> c.who = System
                      /\ c.op \notin Ops => c.target \in Staff \ {c.who}
                      /\ c.op \in Asks \cup Ops => c.req \in Requests

VARIABLES
  acct,    \* staff_accounts with staff_roles, as committed
  payload, \* payload[r]: what request r would do
  left,    \* calls that have not arrived
  tx,      \* tx[w]: the transaction of the module on connection w
  seen,    \* seen[w][s]: account s as w read it under its lock on s
  stale,   \* stale[w]: the role in the snapshot of a lock statement that waits
  owners,  \* who holds the advisory lock of the owners' guard
  change   \* change[w][s]: the account s that w has written, not committed

staffVars == <<acct, payload, left, tx, seen, stale, owners, change>>
allVars   == <<vars, staffVars>>

Payload == [kind : Asks, target : Staff, ver : Nat, initVer : Nat,
            to : Roles \cup {NoOne}, elevated : BOOLEAN]
Stages  == {"free", "request", "owners", "accounts", "done"}
Tx      == [stage : Stages, c : Calls \cup {NoOne}, role : Roles \cup {NoOne}, sess : Nat]
Free    == [stage |-> "free", c |-> NoOne, role |-> NoOne, sess |-> 0]
None    == [s \in Staff |-> NoOne]

StaffTypeOK ==
  /\ acct \in [Staff -> Account]
  /\ payload \in [Requests -> Payload \cup {NoOne}]
  /\ left \subseteq Calls
  /\ tx \in [Workers -> Tx]
  /\ seen \in [Workers -> [Staff -> Account \cup {NoOne}]]
  /\ stale \in [Workers -> Roles \cup {NoOne}]
  /\ owners \in Workers \cup {NoOne}
  /\ change \in [Workers -> [Staff -> Account \cup {NoOne}]]

StaffInit ==
  /\ Init
  /\ \E start \in Starts :
       /\ acct = [s \in Staff |->
                    IF start.roles[s] = NoOne
                      THEN [status |-> "absent", role |-> NoOne, ver |-> 0, sess |-> 0]
                      ELSE [status |-> "active", role |-> start.roles[s], ver |-> 1, sess |-> 0]]
       /\ left = start.calls
  /\ payload = [r \in Requests |-> NoOne]
  /\ tx = [w \in Workers |-> Free]
  /\ seen = [w \in Workers |-> None]
  /\ stale = [w \in Workers |-> NoOne]
  /\ owners = NoOne
  /\ change = [w \in Workers |-> None]

----------------------------------------------------------------------------
(* The matrix of permissions, for the actions of this module.  Elevated    *)
(* permissions (grant_elevated, revoke_owner, revoke_admin,                *)
(* reset_elevated) are the owner's, the others the admin's too.            *)

Elevated(role) == role \in {"owner", "admin"}
Permits(role, elevated) == role = "owner" \/ (role = "admin" /\ ~elevated)

(* The permission an operation on an account of role from takes; to is the *)
(* role asked for, if any.                                                 *)
Permission(op, from, to) ==
  CASE op = "invite" -> Elevated(to)
    [] op = "role"   -> Elevated(from) \/ Elevated(to)
    [] op \in {"reset", "disable", "sessions"} -> Elevated(from)

ActiveOwners(a) == {s \in Staff : a[s].status = "active" /\ a[s].role = "owner"}

----------------------------------------------------------------------------
(* What a transaction is about.                                            *)

Op(w)     == tx[w].c.op
Who(w)    == tx[w].c.who
Req(w)    == tx[w].c.req
Kind(w)   == IF Op(w) = "approve" THEN payload[Req(w)].kind ELSE Op(w)
(* The account locked FOR UPDATE.  An invitation locks one only when it is *)
(* executed and brings back a disabled account (existing_id).              *)
Target(w) ==
  CASE Op(w) = "approve" /\ (Kind(w) # "invite" \/ payload[Req(w)].ver # 0) -> payload[Req(w)].target
    [] Op(w) \in {"role", "reset", "disable", "sessions"} \cup OpCalls -> tx[w].c.target
    [] OTHER -> NoOne
Initiator(w) == IF Op(w) = "approve" THEN reqs[Req(w)].by ELSE NoOne

(* The accounts to lock; one that does not exist is passed over.           *)
Parties(w) == {s \in Staff \cap {Who(w), Initiator(w), Target(w)} : acct[s].status # "absent"}
Locked(w)  == {s \in Staff : seen[w][s] # NoOne}
Missing(w) == Parties(w) \ Locked(w)

(* lockOwners comes first on the paths where an active owner may go: not   *)
(* in an invitation, the closing of sessions or the operator's reset.      *)
NeedsOwners(w) == Kind(w) \in {"role", "reset", "disable", "opdisable"}
Begin(w) == IF NeedsOwners(w) THEN "owners" ELSE "accounts"
At(w, stage) == tx' = [tx EXCEPT ![w].stage = stage]

(* lockAccounts goes through the ids in ascending order.                   *)
NextAccountUnsorted(w, s) ==
  s \in Missing(w) /\ (Target(w) \in Missing(w) => s = Target(w))
NextAccount(w, s) == s \in Missing(w) /\ \A q \in Missing(w) : s <= q

(* Who keeps w from locking s: an exclusive lock, or any if w's is one.    *)
BlockersNone(w, s) == {}
Blockers(w, s) == {v \in Workers \ {w} : s \in Locked(v) /\ (s = Target(v) \/ s = Target(w))}

(* The end of the module's transaction.                                    *)
Release(w) ==
  /\ tx' = [tx EXCEPT ![w] = Free]
  /\ seen' = [seen EXCEPT ![w] = None]
  /\ stale' = [stale EXCEPT ![w] = NoOne]
  /\ owners' = IF owners = w THEN NoOne ELSE owners
  /\ change' = [change EXCEPT ![w] = None]

----------------------------------------------------------------------------
(* The start of a call and its locks.                                      *)

(* The session is loaded, with the role it grants, before the transaction  *)
(* begins; the operator has none.                                          *)
Load(w, c) ==
  /\ tx[w].stage = "free" /\ call[w].pc = "idle"
  /\ c.op # "lockout" /\ left' = left \ {c}
  /\ c.who # System => acct[c.who].status = "active"
  /\ c.op \in Asks => reqs[c.req].status = "absent"
  /\ c.op \in Ops => Exists(c.req)
  /\ tx' = [tx EXCEPT ![w] =
       [stage |-> IF c.op \in Ops THEN "request"
                  ELSE IF c.op \in {"role", "reset", "disable", "opdisable"} THEN "owners"
                  ELSE "accounts",
        c |-> c,
        role |-> IF c.who = System THEN NoOne ELSE acct[c.who].role,
        sess |-> IF c.who = System THEN 0 ELSE acct[c.who].sess]]
  /\ UNCHANGED <<vars, acct, payload, seen, stale, owners, change>>

LockRequest(w) ==
  /\ tx[w].stage = "request"
  /\ LockApproval(w, Op(w), Who(w), Req(w), Permits(tx[w].role, payload[Req(w)].elevated))
  /\ UNCHANGED staffVars

TakeOwnersAtOnce(w) ==
  /\ tx[w].stage = "owners"
  /\ owners' = w
  /\ At(w, "accounts")
  /\ UNCHANGED <<vars, acct, payload, left, seen, stale, change>>
TakeOwners(w) ==
  /\ tx[w].stage = "owners" /\ owners = NoOne
  /\ owners' = w
  /\ At(w, "accounts")
  /\ UNCHANGED <<vars, acct, payload, left, seen, stale, change>>

(* The lock statement has to wait: its snapshot keeps the role of now.     *)
WaitAccount(w, s) ==
  /\ tx[w].stage = "accounts" /\ NextAccount(w, s)
  /\ stale[w] = NoOne /\ Blockers(w, s) # {}
  /\ stale' = [stale EXCEPT ![w] = acct[s].role]
  /\ UNCHANGED <<vars, acct, payload, left, tx, seen, owners, change>>

(* It gets the lock: the account is read now, the role maybe before.       *)
LockAccount(w, s) ==
  /\ tx[w].stage = "accounts" /\ NextAccount(w, s)
  /\ Blockers(w, s) = {}
  /\ seen' = [seen EXCEPT ![w][s] =
       IF stale[w] = NoOne THEN acct[s] ELSE [acct[s] EXCEPT !.role = stale[w]]]
  /\ stale' = [stale EXCEPT ![w] = NoOne]
  /\ UNCHANGED <<vars, acct, payload, left, tx, owners, change>>

Ready(w) == tx[w].stage = "accounts" /\ Missing(w) = {}

----------------------------------------------------------------------------
(* The checks under the locks.                                             *)

(* checkActor: the account is active, its role is the session's and the    *)
(* session, read under the lock of its account, was not revoked.           *)
SessionStands(w) == acct[Who(w)].sess = tx[w].sess
ActorOkNoRole(w) ==
  Who(w) # System => seen[w][Who(w)].status = "active" /\ SessionStands(w)
ActorOk(w) ==
  Who(w) # System =>
    /\ seen[w][Who(w)].status = "active"
    /\ seen[w][Who(w)].role = tx[w].role
    /\ SessionStands(w)

(* initiatorValid: nothing was done to the initiator since the request.    *)
InitiatorValidNoVersion(a, p) == a.status = "active" /\ Permits(a.role, p.elevated)
InitiatorValid(a, p) ==
  a.status = "active" /\ a.ver = p.initVer /\ Permits(a.role, p.elevated)

(* ownerGuard: another owner is active as the target goes.                 *)
GuardOk(w) ==
  LET t == seen[w][Target(w)] IN
  t.status = "active" /\ t.role = "owner" => ActiveOwners(acct) \ {Target(w)} # {}

(* Whether the executor of w's request carries it out.                     *)
Executable(w) ==
  LET p == payload[Req(w)]
      t == IF Target(w) = NoOne THEN NoOne ELSE seen[w][Target(w)]
  IN /\ InitiatorValid(seen[w][Initiator(w)], p)
     /\ t # NoOne => t.ver = p.ver
     /\ CASE p.kind = "invite"  -> IF p.ver = 0 THEN acct[p.target].status = "absent"
                                              ELSE t.status = "disabled"
          [] p.kind = "role"    -> p.to # "owner" => GuardOk(w)
          [] p.kind = "reset"   -> GuardOk(w)
          [] p.kind = "disable" -> t.status # "disabled" /\ GuardOk(w)

----------------------------------------------------------------------------
(* What is written to the target.                                          *)

Disabled(a) == [a EXCEPT !.status = "disabled", !.ver = a.ver + 1, !.sess = a.sess + 1]
ResetClears(a) == [a EXCEPT !.status = "invited", !.ver = NoOne, !.sess = a.sess + 1]
Reset(a)    == [a EXCEPT !.status = "invited", !.ver = a.ver + 1, !.sess = a.sess + 1]
WithRole(a, to) == [a EXCEPT !.role = to, !.ver = a.ver + 1]
Invited(to) == [status |-> "invited", role |-> to, ver |-> 1, sess |-> 0]

Executed(p) ==
  LET a == acct[p.target] IN
  CASE p.kind = "invite"  -> IF p.ver = 0 THEN Invited(p.to) ELSE [Reset(a) EXCEPT !.role = p.to]
    [] p.kind = "role"    -> WithRole(a, p.to)
    [] p.kind = "reset"   -> Reset(a)
    [] p.kind = "disable" -> Disabled(a)

Write(w, s, a) == change' = [change EXCEPT ![w][s] = a]

----------------------------------------------------------------------------
(* Approving: the service's steps around the module's executor.            *)

(* Approve, Reject and Cancel that end or go on without the module.        *)
RefuseCall(w) == Refuse(w) /\ Release(w) /\ UNCHANGED <<acct, payload, left>>
LapseCall(w)  == Overdue(w) /\ UNCHANGED staffVars
AcceptCall(w) == Accept(w) /\ UNCHANGED staffVars

(* The preliminary check of the initiator, without a lock.                 *)
CheckCall(w) ==
  LET p == payload[Req(w)] IN
  /\ CheckInitiator(w)
  /\ IF InitiatorValid(acct[reqs[Req(w)].by], p)
       THEN call'[w].pc = "exec" /\ At(w, Begin(w))
       ELSE call'[w].pc = "commit" /\ UNCHANGED tx
  /\ UNCHANGED <<acct, payload, left, seen, stale, owners, change>>

(* The executor checks the approver first: a failure is an error, not a    *)
(* refusal, and everything is rolled back (Abort).                         *)
ExecWork(w) ==
  LET p == payload[Req(w)] IN
  /\ call[w].pc = "exec" /\ Ready(w) /\ ActorOk(w) /\ Executable(w)
  /\ p.kind = "invite" /\ p.ver = 0 => \A v \in Workers : change[v][p.target] = NoOne
  /\ Write(w, p.target, Executed(p))
  /\ At(w, "done")
  /\ IF p.kind = "invite" /\ p.ver = 0
       THEN UNCHANGED vars
       ELSE CancelByInitiator(w, p.target)
  /\ UNCHANGED <<acct, payload, left, seen, stale, owners>>

(* The refusal rolls back to the savepoint: the locks taken since go too.  *)
ExecRefusal(w) ==
  /\ call[w].pc = "exec" /\ Ready(w) /\ ActorOk(w) /\ ~Executable(w)
  /\ ExecRefused(w)
  /\ At(w, "done")
  /\ seen' = [seen EXCEPT ![w] = None]
  /\ owners' = IF owners = w THEN NoOne ELSE owners
  /\ UNCHANGED <<acct, payload, left, stale, change>>

ExecDone(w) == tx[w].stage = "done" /\ Exec(w) /\ UNCHANGED staffVars

(* An error, or checkActor's within the executor: nothing remains.  (A     *)
(* sweep that fails is Approvals' matter: here only calls are aborted.)    *)
Abort(w) ==
  /\ tx[w].stage # "free"
  /\ Rollback(w) \/ (call[w].pc = "idle" /\ UNCHANGED vars)
  /\ Release(w)
  /\ UNCHANGED <<acct, payload, left>>

CommitCall(w) ==
  /\ Commit(w)
  /\ acct' = [s \in Staff |-> IF change[w][s] = NoOne THEN acct[s] ELSE change[w][s]]
  /\ Release(w)
  /\ UNCHANGED <<payload, left>>

----------------------------------------------------------------------------
(* Calls that ask for an approval or act at once.                          *)

(* The target as an asking or acting transaction sees it; an invitation    *)
(* reads it without a lock (ManageFindByEmail).                            *)
Seen(w) == IF Op(w) = "invite" THEN acct[tx[w].c.target] ELSE seen[w][Target(w)]

(* The checks of Invite, ChangeRole, Disable and ResetAccess that lead to  *)
(* a request.  Cities are left out: the same role is no change.            *)
Askable(w) ==
  LET t == Seen(w) IN
  /\ ActorOk(w) /\ t # NoOne
  /\ Permits(tx[w].role, Permission(Op(w), t.role, tx[w].c.to))
  /\ CASE Op(w) = "invite"  -> t.status \in {"absent", "disabled"}
       [] Op(w) = "role"    -> t.status # "disabled" /\ t.role # tx[w].c.to
                               /\ (tx[w].c.to # "owner" => GuardOk(w))
       [] Op(w) = "reset"   -> t.status # "disabled" /\ GuardOk(w)
       [] Op(w) = "disable" -> t.status # "disabled" /\ t.role = "owner" /\ GuardOk(w)

(* The request and its commit.  Its row names the target unless the        *)
(* invitation is for an account yet to be created.                         *)
Ask(w) ==
  LET c == tx[w].c  t == Seen(w) IN
  /\ Ready(w) /\ call[w].pc = "idle" /\ Op(w) \in Asks /\ Askable(w)
  /\ Request(c.req, c.who, IF t.status = "absent" THEN NoOne ELSE c.target)
  /\ payload' = [payload EXCEPT ![c.req] =
       [kind |-> c.op, target |-> c.target, ver |-> t.ver, initVer |-> seen[w][c.who].ver,
        to |-> c.to, elevated |-> Permission(c.op, t.role, c.to)]]
  /\ Release(w)
  /\ UNCHANGED <<acct, left>>

(* Disabling an admin or a moderator takes one person; the operator        *)
(* disables under the guard and resets without it.                         *)
Direct(w) ==
  LET t == Seen(w) IN
  /\ ActorOk(w) /\ t # NoOne
  /\ CASE Op(w) = "disable"   -> /\ Permits(tx[w].role, Permission("disable", t.role, NoOne))
                                 /\ t.role # "owner" /\ t.status # "disabled"
       [] Op(w) = "opdisable" -> t.status # "disabled" /\ GuardOk(w)
       [] Op(w) = "opreset"   -> TRUE
       [] OTHER -> FALSE

ActDirectly(w) ==
  LET a == acct[Target(w)] IN
  /\ Ready(w) /\ call[w].pc = "idle"
  /\ Op(w) \in {"disable"} \cup OpCalls /\ Direct(w)
  /\ Write(w, Target(w), IF Op(w) = "opreset" THEN Reset(a) ELSE Disabled(a))
  /\ CancelByInitiator(w, Target(w))
  /\ At(w, "done")
  /\ UNCHANGED <<acct, payload, left, seen, stale, owners>>

(* RevokeAccountSessions: the sessions of an owner or an admin are closed  *)
(* only by who may grant those roles.                                      *)
MayRevoke(w) ==
  LET t == Seen(w) IN
  ActorOk(w) /\ t # NoOne /\ Permits(tx[w].role, Permission("sessions", t.role, NoOne))

RevokeSessions(w) ==
  /\ Ready(w) /\ call[w].pc = "idle" /\ Op(w) = "sessions" /\ MayRevoke(w)
  /\ acct' = [acct EXCEPT ![Target(w)].sess = @ + 1]
  /\ Release(w)
  /\ UNCHANGED <<vars, payload, left>>

(* Every other call ends without effect.                                   *)
Decline(w) ==
  /\ Ready(w) /\ call[w].pc = "idle" /\ Op(w) \notin Ops
  /\ ~(Op(w) \in Asks /\ Askable(w) /\ now + TTL <= MaxTime)   \* bound: see Request
  /\ ~(Op(w) \in {"disable"} \cup OpCalls /\ Direct(w))
  /\ ~(Op(w) = "sessions" /\ MayRevoke(w))
  /\ Release(w)
  /\ UNCHANGED <<vars, acct, payload, left>>

----------------------------------------------------------------------------
(* What happens to accounts outside this module, under the account's lock. *)

Unlocked(s) == \A w \in Workers : s \notin Locked(w)

(* RecoveryAck: an invited employee has set up the second factor.          *)
Activate(s) ==
  /\ acct[s].status = "invited" /\ Unlocked(s)
  /\ acct' = [acct EXCEPT ![s].status = "active"]
  /\ UNCHANGED <<vars, payload, left, tx, seen, stale, owners, change>>

(* lockOut: five failures of the second factor; the sessions are revoked   *)
(* and the version grows, so whatever the account asked for is void.       *)
LockOut(s) ==
  /\ acct[s].status = "active" /\ Unlocked(s)
  /\ \E c \in left : c.op = "lockout" /\ c.target = s /\ left' = left \ {c}
  /\ acct' = [acct EXCEPT ![s].ver = @ + 1, ![s].sess = @ + 1]
  /\ UNCHANGED <<vars, payload, tx, seen, stale, owners, change>>

----------------------------------------------------------------------------
(* checkActor failed in the executor: an error, the request stays pending. *)
ExecError(w) ==
  /\ call[w].pc = "exec" /\ Ready(w) /\ ~ActorOk(w)
  /\ Abort(w)

Approving(w) ==
  \/ LockRequest(w) \/ RefuseCall(w) \/ LapseCall(w) \/ AcceptCall(w) \/ CheckCall(w)
  \/ ExecWork(w) \/ ExecRefusal(w) \/ ExecDone(w) \/ ExecError(w) \/ CommitCall(w)

Asking(w) == Ask(w) \/ ActDirectly(w) \/ RevokeSessions(w) \/ Decline(w)

Locking(w) ==
  \/ TakeOwners(w)
  \/ \E s \in Staff : WaitAccount(w, s) \/ LockAccount(w, s)

WorkerStep(w) == Locking(w) \/ Approving(w) \/ Asking(w)

(* The sweep runs on a connection that serves no call.                     *)
Sweep(w) == tx[w].stage = "free" /\ ExpireDue(w) /\ UNCHANGED staffVars

StaffNext ==
  \/ \E w \in Workers, c \in left : Load(w, c)
  \/ \E w \in Workers : WorkerStep(w) \/ Sweep(w) \/ Abort(w)
  \/ \E s \in Staff : Activate(s) \/ LockOut(s)
  \/ Tick /\ UNCHANGED staffVars

(* A transaction that is not blocked goes on.                              *)
StaffFairness == \A w \in Workers : WF_allVars(WorkerStep(w))

StaffSpec == StaffInit /\ [][StaffNext]_allVars /\ StaffFairness

----------------------------------------------------------------------------
(* Properties.                                                             *)

(* The composition uses the service only as Approvals says: what is shown  *)
(* of Approvals with an arbitrary module holds with this one.              *)
ServiceSteps == [][Next]_vars

Executes(r) == Pending(r) /\ reqs'[r].status = "executed"

(* A request is executed for what it was asked for: at the commit its      *)
(* initiator is active, untouched since the request and still allowed, and *)
(* the target is untouched since the request (execLocks, lockedTarget),    *)
(* although the first was checked and the second locked only later.        *)
ExecutedAsAsked ==
  [][\A r \in Requests : Executes(r) =>
       /\ InitiatorValid(acct[reqs[r].by], payload[r])
       /\ acct[reqs[r].by].ver = payload[r].initVer
       /\ acct[payload[r].target].ver = payload[r].ver]_allVars

ApproverAllowed(r) ==
  LET a == acct[reqs'[r].decider] IN
  a.status = "active" /\ Permits(a.role, payload[r].elevated)

(* As the execution commits, the approver is active in a role that holds   *)
(* the permission, whatever became of them since the session was loaded:   *)
(* changes of role, resets of access and the disabling of owners.          *)
ApproverHoldsPermission ==
  [][\A r \in Requests : Executes(r) /\ payload[r].kind # "invite" => ApproverAllowed(r)]_allVars

(* What checkActor and ManageShareAccount say of every action: under FOR   *)
(* SHARE the answer about the approver's role holds until the commit.      *)
ApproverHoldsToCommit ==
  [][\A r \in Requests : Executes(r) => ApproverAllowed(r)]_allVars

(* The change and the verdict are one: executed comes with the change, and *)
(* a request that failed changed no account (the savepoint).               *)
EffectWithVerdict ==
  [][\A r \in Requests :
       /\ Executes(r) => acct'[payload[r].target] = Executed(payload[r])
       /\ Pending(r) /\ reqs'[r].status = "failed" => acct' = acct]_allVars

(* Two persons leave two owners: an action approved under the permission   *)
(* for owners that takes an active owner away leaves at least its initiator*)
(* and its approver, even while the operator resets accounts without the   *)
(* guard.                                                                  *)
ApprovedLeavesTwoOwners ==
  [][\A r \in Requests :
       Executes(r) /\ payload[r].elevated /\ payload[r].target \in ActiveOwners(acct) \ ActiveOwners(acct') =>
         Cardinality(ActiveOwners(acct')) >= 2]_allVars

(* The guard of the last owner: no commit but that of the operator's reset *)
(* leaves the system without an active owner (ownerGuard counts under the  *)
(* owners' lock, which all such paths are said to take).                   *)
GuardKeepsOwner ==
  [][\A w \in Workers :
       change[w] # None /\ change'[w] = None /\ acct' # acct /\ Op(w) # "opreset" =>
         ActiveOwners(acct) = {} \/ ActiveOwners(acct') # {}]_allVars

(* Every call that arrived is answered: its transaction ends, so nobody     *)
(* waits for everybody (owners' lock, then accounts by id; cancellations    *)
(* skip locked rows).                                                      *)
EveryCallEnds == \A w \in Workers : tx[w].stage # "free" ~> tx[w].stage = "free"
=============================================================================

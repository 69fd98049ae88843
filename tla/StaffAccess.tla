----------------------------- MODULE StaffAccess -----------------------------
(***************************************************************************)
(* How one employee gets in: password, second factor, lock-out, the first  *)
(* set-up after an invitation, and the rotation of the keys their secrets  *)
(* are sealed with (backend/internal/staff/internal/app: login.go,         *)
(* factor.go, session.go, setup.go, access.go, invite.go, operator.go, and  *)
(* cmd/admin-api for the operator); the statements are in StaffQueries.    *)
(*                                                                         *)
(* Every transaction takes the lock of the account first and reads the     *)
(* clock after it, so that it is one step; what a request does before is a *)
(* step of its own: LoadStaff, the comparison of a password or of an       *)
(* invitation's code, the lists of rekey.                                  *)
(*                                                                         *)
(* A password, a secret, a generation of recovery codes and a code of an   *)
(* invitation are numbers: the count of those made so far.  The unit of    *)
(* time is a step of TOTP.  last_seen_at and ip of a session, which only   *)
(* decide Reauth, are left out: a request may come from another network.   *)
(***************************************************************************)
EXTENDS StaffQueries

CONSTANTS
  Tabs,       \* bound: requests of the employee at a time
  Instances,  \* processes of admin-api
  MFAPendingTTL, SessionTTL, InviteTTL, LockDuration, LockNotifyEvery, ResendPause,
  MaxFactorFailures, MaxInviteSends,
  Plans       \* bounds of a behaviour: start, calls, time, instances, rotation of keys;
              \* and the ring the operator has

SessionOps == {"verify", "unlock", "password", "regenerate", "others", "logout", "setup", "confirm", "ack"}
OtherOps   == {"login", "accept", "resendself", "resend", "reset", "disable"}
Ops        == SessionOps \cup OtherOps

ASSUME AccessAssumption ==
  /\ Old # New
  /\ \A d \in {MFAPendingTTL, SessionTTL, InviteTTL, LockDuration, LockNotifyEvery, ResendPause,
               MaxFactorFailures, MaxInviteSends, CodesIssued} : d \in Nat \ {0}
  /\ Plans \subseteq [start : {"invited", "active"}, calls : [Ops -> Nat], time : Nat,
                     instances : SUBSET Instances, operator : Instances,
                     rotation : {"none", "careful", "lost"}]

VARIABLES
  plan,     \* the bounds of this behaviour, chosen at the start
  now,
  acct,     \* the row of staff_accounts
  sess,     \* sess[n]: the n-th row of staff_sessions
  mfa,      \* the row of staff_mfa
  codes,    \* staff_recovery_codes: one generation, the numbers not used
  invite,   \* the last row of staff_invites
  made,     \* how many passwords, secrets, generations, codes, invitations there were
  req,      \* req[t]: the request of tab t, between its first reads and its transaction
  left,     \* calls that have not arrived
  ring,     \* ring[i]: the keys of instance i, the current one first
  rekey,    \* the operator's rekey
  used,     \* the factors accepted, in order
  wrong,    \* when the codes refused since the counter was last reset were refused
  notices,  \* when letters staff.locked were sent
  letters   \* when letters with the last invitation were sent

access == <<acct, sess, mfa, codes, invite, made, used, wrong, notices, letters>>
vars   == <<plan, now, access, req, left, ring, rekey>>

Keys    == {Old, New}
Rings   == {<<Old>>, <<Old, New>>, <<New, Old>>, <<New>>}
Has(r, k) == \E n \in DOMAIN r : r[n] = k
Idle    == [op |-> "idle", sid |-> 0, known |-> 0, at |-> CHOOSE i \in Instances : TRUE]
NoRekey == [pc |-> "idle", ring |-> <<New>>, row |-> 0, settled |-> FALSE]
Factor  == [by : {"totp", "recovery"}, of : Nat, n : Nat]

TypeOK ==
  /\ plan \in Plans /\ now \in Nat
  /\ acct \in [status : {"invited", "active", "disabled"}, pw : 0..made.pw, failures : Nat,
               locked : Nat, notified : Nat \cup {Never}]
  /\ sess \in Seq([stage : {"mfa_pending", "setup", "active"}, expires : Nat, pw : Nat, secret : Nat]
                  \cup {Revoked})
  /\ mfa \in [secret : 1..made.secret, key : Keys, confirmed : BOOLEAN, step : Nat] \cup {NoMFA}
  /\ codes \in [gen : 1..made.gen, key : Keys, unused : SUBSET (1..CodesIssued)] \cup {NoCodes}
  /\ invite \in [row : 1..made.row, live : BOOLEAN, code : 1..made.code, key : Keys, expires : Nat,
                 created : Nat, sent : Nat, sends : 1..MaxInviteSends]
  /\ made \in [pw : Nat, secret : Nat, gen : Nat, code : Nat, row : Nat]
  /\ req \in [Tabs -> [op : Ops \cup {"idle"}, sid : Nat, known : Nat, at : Instances]]
  /\ \A t \in Tabs : req[t].sid <= Len(sess)
  /\ left \in [Ops -> Nat] /\ ring \in [Instances -> Rings]
  /\ rekey \in [pc : {"idle", "mfa", "invites", "invite", "count", "clear"}, ring : Rings, row : Nat,
                settled : BOOLEAN]
  /\ used \in Seq(Factor) /\ wrong \in Seq(Nat) /\ notices \in Seq(Nat) /\ letters \in Seq(Nat)

(* A new employee is invited (createInvited); an employee at work has one   *)
(* session.  The operator's machine may have kept a ring that is over.      *)
Sealed == IF plan.operator \in plan.instances THEN Old ELSE New
Init ==
  /\ plan \in Plans /\ now = 1 /\ left = plan.calls
  /\ acct = IF plan.start = "active" THEN ActivateAccount(SetPassword(InsertInvitedAccount, 1))
            ELSE InsertInvitedAccount
  /\ sess = IF plan.start = "active" THEN <<Session("active", 1 + SessionTTL, 1, 1)>> ELSE <<>>
  /\ mfa = IF plan.start = "active" THEN ConfirmMFA(UpsertPendingMFA(1, Sealed), 0) ELSE NoMFA
  /\ codes = IF plan.start = "active" THEN InsertRecoveryCodes(1, Sealed) ELSE NoCodes
  /\ invite = [InsertInvite(1, 1, Sealed, 1, InviteTTL) EXCEPT !.live = plan.start = "invited"]
  /\ made = [pw |-> 1, secret |-> 1, gen |-> 1, code |-> 1, row |-> 1]
  /\ req = [t \in Tabs |-> Idle] /\ rekey = NoRekey
  /\ ring = [i \in Instances |-> IF i \in plan.instances THEN <<Sealed>> ELSE <<Old>>]
  /\ used = <<>> /\ wrong = <<>> /\ notices = <<>> /\ letters = <<1>>

-----------------------------------------------------------------------------
Locked     == now < acct.locked
Live(n)    == n \in DOMAIN sess /\ now < sess[n].expires
Current(i) == ring[i][1]
ReplaceSession(old, new) == Append(RevokeOnly(sess, {old}), new)

Call(op) == left[op] > 0 /\ left' = [left EXCEPT ![op] = @ - 1]
Open(t, r) == req[t] = Idle /\ req' = [req EXCEPT ![t] = r] /\ Call(r.op)
Close(t) == req' = [req EXCEPT ![t] = Idle]
(* A transaction of a request: LockAccount first, so nothing comes between. *)
Alone == UNCHANGED <<plan, now, left, ring, rekey>>

Tick ==
  /\ now < plan.time /\ now' = now + 1
  /\ UNCHANGED <<plan, access, req, left, ring, rekey>>

-----------------------------------------------------------------------------
(* LoadStaff and the stage each operation wants: unlock a session in       *)
(* Reauth, every other operation of an active session one that is not.     *)
Wants(op) == CASE op = "verify" -> {"mfa_pending"}
               [] op \in {"unlock", "password", "regenerate", "others"} -> {"active"}
               [] op \in {"setup", "confirm", "ack"} -> {"setup"}
               [] op = "logout" -> {"mfa_pending", "active", "setup"}
Loaded(n) == Live(n) /\ acct.status # "disabled" /\ ~Locked
Load(t, op, n, i) ==
  /\ Loaded(n) /\ sess[n].stage \in Wants(op)
  /\ Open(t, [op |-> op, sid |-> n, known |-> 0, at |-> i])
  /\ UNCHANGED <<plan, now, access, ring, rekey>>
Expire(n) ==
  /\ n \in DOMAIN sess /\ sess[n] # Revoked /\ ~Live(n)
  /\ sess' = RevokeOnly(sess, {n})
  /\ UNCHANGED <<plan, now, acct, mfa, codes, invite, made, used, wrong, notices, letters, req, left, ring, rekey>>

(* lockLiveSession and lockSetup: the session of the request again, under  *)
(* the lock of the account.  A refusal writes nothing.                     *)
LiveSession(n) == Live(n) /\ acct.status = "active" /\ ~Locked
SetupSession(n) == Live(n) /\ acct.status = "invited"
Refused(t) ==
  /\ \/ req[t].op \in {"verify", "unlock", "password", "regenerate", "others"} /\ ~LiveSession(req[t].sid)
     \/ req[t].op \in {"setup", "confirm", "ack"} /\ ~SetupSession(req[t].sid)
  /\ Close(t) /\ UNCHANGED access /\ Alone

-----------------------------------------------------------------------------
(* checkFactor.  What is typed: a code of the secret in the window of the  *)
(* clock, a recovery code of the present generation, or anything else.     *)
Anything == [by |-> "totp", of |-> 0, n |-> 0]
Typed == {[by |-> "totp", of |-> mfa.secret, n |-> now + d] : d \in -1..1}
         \cup {[by |-> "recovery", of |-> codes.gen, n |-> c] : c \in 1..CodesIssued} \cup {Anything}
VerifyTOTPAgain(f) == f.of = mfa.secret /\ f.n >= mfa.step
VerifyTOTP(f) == f.of = mfa.secret /\ f.n > mfa.step
Unreadable(i, f) == f.by = "totp" /\ mfa.confirmed /\ ~Has(ring[i], mfa.key)
Accepts(i, f) ==
  /\ mfa.confirmed
  /\ IF f.by = "totp" THEN VerifyTOTP(f) /\ f.of # 0
     ELSE \E c \in LockUnusedRecoveryCodes(codes) : c.gen = f.of /\ c.n = f.n /\ Has(ring[i], c.key)
Spend(f) ==
  /\ mfa' = IF f.by = "totp" THEN SetMFAStep(mfa, f.n) ELSE mfa
  /\ codes' = IF f.by = "totp" THEN codes ELSE UseRecoveryCode(codes, f.n)
  /\ used' = Append(used, f)
  /\ wrong' = <<>>

(* recordFailure and lockOut.                                              *)
ReachesLate(n) == n > MaxFactorFailures
Reaches(n) == n >= MaxFactorFailures
Notifies == acct.notified = Never \/ now - acct.notified >= LockNotifyEvery
LocksOut ==
  /\ acct' = LockOut(AddFactorFailure(acct), now + LockDuration, IF Notifies THEN now ELSE Never)
  /\ sess' = RevokeAll(sess)
  /\ notices' = IF Notifies THEN Append(notices, now) ELSE notices
RecordFailure ==
  /\ wrong' = Append(wrong, now)
  /\ IF Reaches(acct.failures + 1) /\ ~Locked THEN LocksOut
     ELSE acct' = AddFactorFailure(acct) /\ UNCHANGED <<sess, notices>>
  /\ UNCHANGED <<mfa, codes, used>>

(* withFactor: the wrong current password counts like a wrong factor.      *)
WithFactor(t, f) ==
  /\ req[t].op \in {"verify", "unlock", "password", "regenerate"} /\ LiveSession(req[t].sid)
  /\ req[t].op = "regenerate" => f.by = "totp"
  /\ Close(t) /\ Alone /\ UNCHANGED <<invite, letters>>
Fails(t, f) ==
  /\ WithFactor(t, f)
  /\ \/ req[t].op = "password" /\ f = Anything
     \/ ~Unreadable(req[t].at, f) /\ ~Accepts(req[t].at, f)
  /\ RecordFailure /\ UNCHANGED made
Breaks(t, f) ==
  /\ WithFactor(t, f) /\ Unreadable(req[t].at, f)
  /\ UNCHANGED <<acct, sess, mfa, codes, made, used, wrong, notices>>
Succeeds(t, f) ==
  /\ WithFactor(t, f) /\ ~Unreadable(req[t].at, f) /\ Accepts(req[t].at, f)
  /\ UNCHANGED notices

PassFactor(t, f) ==
  /\ req[t].op \in {"verify", "unlock"} /\ Succeeds(t, f) /\ Spend(f)
  /\ sess' = ReplaceSession(req[t].sid,
               Session("active", IF req[t].op = "unlock" THEN sess[req[t].sid].expires ELSE now + SessionTTL,
                       sess[req[t].sid].pw, mfa.secret))
  /\ acct' = FactorSucceeded(acct)
  /\ UNCHANGED made

ChangePassword(t, f) ==
  /\ req[t].op = "password" /\ Succeeds(t, f) /\ Spend(f)
  /\ made' = [made EXCEPT !.pw = @ + 1]
  /\ acct' = SetPassword(FactorSucceeded(acct), made'.pw)
  /\ sess' = [RevokeOtherSessions(sess, req[t].sid, now) EXCEPT ![req[t].sid].pw = made'.pw]

IssueRecoveryCodes(i) ==
  /\ made' = [made EXCEPT !.gen = @ + 1]
  /\ codes' = InsertRecoveryCodes(made'.gen, Current(i))
RegenerateRecovery(t, f) ==
  /\ req[t].op = "regenerate" /\ Succeeds(t, f)
  /\ mfa' = SetMFAStep(mfa, f.n) /\ used' = Append(used, f) /\ wrong' = <<>>
  /\ IssueRecoveryCodes(req[t].at)
  /\ acct' = FactorSucceeded(acct)
  /\ UNCHANGED sess

(* RevokeOtherSessions, RevokeMySession; Logout takes no lock.             *)
RevokesMine(t, S) ==
  /\ req[t].op = "others" /\ LiveSession(req[t].sid) /\ sess' = S
  /\ Close(t) /\ Alone /\ UNCHANGED <<acct, mfa, codes, invite, made, used, wrong, notices, letters>>
RevokeMySession(t, n) == RevokesMine(t, RevokeOwnSession(sess, n, now))
RevokeOthers(t) == RevokesMine(t, RevokeOtherSessions(sess, req[t].sid, now))
Logout(t) ==
  /\ req[t].op = "logout"
  /\ sess' = RevokeOnly(sess, {req[t].sid})
  /\ Close(t) /\ Alone /\ UNCHANGED <<acct, mfa, codes, invite, made, used, wrong, notices, letters>>

-----------------------------------------------------------------------------
(* Login: the password is compared without a lock; old is the session of   *)
(* the request's cookie, if it has one.                                    *)
Login(t, old, i) ==
  /\ old # 0 => Loaded(old)
  /\ LET a == GetLoginAccount(acct, mfa, now) IN
       a.open /\ a.mfa /\ Open(t, [op |-> "login", sid |-> old, known |-> a.pw, at |-> i])
  /\ UNCHANGED <<plan, now, access, ring, rekey>>
UsableStillAnyHash(pw) == acct.status = "active" /\ ~Locked /\ acct.pw # 0
StillUsable(pw) == acct.status = "active" /\ ~Locked /\ acct.pw = pw
LoginStale(t) ==
  /\ req[t].op = "login" /\ ~StillUsable(req[t].known)
  /\ Close(t) /\ Alone /\ UNCHANGED access
LoginTx(t) ==
  /\ req[t].op = "login" /\ StillUsable(req[t].known)
  /\ sess' = ReplaceSession(req[t].sid, Session("mfa_pending", now + MFAPendingTTL, req[t].known, 0))
  /\ Close(t) /\ Alone /\ UNCHANGED <<acct, mfa, codes, invite, made, used, wrong, notices, letters>>

(* The first set-up: a secret, its confirmation, the recovery codes seen.  *)
SetUp(t, op) == req[t].op = op /\ SetupSession(req[t].sid) /\ Close(t) /\ Alone /\ UNCHANGED <<notices, letters>>
MFASetup(t) ==
  /\ SetUp(t, "setup") /\ \A m \in LockMFA(mfa) : ~m.confirmed
  /\ made' = [made EXCEPT !.secret = @ + 1]
  /\ mfa' = UpsertPendingMFA(made'.secret, Current(req[t].at))
  /\ UNCHANGED <<acct, sess, codes, invite, used, wrong>>
MFAConfirm(t, f) ==
  /\ SetUp(t, "confirm") /\ \E m \in LockMFA(mfa) : ~m.confirmed /\ Has(ring[req[t].at], m.key)
  /\ f.by = "totp" /\ VerifyTOTP(f)
  /\ mfa' = ConfirmMFA(mfa, f.n)
  /\ used' = Append(used, f)
  /\ IssueRecoveryCodes(req[t].at)
  /\ UNCHANGED <<acct, sess, invite, wrong>>
RecoveryAck(t) ==
  /\ SetUp(t, "ack") /\ mfa.confirmed /\ LockLiveInvite(invite) # {}
  /\ invite' = ConsumeInvite(invite)
  /\ acct' = ActivateAccount(acct)
  /\ wrong' = <<>>
  /\ sess' = ReplaceSession(req[t].sid,
               Session("active", sess[req[t].sid].expires, sess[req[t].sid].pw, mfa.secret))
  /\ UNCHANGED <<mfa, codes, made, used>>
SetUpFails(t) ==
  /\ \/ SetUp(t, "setup") /\ mfa.confirmed
     \/ SetUp(t, "confirm")
     \/ SetUp(t, "ack") /\ ~(mfa.confirmed /\ invite.live)
  /\ UNCHANGED <<acct, sess, mfa, codes, invite, made, used, wrong>>

-----------------------------------------------------------------------------
(* Invitations.  The code is compared without locks, and again under them. *)
Acceptable(i, c) ==
  \E v \in GetInviteCandidate(acct, invite) : now < v.expires /\ Has(ring[i], v.key) /\ v.code = c
Accept(t, i) ==
  /\ Acceptable(i, invite.code)
  /\ Open(t, [op |-> "accept", sid |-> 0, known |-> invite.code, at |-> i])
  /\ UNCHANGED <<plan, now, access, ring, rekey>>
AcceptFails(t) ==
  /\ req[t].op = "accept" /\ ~Acceptable(req[t].at, req[t].known)
  /\ Close(t) /\ Alone /\ UNCHANGED access
AcceptInvite(t) ==
  /\ req[t].op = "accept" /\ Acceptable(req[t].at, req[t].known)
  /\ made' = [made EXCEPT !.pw = @ + 1]
  /\ acct' = AcceptInvitePassword(acct, made'.pw)
  /\ sess' = Append(RevokeAll(sess), Session("setup", now + SessionTTL, made'.pw, 0))
  /\ mfa' = NoMFA /\ codes' = NoCodes /\ wrong' = <<>>
  /\ Close(t) /\ Alone /\ UNCHANGED <<invite, used, notices, letters>>

(* ResendInviteSelf: the same code again, a new one when it is unreadable. *)
SelfResendable ==
  \E v \in GetInviteCandidate(acct, invite) :
    now < v.expires /\ now - v.sent >= ResendPause /\ v.sends < MaxInviteSends
SelfResend(t, i) ==
  /\ SelfResendable
  /\ Open(t, [op |-> "resendself", sid |-> 0, known |-> 0, at |-> i])
  /\ UNCHANGED <<plan, now, access, ring, rekey>>
HealInviteCode(i) ==
  IF Has(ring[i], invite.key) THEN UNCHANGED made /\ invite' = MarkInviteResent(invite, now)
  ELSE /\ made' = [made EXCEPT !.code = @ + 1]
       /\ invite' = MarkInviteResent(RekeyInvite(invite, made'.code, Current(i)), now)
StillResendableUnchecked == acct.status = "invited" /\ LockLiveInvite(invite) # {} /\ invite.sends < MaxInviteSends
StillResendable == LockLiveInvite(invite) # {} /\ SelfResendable
ResendInviteSelf(t) ==
  /\ req[t].op = "resendself" /\ Close(t) /\ Alone
  /\ IF StillResendable THEN HealInviteCode(req[t].at) /\ letters' = Append(letters, now)
     ELSE UNCHANGED <<invite, letters, made>>
  /\ UNCHANGED <<acct, sess, mfa, codes, used, wrong, notices>>

IssueInvite(k) ==
  /\ made' = [made EXCEPT !.code = @ + 1, !.row = @ + 1]
  /\ invite' = InsertInvite(made'.row, made'.code, k, now, InviteTTL)
  /\ letters' = <<now>>
(* checkKeys: a command whose ring has none of the keys in use does not     *)
(* write, unless the operator says that they are lost.                      *)
CheckKeysWarnsOnly(i) == TRUE
CheckKeys(i) ==
  LET stored == ListStoredKeyIDs(mfa, codes, invite) IN
  stored = {} \/ (\E k \in stored : Has(ring[i], k)) \/ plan.rotation = "lost"

(* ResendInvite of an administrator, with a pause, or of the operator.     *)
Resends(i) ==
  /\ acct.status = "invited" /\ Call("resend") /\ IssueInvite(Current(i))
  /\ UNCHANGED <<plan, now, acct, sess, mfa, codes, used, wrong, notices, req, ring, rekey>>
ResendInvite(i) == now - GetLastInvite(invite) >= ResendPause /\ Resends(i)
OperatorInviteResend == CheckKeys(plan.operator) /\ Resends(plan.operator)
ResetAccess(i) ==
  /\ Call("reset")
  /\ acct' = ManageResetAccess(acct)
  /\ sess' = RevokeAll(sess) /\ mfa' = NoMFA /\ codes' = NoCodes /\ wrong' = <<>>
  /\ IssueInvite(Current(i))
  /\ UNCHANGED <<plan, now, used, notices, req, ring, rekey>>
OperatorResetAccess == CheckKeys(plan.operator) /\ ResetAccess(plan.operator)
Disable ==
  /\ acct.status # "disabled" /\ Call("disable")
  /\ acct' = ManageDisable(acct)
  /\ sess' = RevokeAll(sess)
  /\ invite' = RevokeLiveInvite(invite)
  /\ UNCHANGED <<plan, now, mfa, codes, made, used, wrong, notices, letters, req, ring, rekey>>

-----------------------------------------------------------------------------
(* Rotation: the new key last in every ring, then first, then alone; the   *)
(* last step of a careful operator waits for a rekey begun when every      *)
(* instance had the new key first, and that found nothing left.  A process *)
(* is replaced when its requests have ended.                               *)
Deploy(i) ==
  /\ plan.rotation # "none" /\ \A t \in Tabs : req[t] # Idle => req[t].at # i
  /\ \E r \in Rings :
       /\ ring' = [ring EXCEPT ![i] = r]
       /\ \/ ring[i] = <<Old>> /\ r = <<Old, New>>
          \/ ring[i] = <<Old, New>> /\ r = <<New, Old>> /\ \A j \in plan.instances : Has(ring[j], New)
          \/ ring[i] = <<New, Old>> /\ r = <<New>> /\ (plan.rotation = "careful" => rekey.pc = "clear")
  /\ UNCHANGED <<plan, now, access, req, left, rekey>>

Rekeys(pc) == rekey.pc = pc /\ UNCHANGED <<plan, now, acct, sess, codes, made, used, wrong, notices, letters,
                                         req, left, ring>>
RekeyBegins(i) ==
  /\ Rekeys("idle") /\ Current(i) = New
  /\ rekey' = [pc |-> IF ListMFAOnOldKeys(mfa) THEN "mfa" ELSE "invites", ring |-> ring[i], row |-> 0,
               settled |-> \A j \in plan.instances : Current(j) = New]
  /\ UNCHANGED <<mfa, invite>>
RekeyRow == mfa' = IF mfa # NoMFA /\ Has(rekey.ring, mfa.key) THEN RekeyMFA(mfa) ELSE mfa
RekeysMFA ==
  /\ Rekeys("mfa") /\ RekeyRow /\ UNCHANGED invite
  /\ rekey' = [rekey EXCEPT !.pc = "invites"]
RekeyGoesOn ==
  /\ Rekeys("invites") /\ UNCHANGED <<mfa, invite>>
  /\ \/ ListInvitesOnOldKeys(invite) = {} /\ rekey' = [rekey EXCEPT !.pc = "count"]
     \/ \E row \in ListInvitesOnOldKeys(invite) : rekey' = [rekey EXCEPT !.pc = "invite", !.row = row]
RekeysInvite ==
  /\ Rekeys("invite") /\ UNCHANGED mfa
  /\ invite' = IF \E k \in LockInviteCode(invite, rekey.row) : Has(rekey.ring, k)
                 THEN RekeyInvite(invite, invite.code, New) ELSE invite
  /\ rekey' = [rekey EXCEPT !.pc = "count"]
(* Three counts: when nothing can return to the old key, they are one step. *)
CountNoCodes ==
  (IF mfa # NoMFA /\ mfa.key = Old THEN 1 ELSE 0) + (IF invite.live /\ invite.key = Old THEN 1 ELSE 0)
CountOnOldKeys ==
  (IF mfa # NoMFA /\ mfa.key = Old THEN 1 ELSE 0) + (IF invite.live /\ invite.key = Old THEN 1 ELSE 0)
    + (IF codes.key = Old THEN Cardinality(codes.unused) ELSE 0)
RekeyCounts ==
  /\ Rekeys("count") /\ UNCHANGED <<mfa, invite>>
  /\ rekey' = IF rekey.settled /\ CountOnOldKeys = 0 THEN [rekey EXCEPT !.pc = "clear"] ELSE NoRekey

-----------------------------------------------------------------------------
Arrives(t, i) ==
  \/ \E op \in SessionOps, n \in DOMAIN sess : Load(t, op, n, i)
  \/ \E old \in {0} \cup DOMAIN sess : Login(t, old, i)
  \/ Accept(t, i) \/ SelfResend(t, i)
Commits(t) ==
  \/ Refused(t) \/ Logout(t) \/ RevokeOthers(t) \/ \E n \in DOMAIN sess : RevokeMySession(t, n)
  \/ \E f \in Typed : Fails(t, f) \/ Breaks(t, f) \/ PassFactor(t, f) \/ ChangePassword(t, f)
                      \/ RegenerateRecovery(t, f) \/ MFAConfirm(t, f)
  \/ LoginStale(t) \/ LoginTx(t) \/ MFASetup(t) \/ RecoveryAck(t) \/ SetUpFails(t)
  \/ AcceptFails(t) \/ AcceptInvite(t) \/ ResendInviteSelf(t)
Manages(i) == ResendInvite(i) \/ ResetAccess(i) \/ Deploy(i) \/ RekeyBegins(i)
Next ==
  \/ Tick \/ Disable \/ \E n \in DOMAIN sess : Expire(n)
  \/ \E t \in Tabs : Commits(t) \/ \E i \in plan.instances : Arrives(t, i)
  \/ \E i \in plan.instances : Manages(i)
  \/ OperatorInviteResend \/ OperatorResetAccess
  \/ RekeysMFA \/ RekeyGoesOn \/ RekeysInvite \/ RekeyCounts

Spec == Init /\ [][Next]_vars

-----------------------------------------------------------------------------
(* A live session rests on what holds now: the present password, the       *)
(* present second factor if it is active, an account that is neither shut  *)
(* nor disabled; a set-up can end, its invitation is there to be consumed.  *)
SessionsStand ==
  \A n \in DOMAIN sess : Live(n) =>
    /\ sess[n].pw = acct.pw /\ acct.status # "disabled" /\ ~Locked
    /\ sess[n].stage = "active" => mfa.confirmed /\ sess[n].secret = mfa.secret
    /\ IF sess[n].stage = "setup" THEN acct.status = "invited" /\ invite.live ELSE acct.status = "active"

(* However many sessions and tabs try, no more than MaxFactorFailures codes *)
(* are tried in a row; every one after those waits LockDuration.           *)
GuessesBounded ==
  \A a \in MaxFactorFailures..(Len(wrong) - 1) : wrong[a + 1] - wrong[a] >= LockDuration

(* A factor is accepted once; of one secret, in the order of its steps.    *)
FactorsOnce ==
  \A a, b \in DOMAIN used : a < b =>
    /\ used[a] # used[b]
    /\ used[a].by = "totp" /\ used[b].by = "totp" /\ used[a].of = used[b].of => used[a].n < used[b].n

(* What is stored is what the employee was shown last, rekey brings back   *)
(* nothing older; and in a careful rotation every instance can read it.  A *)
(* ring that is over is noticed by what is stored: by nothing, when an      *)
(* employee was disabled before the set-up.                                *)
SecretsKept ==
  /\ mfa = NoMFA \/ mfa.secret = made.secret
  /\ codes = NoCodes \/ codes.gen = made.gen
  /\ invite.live => invite.code = made.code
  /\ plan.rotation # "lost" /\ (plan.operator \in plan.instances \/ plan.calls["disable"] = 0) =>
       \A i \in plan.instances :
         /\ mfa = NoMFA \/ Has(ring[i], mfa.key)
         /\ codes.unused = {} \/ Has(ring[i], codes.key)
         /\ invite.live => Has(ring[i], invite.key)

(* Letters about a lock-out are LockNotifyEvery apart; those an anonymous  *)
(* request has sent again keep their pause and their number.               *)
MailsSpaced ==
  /\ \A a \in 1..(Len(notices) - 1) : notices[a + 1] - notices[a] >= LockNotifyEvery
  /\ \A a \in 1..(Len(letters) - 1) : letters[a + 1] - letters[a] >= ResendPause
  /\ Len(letters) <= MaxInviteSends
=============================================================================

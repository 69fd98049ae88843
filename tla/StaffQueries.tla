---------------------------- MODULE StaffQueries ----------------------------
(***************************************************************************)
(* The statements of the staff module on the rows of one employee           *)
(* (backend/internal/staff/queries: auth, access, invites, mfa, manage),    *)
(* as functions of the rows: a is the account, S the sessions, m the second *)
(* factor, c the recovery codes, v the last invitation.  Which transaction  *)
(* runs them, under which locks and checks, is in StaffAccess.              *)
(***************************************************************************)
EXTENDS Integers, Sequences, FiniteSets

CONSTANTS
  Old, New,    \* keys of ADMIN_STAFF_SECRET_KEYS
  CodesIssued

Never   == -1
NoMFA   == [secret |-> 0, key |-> Old, confirmed |-> FALSE, step |-> 0]
NoCodes == [gen |-> 0, key |-> Old, unused |-> {}]
Revoked == [stage |-> "revoked", expires |-> 0, pw |-> 0, secret |-> 0]

-----------------------------------------------------------------------------
(* The account.                                                            *)
InsertInvitedAccount == [status |-> "invited", pw |-> 0, failures |-> 0, locked |-> 0, notified |-> Never]
ActivateAccount(a)  == [a EXCEPT !.status = "active", !.failures = 0]
FactorSucceeded(a)  == [a EXCEPT !.failures = 0]
AddFactorFailure(a) == [a EXCEPT !.failures = @ + 1]
LockOut(a, until, notified) == [a EXCEPT !.locked = until, !.notified = IF notified = Never THEN @ ELSE notified]
SetPassword(a, pw)  == [a EXCEPT !.pw = pw]
AcceptInvitePassword(a, pw) == [a EXCEPT !.pw = pw, !.failures = 0, !.locked = 0]
ManageResetAccess(a) == [a EXCEPT !.status = "invited", !.pw = 0, !.failures = 0, !.locked = 0]
ManageDisable(a)    == [a EXCEPT !.status = "disabled"]

(* What the step of the password looks at, without a lock.                  *)
GetLoginAccount(a, m, now) ==
  [pw |-> a.pw, open |-> a.status = "active" /\ a.pw # 0 /\ now >= a.locked, mfa |-> m.confirmed]

-----------------------------------------------------------------------------
(* Sessions.                                                               *)
Session(stage, expires, pw, secret) == [stage |-> stage, expires |-> expires, pw |-> pw, secret |-> secret]
ListLiveSessions(S, now) == {n \in DOMAIN S : S[n] # Revoked /\ now < S[n].expires}
RevokeOnly(S, N) == [n \in DOMAIN S |-> IF n \in N THEN Revoked ELSE S[n]]
RevokeAll(S) == [n \in DOMAIN S |-> Revoked]
RevokeOwnSession(S, n, now) == RevokeOnly(S, {n} \cap ListLiveSessions(S, now))
RevokeOtherSessions(S, keep, now) == RevokeOnly(S, ListLiveSessions(S, now) \ {keep})

-----------------------------------------------------------------------------
(* The second factor.                                                      *)
LockMFA(m) == IF m = NoMFA THEN {} ELSE {m}
UpsertPendingMFA(secret, key) == [secret |-> secret, key |-> key, confirmed |-> FALSE, step |-> 0]
ConfirmMFA(m, step) == [m EXCEPT !.confirmed = TRUE, !.step = step]
SetMFAStep(m, step) == [m EXCEPT !.step = step]
InsertRecoveryCodes(gen, key) == [gen |-> gen, key |-> key, unused |-> 1..CodesIssued]
LockUnusedRecoveryCodes(c) == {[gen |-> c.gen, key |-> c.key, n |-> n] : n \in c.unused}
UseRecoveryCode(c, n) == [c EXCEPT !.unused = @ \ {n}]

-----------------------------------------------------------------------------
(* Invitations: the live one, the last one, live or not.                    *)
GetInviteCandidate(a, v) == IF a.status = "invited" /\ v.live THEN {v} ELSE {}
LockLiveInvite(v) == IF v.live THEN {v} ELSE {}
GetLastInvite(v) == v.created
InsertInvite(row, code, key, now, ttl) ==
  [row |-> row, live |-> TRUE, code |-> code, key |-> key, expires |-> now + ttl,
   created |-> now, sent |-> now, sends |-> 1]
MarkInviteResent(v, now) == [v EXCEPT !.sends = @ + 1, !.sent = now]
ConsumeInvite(v) == [v EXCEPT !.live = FALSE]
RevokeLiveInvite(v) == [v EXCEPT !.live = FALSE]

-----------------------------------------------------------------------------
(* The keys of what is stored.                                             *)
ListStoredKeyIDs(m, c, v) ==
  (IF m # NoMFA THEN {m.key} ELSE {}) \cup (IF c.unused # {} THEN {c.key} ELSE {}) \cup (IF v.live THEN {v.key} ELSE {})
ListMFAOnOldKeys(m) == m # NoMFA /\ m.key # New
ListInvitesOnOldKeys(v) == IF v.live /\ v.key # New THEN {v.row} ELSE {}
LockInviteCode(v, row) == IF v.row = row /\ v.live THEN {v.key} ELSE {}
RekeyMFA(m) == [m EXCEPT !.key = New]
RekeyInvite(v, code, key) == [v EXCEPT !.code = code, !.key = key]
=============================================================================

-------------------------- MODULE StaffAccessProofs --------------------------
(***************************************************************************)
(* Theorems about StaffAccess for any number of tabs and instances, every  *)
(* sequence of calls and every lifetime and limit.                         *)
(*                                                                         *)
(* A session stands because whoever takes its ground away revokes it in    *)
(* the same transaction; the end of a set-up does so only because there is *)
(* one session of it (OneSetup).  The counter of failures is the length of *)
(* the row of wrong codes, and a full row means a lock (Counted).  A       *)
(* factor cannot come back because its secret or its generation is not     *)
(* issued again (Spent).  That every instance can read what is stored is a *)
(* matter of the order of rings: whoever seals with the new key finds it   *)
(* in every ring, and the old one leaves when nothing is sealed with it    *)
(* (Turning).                                                              *)
(***************************************************************************)
EXTENDS StaffAccess, FiniteSetTheorems, SequenceTheorems, TLAPS

(* The life of an account: who waits for the set-up has an invitation, who  *)
(* works has a second factor.                                              *)
Lives ==
  /\ acct.status = "invited" => invite.live
  /\ acct.status = "active" => mfa.confirmed

OneSetup == acct.status = "invited" => \A m, n \in DOMAIN sess : Live(m) /\ Live(n) => m = n

(* The wrong codes of the row are counted; a full row has locked.          *)
Counted ==
  /\ GuessesBounded
  /\ Len(wrong) = acct.failures
  /\ Len(wrong) >= MaxFactorFailures => acct.locked >= wrong[Len(wrong)] + LockDuration

(* What was accepted was issued; what is left of it comes after.           *)
Spent ==
  /\ FactorsOnce
  /\ \A a \in DOMAIN used :
       /\ used[a].by = "totp" =>
            /\ 1 <= used[a].of /\ used[a].of <= made.secret
            /\ used[a].of = mfa.secret => used[a].n <= mfa.step
       /\ used[a].by = "recovery" =>
            /\ used[a].of <= made.gen
            /\ used[a].of = codes.gen => used[a].n \notin codes.unused

(* What is stored is what was made last.                                   *)
Newest ==
  /\ mfa = NoMFA \/ mfa.secret = made.secret
  /\ codes = NoCodes \/ codes.gen = made.gen
  /\ invite.live => invite.code = made.code

(* The columns of the letters are those of the last one.                   *)
Posted ==
  /\ MailsSpaced
  /\ acct.notified = IF notices = <<>> THEN Never ELSE notices[Len(notices)]
  /\ Len(letters) >= 1 /\ invite.sends = Len(letters) /\ invite.sent = letters[Len(letters)]

(* A request is at an instance.  The rings turn together: who has the new   *)
(* key first finds it everywhere, who has given the old one up is the last *)
(* to seal with it; what rekey counted stays so.                           *)
Asked == \A t \in Tabs : req[t].op # "idle" => req[t].at \in plan.instances
Stored == ListStoredKeyIDs(mfa, codes, invite)
NewFirst(i) == Current(i) = New
Turning ==
  /\ (\E i \in plan.instances : NewFirst(i)) \/ rekey.pc # "idle" =>
       \A j \in plan.instances : Has(ring[j], New)
  /\ (\E i \in plan.instances : ring[i] = <<New>>) \/ (rekey.pc # "idle" /\ rekey.settled) =>
       \A j \in plan.instances : NewFirst(j)
  /\ rekey.pc = "clear" => rekey.settled /\ Old \notin Stored
Abroad ==
  plan.operator \notin plan.instances =>
    /\ plan.calls["disable"] = 0 => left["disable"] = 0 /\ acct.status # "disabled"
    /\ ring[plan.operator] = <<Old>> /\ \A i \in plan.instances : ring[i] = <<New>>
Seen == plan.rotation # "lost" /\ (plan.operator \in plan.instances \/ plan.calls["disable"] = 0)
Readable == Seen => \A i \in plan.instances, k \in Stored : Has(ring[i], k)

-----------------------------------------------------------------------------
(* The rows, with their columns free of one another.                       *)
Account      == [status : {"invited", "active", "disabled"}, pw : Nat, failures : Nat, locked : Nat,
                 notified : Nat \cup {Never}]
SessionRow   == [stage : {"mfa_pending", "setup", "active"}, expires : Nat, pw : Nat, secret : Nat]
SecondFactor == [secret : Nat, key : Keys, confirmed : BOOLEAN, step : Nat]
CodesRow     == [gen : Nat, key : Keys, unused : SUBSET (1..CodesIssued)]
InviteRow    == [row : Nat, live : BOOLEAN, code : Nat, key : Keys, expires : Nat, created : Nat, sent : Nat,
                 sends : Nat]
Counts       == [pw : Nat, secret : Nat, gen : Nat, code : Nat, row : Nat]
Request      == [op : Ops \cup {"idle"}, sid : Nat, known : Nat, at : Instances]
Rekeying     == [pc : {"idle", "mfa", "invites", "invite", "count", "clear"}, ring : Rings, row : Nat,
                 settled : BOOLEAN]
Sessions     == Seq(SessionRow \cup {Revoked})

TypeA ==
  /\ acct \in Account /\ acct.pw <= made.pw
  /\ sess \in Sessions
  /\ mfa \in SecondFactor /\ (mfa # NoMFA => 1 <= mfa.secret /\ mfa.secret <= made.secret)
  /\ codes \in CodesRow /\ (codes # NoCodes => 1 <= codes.gen /\ codes.gen <= made.gen)
  /\ invite \in InviteRow
  /\ 1 <= invite.row /\ invite.row <= made.row /\ 1 <= invite.code /\ invite.code <= made.code
  /\ 1 <= invite.sends /\ invite.sends <= MaxInviteSends
  /\ made \in Counts
  /\ used \in Seq(Factor) /\ wrong \in Seq(Nat) /\ notices \in Seq(Nat) /\ letters \in Seq(Nat)
TypeB ==
  /\ plan \in Plans /\ now \in Nat
  /\ req \in [Tabs -> Request]
  /\ left \in [Ops -> Nat] /\ ring \in [Instances -> Rings] /\ rekey \in Rekeying
SidsIn == \A t \in Tabs : req[t].sid <= Len(sess)

LEMMA Constants ==
  /\ Old # New
  /\ MFAPendingTTL \in Nat \ {0} /\ SessionTTL \in Nat \ {0} /\ InviteTTL \in Nat \ {0}
  /\ LockDuration \in Nat \ {0} /\ LockNotifyEvery \in Nat \ {0} /\ ResendPause \in Nat \ {0}
  /\ MaxFactorFailures \in Nat \ {0} /\ MaxInviteSends \in Nat \ {0} /\ CodesIssued \in Nat \ {0}
BY AccessAssumption

LEMMA RowsTyped == NoMFA \in SecondFactor /\ NoCodes \in CodesRow /\ NoMFA.secret = 0 /\ NoCodes.gen = 0
                   /\ NoMFA.confirmed = FALSE /\ NoCodes.unused = {}
BY DEF NoMFA, NoCodes, SecondFactor, CodesRow, Keys

(* The type invariant, column by column.                                   *)
LEMMA TypeSplit ==
  TypeOK <=> TypeA /\ TypeB /\ SidsIn
<1>1. ASSUME made \in Counts
      PROVE  acct \in [status : {"invited", "active", "disabled"}, pw : 0..made.pw, failures : Nat,
                       locked : Nat, notified : Nat \cup {Never}]
               <=> acct \in Account /\ acct.pw <= made.pw
  <2>1. made.pw \in Nat
    BY <1>1 DEF Counts
  <2> QED
    BY <2>1 DEF Account
<1>2. ASSUME made \in Counts
      PROVE  mfa \in [secret : 1..made.secret, key : Keys, confirmed : BOOLEAN, step : Nat] \cup {NoMFA}
               <=> mfa \in SecondFactor /\ (mfa # NoMFA => 1 <= mfa.secret /\ mfa.secret <= made.secret)
  <2>1. made.secret \in Nat
    BY <1>2 DEF Counts
  <2>2. mfa \in [secret : 1..made.secret, key : Keys, confirmed : BOOLEAN, step : Nat]
          <=> mfa \in SecondFactor /\ 1 <= mfa.secret /\ mfa.secret <= made.secret
    BY <2>1 DEF SecondFactor
  <2> QED
    BY <2>2, RowsTyped
<1>3. ASSUME made \in Counts
      PROVE  codes \in [gen : 1..made.gen, key : Keys, unused : SUBSET (1..CodesIssued)] \cup {NoCodes}
               <=> codes \in CodesRow /\ (codes # NoCodes => 1 <= codes.gen /\ codes.gen <= made.gen)
  <2>1. made.gen \in Nat
    BY <1>3 DEF Counts
  <2>2. codes \in [gen : 1..made.gen, key : Keys, unused : SUBSET (1..CodesIssued)]
          <=> codes \in CodesRow /\ 1 <= codes.gen /\ codes.gen <= made.gen
    BY <2>1 DEF CodesRow
  <2> QED
    BY <2>2, RowsTyped
<1>4. ASSUME made \in Counts
      PROVE  invite \in [row : 1..made.row, live : BOOLEAN, code : 1..made.code, key : Keys, expires : Nat,
                         created : Nat, sent : Nat, sends : 1..MaxInviteSends]
               <=> /\ invite \in InviteRow
                   /\ 1 <= invite.row /\ invite.row <= made.row /\ 1 <= invite.code /\ invite.code <= made.code
                   /\ 1 <= invite.sends /\ invite.sends <= MaxInviteSends
  <2>1. made.row \in Nat /\ made.code \in Nat /\ MaxInviteSends \in Nat
    BY <1>4, Constants DEF Counts
  <2> QED
    BY <2>1 DEF InviteRow
<1> QED
  BY <1>1, <1>2, <1>3, <1>4, Zenon
  DEF TypeOK, TypeA, TypeB, Counts, Request, Rekeying, SessionRow, Sessions, SidsIn

LEMMA TypeSplitNext == TypeOK' <=> TypeA' /\ TypeB' /\ SidsIn'
BY TypeSplit, PTL

-----------------------------------------------------------------------------
(* What the statements do to the columns of the account.                   *)
LEMMA ActivateAccountGives ==
  \A a \in Account : LET b == ActivateAccount(a) IN
    /\ b \in Account /\ b.status = "active" /\ b.pw = a.pw /\ b.failures = 0 /\ b.locked = a.locked
    /\ b.notified = a.notified
BY DEF Account, ActivateAccount

LEMMA FactorSucceededGives ==
  \A a \in Account : LET b == FactorSucceeded(a) IN
    /\ b \in Account /\ b.status = a.status /\ b.pw = a.pw /\ b.failures = 0 /\ b.locked = a.locked
    /\ b.notified = a.notified
BY DEF Account, FactorSucceeded

LEMMA AddFactorFailureGives ==
  \A a \in Account : LET b == AddFactorFailure(a) IN
    /\ b \in Account /\ b.status = a.status /\ b.pw = a.pw /\ b.failures = a.failures + 1
    /\ b.locked = a.locked /\ b.notified = a.notified
BY DEF Account, AddFactorFailure

LEMMA LockOutGives ==
  \A a \in Account, until \in Nat, n \in Nat \cup {Never} : LET b == LockOut(a, until, n) IN
    /\ b \in Account /\ b.status = a.status /\ b.pw = a.pw /\ b.failures = a.failures /\ b.locked = until
    /\ b.notified = IF n = Never THEN a.notified ELSE n
<1> SUFFICES ASSUME NEW a \in Account, NEW until \in Nat, NEW n \in Nat \cup {Never}
             PROVE  LET b == LockOut(a, until, n) IN
                    /\ b \in Account /\ b.status = a.status /\ b.pw = a.pw /\ b.failures = a.failures
                    /\ b.locked = until /\ b.notified = IF n = Never THEN a.notified ELSE n
  OBVIOUS
<1> DEFINE e == IF n = Never THEN a.notified ELSE n
<1>1. e \in Nat \cup {Never}
  BY DEF Account
<1>2. LockOut(a, until, n) = [a EXCEPT !.locked = until, !.notified = e]
  BY DEF LockOut
<1> HIDE DEF e
<1>3. LET b == LockOut(a, until, n) IN
      /\ b \in Account /\ b.status = a.status /\ b.pw = a.pw /\ b.failures = a.failures
      /\ b.locked = until /\ b.notified = e
  BY <1>1, <1>2 DEF Account
<1> QED
  BY <1>3 DEF e

LEMMA SetPasswordGives ==
  \A a \in Account, pw \in Nat : LET b == SetPassword(a, pw) IN
    /\ b \in Account /\ b.status = a.status /\ b.pw = pw /\ b.failures = a.failures /\ b.locked = a.locked
    /\ b.notified = a.notified
BY DEF Account, SetPassword

LEMMA AcceptInvitePasswordGives ==
  \A a \in Account, pw \in Nat : LET b == AcceptInvitePassword(a, pw) IN
    /\ b \in Account /\ b.status = a.status /\ b.pw = pw /\ b.failures = 0 /\ b.locked = 0
    /\ b.notified = a.notified
BY DEF Account, AcceptInvitePassword

LEMMA ManageResetAccessGives ==
  \A a \in Account : LET b == ManageResetAccess(a) IN
    /\ b \in Account /\ b.status = "invited" /\ b.pw = 0 /\ b.failures = 0 /\ b.locked = 0
    /\ b.notified = a.notified
BY DEF Account, ManageResetAccess

LEMMA ManageDisableGives ==
  \A a \in Account : LET b == ManageDisable(a) IN
    /\ b \in Account /\ b.status = "disabled" /\ b.pw = a.pw /\ b.failures = a.failures /\ b.locked = a.locked
    /\ b.notified = a.notified
BY DEF Account, ManageDisable

(* The second factor, the codes, the invitation.                           *)
LEMMA PendingGives ==
  \A s \in Nat, k \in Keys : LET m == UpsertPendingMFA(s, k) IN
    m \in SecondFactor /\ m.secret = s /\ m.key = k /\ m.confirmed = FALSE /\ m.step = 0
BY DEF SecondFactor, UpsertPendingMFA

LEMMA ConfirmMFAGives ==
  \A m \in SecondFactor, n \in Nat : LET q == ConfirmMFA(m, n) IN
    q \in SecondFactor /\ q.secret = m.secret /\ q.key = m.key /\ q.confirmed = TRUE /\ q.step = n
BY DEF SecondFactor, ConfirmMFA

LEMMA SetMFAStepGives ==
  \A m \in SecondFactor, n \in Nat : LET q == SetMFAStep(m, n) IN
    q \in SecondFactor /\ q.secret = m.secret /\ q.key = m.key /\ (q.confirmed <=> m.confirmed) /\ q.step = n
BY DEF SecondFactor, SetMFAStep

LEMMA RekeyMFAGives ==
  \A m \in SecondFactor : LET q == RekeyMFA(m) IN
    q \in SecondFactor /\ q.secret = m.secret /\ q.key = New /\ (q.confirmed <=> m.confirmed) /\ q.step = m.step
BY DEF SecondFactor, RekeyMFA, Keys

LEMMA InsertCodesGives ==
  \A g \in Nat, k \in Keys : LET c == InsertRecoveryCodes(g, k) IN
    c \in CodesRow /\ c.gen = g /\ c.key = k /\ c.unused = 1..CodesIssued
BY DEF CodesRow, InsertRecoveryCodes

LEMMA UseCodeGives ==
  \A c \in CodesRow : \A n : LET d == UseRecoveryCode(c, n) IN
    d \in CodesRow /\ d.gen = c.gen /\ d.key = c.key /\ d.unused = c.unused \ {n}
BY DEF CodesRow, UseRecoveryCode

LEMMA ResentGives ==
  \A v \in InviteRow, n \in Nat : LET w == MarkInviteResent(v, n) IN
    /\ w \in InviteRow /\ w.row = v.row /\ (w.live <=> v.live) /\ w.code = v.code /\ w.key = v.key
    /\ w.sent = n /\ w.sends = v.sends + 1
<1> SUFFICES ASSUME NEW v \in InviteRow, NEW n \in Nat
             PROVE  LET w == MarkInviteResent(v, n) IN
                    /\ w \in InviteRow /\ w.row = v.row /\ (w.live <=> v.live) /\ w.code = v.code
                    /\ w.key = v.key /\ w.sent = n /\ w.sends = v.sends + 1
  OBVIOUS
<1> DEFINE m == v.sends + 1
<1>1. m \in Nat
  BY DEF InviteRow
<1>2. MarkInviteResent(v, n) = [v EXCEPT !.sends = m, !.sent = n]
  BY DEF MarkInviteResent
<1> HIDE DEF m
<1>3. LET w == MarkInviteResent(v, n) IN
      /\ w \in InviteRow /\ w.row = v.row /\ (w.live <=> v.live) /\ w.code = v.code
      /\ w.key = v.key /\ w.sent = n /\ w.sends = m
  BY <1>1, <1>2 DEF InviteRow
<1> QED
  BY <1>3 DEF m

LEMMA ConsumeInviteGives ==
  \A v \in InviteRow : LET w == ConsumeInvite(v) IN
    /\ w \in InviteRow /\ w.row = v.row /\ w.live = FALSE /\ w.code = v.code /\ w.sent = v.sent
    /\ w.sends = v.sends
BY DEF InviteRow, ConsumeInvite

LEMMA RevokeInviteGives ==
  \A v \in InviteRow : LET w == RevokeLiveInvite(v) IN
    /\ w \in InviteRow /\ w.row = v.row /\ w.live = FALSE /\ w.code = v.code /\ w.sent = v.sent
    /\ w.sends = v.sends
BY DEF InviteRow, RevokeLiveInvite

LEMMA RekeyInviteGives ==
  \A v \in InviteRow, c \in Nat, k \in Keys : LET w == RekeyInvite(v, c, k) IN
    /\ w \in InviteRow /\ w.row = v.row /\ (w.live <=> v.live) /\ w.code = c /\ w.key = k /\ w.sent = v.sent
    /\ w.sends = v.sends /\ w.expires = v.expires
BY DEF InviteRow, RekeyInvite

(* Sessions: what is revoked is dead, what is left is as it was.           *)
LEMMA PendingSessionGives ==
  \A e \in Nat, p \in Nat, x \in Nat : LET q == Session("mfa_pending", e, p, x) IN
    q \in SessionRow /\ q.stage = "mfa_pending" /\ q.expires = e /\ q.pw = p /\ q.secret = x
BY DEF Session, SessionRow

LEMMA SetupSessionGives ==
  \A e \in Nat, p \in Nat, x \in Nat : LET q == Session("setup", e, p, x) IN
    q \in SessionRow /\ q.stage = "setup" /\ q.expires = e /\ q.pw = p /\ q.secret = x
BY DEF Session, SessionRow

LEMMA ActiveSessionGives ==
  \A e \in Nat, p \in Nat, x \in Nat : LET q == Session("active", e, p, x) IN
    q \in SessionRow /\ q.stage = "active" /\ q.expires = e /\ q.pw = p /\ q.secret = x
BY DEF Session, SessionRow

LEMMA SessionColumns ==
  ASSUME sess \in Sessions
  PROVE  /\ DOMAIN sess = 1..Len(sess) /\ Len(sess) \in Nat
         /\ \A n \in DOMAIN sess : sess[n].expires \in Nat /\ sess[n].pw \in Nat /\ sess[n].secret \in Nat
         /\ \A n \in DOMAIN sess : sess[n] = Revoked \/ sess[n] \in SessionRow
         /\ Revoked.expires = 0
BY DEF Sessions, SessionRow, Revoked

LEMMA RevokeOnlyGives ==
  ASSUME NEW S \in Sessions, NEW N
  PROVE  LET T == RevokeOnly(S, N) IN
         /\ T \in Sessions /\ Len(T) = Len(S) /\ DOMAIN T = DOMAIN S
         /\ \A n \in DOMAIN S : T[n] = IF n \in N THEN Revoked ELSE S[n]
<1> DEFINE T == RevokeOnly(S, N)
<1>1. DOMAIN S = 1..Len(S) /\ Len(S) \in Nat /\ DOMAIN T = DOMAIN S
  BY DEF Sessions, RevokeOnly
<1>2. \A n \in DOMAIN S : T[n] = IF n \in N THEN Revoked ELSE S[n]
  BY DEF RevokeOnly
<1>3. T = [n \in 1..Len(S) |-> T[n]]
  BY <1>1 DEF RevokeOnly
<1>4. \A n \in 1..Len(S) : T[n] \in SessionRow \cup {Revoked}
  BY <1>1, <1>2 DEF Sessions
<1> HIDE DEF T
<1>5. T \in [1..Len(S) -> SessionRow \cup {Revoked}]
  BY <1>3, <1>4
<1>6. T \in Sessions /\ Len(T) = Len(S)
  BY <1>1, <1>5 DEF Sessions
<1> QED
  BY <1>1, <1>2, <1>6 DEF T

LEMMA RevokeAllGives ==
  ASSUME NEW S \in Sessions
  PROVE  LET T == RevokeAll(S) IN
         /\ T \in Sessions /\ Len(T) = Len(S) /\ DOMAIN T = DOMAIN S
         /\ \A n \in DOMAIN S : T[n] = Revoked
<1>1. RevokeAll(S) = RevokeOnly(S, DOMAIN S)
  BY DEF RevokeAll, RevokeOnly
<1>2. \A T : T = RevokeOnly(S, DOMAIN S) =>
         /\ T \in Sessions /\ Len(T) = Len(S) /\ DOMAIN T = DOMAIN S
         /\ \A n \in DOMAIN S : T[n] = Revoked
  BY RevokeOnlyGives
<1> QED
  BY <1>1, <1>2

LEMMA AppendGives ==
  ASSUME NEW S \in Sessions, NEW s \in SessionRow
  PROVE  LET T == Append(S, s) IN
         /\ T \in Sessions /\ Len(T) = Len(S) + 1
         /\ DOMAIN T = DOMAIN S \cup {Len(S) + 1} /\ Len(S) + 1 \notin DOMAIN S
         /\ T[Len(S) + 1] = s
         /\ \A n \in DOMAIN S : T[n] = S[n]
BY DEF Sessions

LEMMA AppendNumbers ==
  ASSUME NEW T, NEW S \in Seq(T), NEW n \in T
  PROVE  /\ Append(S, n) \in Seq(T) /\ Len(Append(S, n)) = Len(S) + 1 /\ Len(S) \in Nat
         /\ Append(S, n)[Len(S) + 1] = n
         /\ \A a \in 1..Len(S) : Append(S, n)[a] = S[a] /\ S[a] \in T
         /\ DOMAIN S = 1..Len(S) /\ DOMAIN Append(S, n) = 1..(Len(S) + 1)
OBVIOUS

-----------------------------------------------------------------------------
(* What the account, its sessions, factors and letters keep.               *)
Rows ==
  /\ TypeA /\ now \in Nat /\ now >= 1
  /\ SessionsStand /\ OneSetup /\ Lives
  /\ Counted /\ Spent /\ Newest /\ Posted

(* Sessions may go, their ground stays.                                    *)
LEMMA StandKept ==
  ASSUME Rows, TypeA', now' \in Nat, now <= now',
         \A n \in DOMAIN sess' : Live(n)' => Live(n) /\ sess'[n] = sess[n],
         acct'.pw = acct.pw, acct'.status = acct.status, acct'.locked = acct.locked,
         mfa'.secret = mfa.secret, mfa'.confirmed <=> mfa.confirmed, invite'.live <=> invite.live
  PROVE  SessionsStand' /\ OneSetup' /\ Lives'
<1>1. TypeA /\ SessionsStand /\ OneSetup /\ Lives /\ now \in Nat
  BY DEF Rows
<1>2. Lives'
  BY <1>1 DEF Lives
<1>3. OneSetup'
  BY <1>1 DEF OneSetup, Live
<1>4. ~Locked => ~Locked'
  BY <1>1 DEF Locked, TypeA, Account
<1>5. SessionsStand'
  <2>1. SUFFICES ASSUME NEW n \in DOMAIN sess', Live(n)'
                 PROVE  /\ sess'[n].pw = acct'.pw /\ acct'.status # "disabled" /\ ~Locked'
                        /\ sess'[n].stage = "active" => mfa'.confirmed /\ sess'[n].secret = mfa'.secret
                        /\ IF sess'[n].stage = "setup" THEN acct'.status = "invited" /\ invite'.live
                           ELSE acct'.status = "active"
    BY DEF SessionsStand
  <2>2. n \in DOMAIN sess /\ Live(n) /\ sess'[n] = sess[n]
    BY <2>1 DEF Live
  <2> QED
    BY <1>1, <1>4, <2>2 DEF SessionsStand
<1> QED
  BY <1>2, <1>3, <1>5

LEMMA StandNone ==
  ASSUME Lives', \A n \in DOMAIN sess' : ~Live(n)'
  PROVE  SessionsStand' /\ OneSetup' /\ Lives'
BY DEF SessionsStand, OneSetup

(* One session is left, or comes beside those that stand.                   *)
Stands(n) ==
  /\ sess[n].pw = acct.pw /\ acct.status # "disabled" /\ ~Locked
  /\ sess[n].stage = "active" => mfa.confirmed /\ sess[n].secret = mfa.secret
  /\ IF sess[n].stage = "setup" THEN acct.status = "invited" /\ invite.live ELSE acct.status = "active"

LEMMA StandOne ==
  ASSUME Lives', NEW k, \A n \in DOMAIN sess' : n # k => ~Live(n)', Stands(k)'
  PROVE  SessionsStand' /\ OneSetup' /\ Lives'
BY DEF SessionsStand, OneSetup, Stands

LEMMA StandMore ==
  ASSUME Rows, Lives', NEW k, Stands(k)', acct'.status # "invited",
         \A n \in DOMAIN sess' : Live(n)' => n = k \/ (Live(n) /\ sess'[n] = sess[n]),
         acct'.pw = acct.pw, acct'.status = acct.status, acct'.locked = acct.locked, now' = now,
         mfa'.secret = mfa.secret, mfa'.confirmed <=> mfa.confirmed, invite'.live <=> invite.live
  PROVE  SessionsStand' /\ OneSetup' /\ Lives'
<1>1. OneSetup'
  BY DEF OneSetup
<1>2. \A n \in DOMAIN sess : Live(n) => Stands(n)
  BY DEF Rows, SessionsStand, Stands
<1>3. Locked' <=> Locked
  BY DEF Locked
<1>4. ASSUME NEW n \in DOMAIN sess', Live(n)' PROVE Stands(n)'
  <2>1. CASE n = k
    BY <2>1
  <2>2. CASE n # k
    <3>1. Live(n) /\ sess'[n] = sess[n] /\ n \in DOMAIN sess
      BY <1>4, <2>2 DEF Live
    <3>2. Stands(n)
      BY <1>2, <3>1
    <3> QED
      BY <1>3, <3>1, <3>2 DEF Stands
  <2> QED
    BY <2>1, <2>2
<1>5. SessionsStand'
  BY <1>4 DEF SessionsStand, Stands
<1> QED
  BY <1>1, <1>5

(* During the set-up no live session has a second factor.                  *)
LEMMA StandInvited ==
  ASSUME Rows, acct.status = "invited", UNCHANGED <<now, sess, acct>>, invite'.live <=> invite.live
  PROVE  SessionsStand' /\ OneSetup' /\ Lives'
<1>1. Lives'
  BY DEF Rows, Lives
<1>2. OneSetup'
  BY DEF Rows, OneSetup, Live
<1>3. \A n \in DOMAIN sess : Live(n) => sess[n].stage = "setup"
  BY DEF Rows, SessionsStand
<1>4. SessionsStand'
  BY <1>3 DEF Rows, SessionsStand, Live, Locked
<1> QED
  BY <1>1, <1>2, <1>4

LEMMA CountedKept ==
  ASSUME Rows, UNCHANGED wrong, acct'.failures = acct.failures, acct'.locked = acct.locked
  PROVE  Counted'
BY DEF Rows, Counted, GuessesBounded

LEMMA CountedReset ==
  ASSUME wrong' = <<>>, acct'.failures = 0
  PROVE  Counted'
<1>1. MaxFactorFailures \in Nat \ {0} /\ Len(wrong') = 0
  BY Constants
<1> QED
  BY <1>1 DEF Counted, GuessesBounded

LEMMA SpentKept ==
  ASSUME Rows, TypeA', UNCHANGED used, made.secret <= made'.secret, made.gen <= made'.gen,
         \/ mfa'.secret = mfa.secret /\ mfa.step <= mfa'.step
         \/ mfa'.secret = 0
         \/ made.secret < mfa'.secret,
         \/ codes'.gen = codes.gen /\ codes'.unused \subseteq codes.unused
         \/ codes'.unused = {}
         \/ made.gen < codes'.gen
  PROVE  Spent'
<1>1. Spent /\ TypeA
  BY DEF Rows
<1>2. FactorsOnce'
  BY <1>1 DEF Spent, FactorsOnce
<1>3. /\ made.secret \in Nat /\ made'.secret \in Nat /\ made.gen \in Nat /\ made'.gen \in Nat
      /\ mfa.secret \in Nat /\ mfa'.secret \in Nat /\ mfa.step \in Nat /\ mfa'.step \in Nat
      /\ codes.gen \in Nat /\ codes'.gen \in Nat
  BY <1>1 DEF TypeA, Counts, SecondFactor, CodesRow
<1>4. \A a \in DOMAIN used : used[a].of \in Nat /\ used[a].n \in Nat
  <2>1. \A a \in DOMAIN used : used[a] \in Factor
    BY <1>1 DEF TypeA
  <2> QED
    BY <2>1 DEF Factor
<1>5. SUFFICES ASSUME NEW a \in DOMAIN used
               PROVE  /\ used[a].by = "totp" =>
                           /\ 1 <= used[a].of /\ used[a].of <= made'.secret
                           /\ used[a].of = mfa'.secret => used[a].n <= mfa'.step
                      /\ used[a].by = "recovery" =>
                           /\ used[a].of <= made'.gen
                           /\ used[a].of = codes'.gen => used[a].n \notin codes'.unused
  BY <1>2 DEF Spent
<1>6. /\ used[a].by = "totp" =>
            /\ 1 <= used[a].of /\ used[a].of <= made.secret
            /\ used[a].of = mfa.secret => used[a].n <= mfa.step
      /\ used[a].by = "recovery" =>
            /\ used[a].of <= made.gen
            /\ used[a].of = codes.gen => used[a].n \notin codes.unused
  BY <1>1 DEF Spent
<1> QED
  BY <1>3, <1>4, <1>6

(* A factor that is accepted is not one of those before.                   *)
LEMMA SpentMore ==
  ASSUME Rows, TypeA', NEW f \in Factor, used' = Append(used, f),
         made'.secret = made.secret, made.gen <= made'.gen,
         mfa'.secret = mfa.secret, mfa.step <= mfa'.step,
         \/ codes'.gen = codes.gen /\ codes'.unused \subseteq codes.unused
         \/ made.gen < codes'.gen,
         \/ /\ f.by = "totp" /\ f.of = mfa.secret /\ 1 <= f.of /\ mfa.step < f.n /\ mfa'.step = f.n
         \/ /\ f.by = "recovery" /\ f.of = codes.gen /\ f.n \in codes.unused /\ codes.gen <= made.gen
            /\ codes'.gen = codes.gen /\ f.n \notin codes'.unused
  PROVE  Spent'
<1>1. Spent /\ TypeA
  BY DEF Rows
<1>2. /\ made.secret \in Nat /\ made'.secret \in Nat /\ made.gen \in Nat /\ made'.gen \in Nat
      /\ mfa.secret \in Nat /\ mfa'.secret \in Nat /\ mfa.step \in Nat /\ mfa'.step \in Nat
      /\ codes.gen \in Nat /\ codes'.gen \in Nat
  BY <1>1 DEF TypeA, Counts, SecondFactor, CodesRow
<1>3. mfa.secret <= made.secret
  BY <1>1, <1>2, RowsTyped DEF TypeA
<1>4. /\ DOMAIN used = 1..Len(used) /\ DOMAIN used' = 1..(Len(used) + 1) /\ Len(used) \in Nat
      /\ used'[Len(used) + 1] = f
      /\ \A a \in 1..Len(used) : used'[a] = used[a] /\ used[a] \in Factor
  BY <1>1, AppendNumbers DEF TypeA
<1>5. /\ f.of \in Nat /\ f.n \in Nat
      /\ \A a \in 1..Len(used) : used[a].of \in Nat /\ used[a].n \in Nat
  BY <1>4 DEF Factor
<1>6. \A a \in 1..Len(used) :
        /\ used[a].by = "totp" =>
             /\ 1 <= used[a].of /\ used[a].of <= made.secret
             /\ used[a].of = mfa.secret => used[a].n <= mfa.step
        /\ used[a].by = "recovery" =>
             /\ used[a].of <= made.gen
             /\ used[a].of = codes.gen => used[a].n \notin codes.unused
  BY <1>1, <1>4 DEF Spent
<1>7. \A a \in 1..Len(used) :
        /\ used[a] # f
        /\ used[a].by = "totp" /\ f.by = "totp" /\ used[a].of = f.of => used[a].n < f.n
  <2> SUFFICES ASSUME NEW a \in 1..Len(used)
               PROVE  /\ used[a] # f
                      /\ used[a].by = "totp" /\ f.by = "totp" /\ used[a].of = f.of => used[a].n < f.n
    OBVIOUS
  <2>1. used[a].by = "totp" /\ f.by = "totp" /\ used[a].of = f.of => used[a].n < f.n
    BY <1>2, <1>5, <1>6
  <2>2. ASSUME used[a] = f PROVE FALSE
    <3>1. CASE f.by = "totp"
      BY <1>5, <2>1, <2>2, <3>1
    <3>2. CASE f.by = "recovery"
      BY <1>6, <2>2, <3>2
    <3> QED
      BY <3>1, <3>2
  <2> QED
    BY <2>1, <2>2
<1>8. FactorsOnce'
  <2>1. SUFFICES ASSUME NEW a \in DOMAIN used', NEW b \in DOMAIN used', a < b
                 PROVE  /\ used'[a] # used'[b]
                        /\ used'[a].by = "totp" /\ used'[b].by = "totp" /\ used'[a].of = used'[b].of
                             => used'[a].n < used'[b].n
    BY DEF FactorsOnce
  <2>2. a \in 1..Len(used)
    BY <1>4, <2>1
  <2>3. CASE b \in 1..Len(used)
    BY <1>1, <1>4, <2>1, <2>2, <2>3 DEF Spent, FactorsOnce
  <2>4. CASE b = Len(used) + 1
    BY <1>4, <1>7, <2>2, <2>4
  <2> QED
    BY <1>4, <2>3, <2>4
<1>9. \A a \in DOMAIN used' :
        /\ used'[a].by = "totp" =>
             /\ 1 <= used'[a].of /\ used'[a].of <= made'.secret
             /\ used'[a].of = mfa'.secret => used'[a].n <= mfa'.step
        /\ used'[a].by = "recovery" =>
             /\ used'[a].of <= made'.gen
             /\ used'[a].of = codes'.gen => used'[a].n \notin codes'.unused
  <2> SUFFICES ASSUME NEW a \in DOMAIN used'
               PROVE  /\ used'[a].by = "totp" =>
                           /\ 1 <= used'[a].of /\ used'[a].of <= made'.secret
                           /\ used'[a].of = mfa'.secret => used'[a].n <= mfa'.step
                      /\ used'[a].by = "recovery" =>
                           /\ used'[a].of <= made'.gen
                           /\ used'[a].of = codes'.gen => used'[a].n \notin codes'.unused
    OBVIOUS
  <2>1. CASE a \in 1..Len(used)
    <3>1. used'[a] = used[a] /\ used[a].of \in Nat /\ used[a].n \in Nat
      BY <1>4, <1>5, <2>1
    <3>2. /\ used[a].by = "totp" =>
               /\ 1 <= used[a].of /\ used[a].of <= made.secret
               /\ used[a].of = mfa.secret => used[a].n <= mfa.step
          /\ used[a].by = "recovery" =>
               /\ used[a].of <= made.gen
               /\ used[a].of = codes.gen => used[a].n \notin codes.unused
      BY <1>6, <2>1
    <3>3. used[a].by = "totp" =>
             /\ 1 <= used[a].of /\ used[a].of <= made'.secret
             /\ used[a].of = mfa'.secret => used[a].n <= mfa'.step
      BY <1>2, <3>1, <3>2
    <3>4. used[a].by = "recovery" => used[a].of <= made'.gen
      BY <1>2, <3>1, <3>2
    <3>5. used[a].by = "recovery" => (used[a].of = codes'.gen => used[a].n \notin codes'.unused)
      BY <1>2, <3>1, <3>2
    <3> QED
      BY <3>1, <3>3, <3>4, <3>5
  <2>2. CASE a = Len(used) + 1
    BY <1>2, <1>3, <1>4, <1>5, <2>2
  <2> QED
    BY <1>4, <2>1, <2>2
<1> QED
  BY <1>8, <1>9 DEF Spent

LEMMA PostedKept ==
  ASSUME Rows, UNCHANGED <<notices, letters>>, acct'.notified = acct.notified,
         invite'.sends = invite.sends, invite'.sent = invite.sent
  PROVE  Posted'
BY DEF Rows, Posted, MailsSpaced

-----------------------------------------------------------------------------
(* Steps that leave the rows, or take sessions away.                       *)
LEMMA QuietRows ==
  ASSUME Rows, UNCHANGED access, now' = now \/ now' = now + 1
  PROVE  Rows'
<1>1. UNCHANGED <<acct, sess, mfa, codes, invite, made, used, wrong, notices, letters>>
  BY DEF access
<1>2. TypeA' /\ now' \in Nat /\ now' >= 1 /\ now <= now'
  BY <1>1 DEF Rows, TypeA
<1>3. \A n \in DOMAIN sess' : Live(n)' => Live(n) /\ sess'[n] = sess[n]
  BY <1>1, <1>2, SessionColumns DEF Live, Rows, TypeA
<1>4. SessionsStand' /\ OneSetup' /\ Lives'
  BY <1>1, <1>2, <1>3, StandKept
<1>5. Counted' /\ Posted' /\ Newest'
  BY <1>1, CountedKept, PostedKept DEF Rows, Newest
<1>6. Spent'
  BY <1>1 DEF Rows, Spent, FactorsOnce
<1> QED
  BY <1>2, <1>4, <1>5, <1>6 DEF Rows

LEMMA DropRows ==
  ASSUME Rows, UNCHANGED <<now, acct, mfa, codes, invite, made, used, wrong, notices, letters>>,
         NEW N, sess' = RevokeOnly(sess, N)
  PROVE  Rows'
<1>1. sess \in Sessions /\ now \in Nat
  BY DEF Rows, TypeA
<1>2. /\ sess' \in Sessions /\ DOMAIN sess' = DOMAIN sess
      /\ \A n \in DOMAIN sess : sess'[n] = IF n \in N THEN Revoked ELSE sess[n]
  <2>1. \A T : T = RevokeOnly(sess, N) =>
          /\ T \in Sessions /\ DOMAIN T = DOMAIN sess
          /\ \A n \in DOMAIN sess : T[n] = IF n \in N THEN Revoked ELSE sess[n]
    BY <1>1, RevokeOnlyGives
  <2> QED
    BY <2>1
<1>3. TypeA' /\ now' \in Nat /\ now' >= 1 /\ now <= now'
  BY <1>2 DEF Rows, TypeA
<1>4. \A n \in DOMAIN sess' : Live(n)' => Live(n) /\ sess'[n] = sess[n]
  BY <1>1, <1>2 DEF Live, Revoked
<1>5. SessionsStand' /\ OneSetup' /\ Lives'
  BY <1>3, <1>4, StandKept
<1>6. Counted' /\ Posted' /\ Newest'
  BY CountedKept, PostedKept DEF Rows, Newest
<1>7. Spent'
  BY DEF Rows, Spent, FactorsOnce
<1> QED
  BY <1>3, <1>5, <1>6, <1>7 DEF Rows

LEMMA NoneLive ==
  ASSUME sess \in Sessions, sess' = RevokeAll(sess), now' \in Nat
  PROVE  sess' \in Sessions /\ Len(sess) <= Len(sess') /\ \A n \in DOMAIN sess' : ~Live(n)'
<1>1. \A T : T = RevokeAll(sess) =>
        T \in Sessions /\ Len(T) = Len(sess) /\ DOMAIN T = DOMAIN sess /\ \A n \in DOMAIN sess : T[n] = Revoked
  BY RevokeAllGives
<1>2. sess' \in Sessions /\ Len(sess) <= Len(sess') /\ \A n \in DOMAIN sess' : sess'[n] = Revoked
  BY <1>1 DEF Sessions
<1> QED
  BY <1>2 DEF Live, Revoked

-----------------------------------------------------------------------------
(* A new session in the place of an old one.                               *)
Replaced(old, s, k) ==
  /\ sess' \in Sessions /\ Len(sess) <= Len(sess')
  /\ sess'[k] = s
  /\ \A n \in DOMAIN sess' : Live(n)' => n = k \/ (n # old /\ Live(n) /\ sess'[n] = sess[n])

LEMMA ReplaceGives ==
  ASSUME sess \in Sessions, NEW s \in SessionRow, NEW old
  PROVE  LET T == ReplaceSession(old, s) IN
         /\ T \in Sessions /\ Len(T) = Len(sess) + 1
         /\ DOMAIN T = DOMAIN sess \cup {Len(sess) + 1}
         /\ T[Len(sess) + 1] = s
         /\ \A n \in DOMAIN sess : T[n] = IF n = old THEN Revoked ELSE sess[n]
<1> DEFINE R == RevokeOnly(sess, {old})
           U == Append(R, s)
<1>1. /\ R \in Sessions /\ Len(R) = Len(sess) /\ DOMAIN R = DOMAIN sess
      /\ \A n \in DOMAIN sess : R[n] = IF n \in {old} THEN Revoked ELSE sess[n]
  BY RevokeOnlyGives
<1> HIDE DEF R
<1>2. /\ U \in Sessions /\ Len(U) = Len(R) + 1
      /\ DOMAIN U = DOMAIN R \cup {Len(R) + 1} /\ Len(R) + 1 \notin DOMAIN R
      /\ U[Len(R) + 1] = s
      /\ \A n \in DOMAIN R : U[n] = R[n]
  BY <1>1, AppendGives
<1>3. ReplaceSession(old, s) = U
  BY DEF R, ReplaceSession
<1> HIDE DEF U
<1>4. /\ U \in Sessions /\ Len(U) = Len(sess) + 1
      /\ DOMAIN U = DOMAIN sess \cup {Len(sess) + 1}
      /\ U[Len(sess) + 1] = s
      /\ \A n \in DOMAIN sess : U[n] = IF n = old THEN Revoked ELSE sess[n]
  BY <1>1, <1>2
<1> QED
  BY <1>3, <1>4

LEMMA ReplacedBy ==
  ASSUME sess \in Sessions, now \in Nat, now' = now,
         NEW s \in SessionRow, NEW old, sess' = ReplaceSession(old, s)
  PROVE  \E k : Replaced(old, s, k)
<1> DEFINE T == ReplaceSession(old, s)
<1>0. /\ T \in Sessions /\ Len(T) = Len(sess) + 1
      /\ DOMAIN T = DOMAIN sess \cup {Len(sess) + 1}
      /\ T[Len(sess) + 1] = s
      /\ \A n \in DOMAIN sess : T[n] = IF n = old THEN Revoked ELSE sess[n]
  BY ReplaceGives
<1> HIDE DEF T
<1>1. /\ sess' \in Sessions /\ Len(sess') = Len(sess) + 1
      /\ DOMAIN sess' = DOMAIN sess \cup {Len(sess) + 1}
      /\ sess'[Len(sess) + 1] = s
      /\ \A n \in DOMAIN sess : sess'[n] = IF n = old THEN Revoked ELSE sess[n]
  <2>1. sess' = T
    BY DEF T
  <2> QED
    BY <1>0, <2>1
<1>2. Len(sess) \in Nat /\ Revoked.expires = 0
  BY DEF Sessions, Revoked
<1>3. ASSUME NEW n \in DOMAIN sess', Live(n)', n # Len(sess) + 1
      PROVE  n # old /\ Live(n) /\ sess'[n] = sess[n]
  <2>1. n \in DOMAIN sess /\ now < sess'[n].expires
    BY <1>1, <1>3 DEF Live
  <2>2. n # old
    BY <1>1, <1>2, <2>1
  <2> QED
    BY <1>1, <2>1, <2>2 DEF Live
<1>4. Replaced(old, s, Len(sess) + 1)
  BY <1>1, <1>2, <1>3 DEF Replaced
<1> QED
  BY <1>4

(* What a step adds to the keys in use, and that it does not disable.       *)
Safe(K) ==
  /\ Stored' \subseteq Stored \cup K
  /\ acct'.status = "disabled" => acct.status = "disabled"
  /\ Len(sess) <= Len(sess')

LEMMA StoredFrom ==
  ASSUME NEW K,
         mfa' = NoMFA \/ (mfa # NoMFA /\ mfa'.key = mfa.key) \/ mfa'.key \in K,
         codes'.unused = {} \/ (codes'.unused \subseteq codes.unused /\ codes'.key = codes.key) \/ codes'.key \in K,
         invite'.live => (invite.live /\ invite'.key = invite.key) \/ invite'.key \in K
  PROVE  Stored' \subseteq Stored \cup K
BY DEF Stored, ListStoredKeyIDs

LEMMA CurrentKey == ASSUME TypeB, NEW i \in Instances PROVE Current(i) \in Keys
<1>1. ring[i] \in Rings
  BY DEF TypeB
<1> QED
  BY <1>1 DEF Current, Rings, Keys

LEMMA QuietSafe == ASSUME Rows, UNCHANGED access PROVE Safe({})
BY DEF Rows, TypeA, Sessions, access, Safe, Stored

LEMMA DropSafe ==
  ASSUME Rows, UNCHANGED <<acct, mfa, codes, invite>>, NEW N, sess' = RevokeOnly(sess, N)
  PROVE  Safe({})
<1>1. \A T : T = RevokeOnly(sess, N) => Len(T) = Len(sess)
  BY RevokeOnlyGives DEF Rows, TypeA
<1> QED
  BY <1>1 DEF Rows, TypeA, Sessions, Safe, Stored

-----------------------------------------------------------------------------
(* One lemma for each transaction that writes.                             *)
LEMMA DisableRows == ASSUME Rows, Disable PROVE Rows' /\ Stored' \subseteq Stored /\ Len(sess) <= Len(sess')
<1>1. /\ acct' = ManageDisable(acct) /\ sess' = RevokeAll(sess) /\ invite' = RevokeLiveInvite(invite)
      /\ UNCHANGED <<now, mfa, codes, made, used, wrong, notices, letters>>
  BY DEF Disable
<1>2. TypeA /\ now \in Nat /\ now >= 1
  BY DEF Rows
<1>3. /\ acct' \in Account /\ acct'.status = "disabled" /\ acct'.pw = acct.pw /\ acct'.failures = acct.failures
      /\ acct'.locked = acct.locked /\ acct'.notified = acct.notified
  BY <1>1, <1>2, ManageDisableGives DEF TypeA
<1>4. /\ invite' \in InviteRow /\ invite'.live = FALSE /\ invite'.row = invite.row /\ invite'.code = invite.code
      /\ invite'.sent = invite.sent /\ invite'.sends = invite.sends
  BY <1>1, <1>2, RevokeInviteGives DEF TypeA
<1>5. sess' \in Sessions /\ Len(sess) <= Len(sess') /\ \A n \in DOMAIN sess' : ~Live(n)'
  BY <1>1, <1>2, NoneLive DEF TypeA
<1>6. TypeA'
  BY <1>1, <1>2, <1>3, <1>4, <1>5 DEF TypeA
<1>7. SessionsStand' /\ OneSetup' /\ Lives'
  BY <1>3, <1>5, StandNone DEF Lives
<1>10. Stored' \subseteq Stored
  BY <1>1, <1>4 DEF Stored, ListStoredKeyIDs
<1>8. Counted' /\ Posted'
  BY <1>1, <1>3, <1>4, CountedKept, PostedKept
<1>9. Spent' /\ Newest'
  BY <1>1, <1>4 DEF Rows, Spent, FactorsOnce, Newest
<1> QED
  BY <1>1, <1>2, <1>5, <1>6, <1>7, <1>8, <1>9, <1>10 DEF Rows

(* What is typed.                                                          *)
LEMMA TypedFactors == ASSUME Rows PROVE \A f \in Typed : f \in Factor
<1>1. /\ mfa.secret \in Nat /\ codes.gen \in Nat /\ CodesIssued \in Nat
      /\ now - 1 \in Nat /\ now \in Nat /\ now + 1 \in Nat
  BY Constants DEF Rows, TypeA, SecondFactor, CodesRow
<1>2. \A d \in -1..1 : now + d \in Nat
  BY <1>1
<1> QED
  BY <1>1, <1>2 DEF Typed, Anything, Factor

LEMMA RecordFailureRows ==
  ASSUME Rows, UNCHANGED <<now, invite, made, letters>>, ~Locked, acct.status = "active", RecordFailure
  PROVE  Rows' /\ Safe({})
<1>1. UNCHANGED <<mfa, codes, used>> /\ wrong' = Append(wrong, now)
  BY DEF RecordFailure
<1>2. TypeA /\ now \in Nat /\ now >= 1 /\ Lives /\ Counted /\ Posted
  BY DEF Rows
<1>3. /\ acct \in Account /\ acct.failures \in Nat /\ acct.locked \in Nat
      /\ acct.notified \in Nat \cup {Never} /\ acct.locked <= now
  BY <1>2 DEF TypeA, Account, Locked
<1>4. /\ MaxFactorFailures \in Nat \ {0} /\ LockDuration \in Nat \ {0} /\ LockNotifyEvery \in Nat \ {0}
  BY Constants
<1>5. /\ wrong' \in Seq(Nat) /\ Len(wrong') = Len(wrong) + 1 /\ Len(wrong) \in Nat
      /\ wrong'[Len(wrong) + 1] = now
      /\ \A a \in 1..Len(wrong) : wrong'[a] = wrong[a] /\ wrong[a] \in Nat
  BY <1>1, <1>2, AppendNumbers DEF TypeA
<1>6. GuessesBounded'
  <2>1. SUFFICES ASSUME NEW a \in MaxFactorFailures..Len(wrong)
                 PROVE  wrong'[a + 1] - wrong'[a] >= LockDuration
    BY <1>5 DEF GuessesBounded
  <2>2. CASE a = Len(wrong)
    <3>1. acct.locked >= wrong[Len(wrong)] + LockDuration /\ Len(wrong) \in 1..Len(wrong)
      BY <1>2, <1>4, <1>5, <2>1, <2>2 DEF Counted
    <3>2. wrong'[a + 1] = now /\ wrong'[a] = wrong[Len(wrong)] /\ wrong[Len(wrong)] \in Nat
      BY <1>5, <2>2, <3>1
    <3> QED
      BY <1>2, <1>3, <1>4, <3>1, <3>2
  <2>3. CASE a # Len(wrong)
    <3>1. a \in MaxFactorFailures..(Len(wrong) - 1) /\ a \in 1..Len(wrong) /\ a + 1 \in 1..Len(wrong)
      BY <1>4, <1>5, <2>1, <2>3
    <3>2. wrong[a + 1] - wrong[a] >= LockDuration
      BY <1>2, <3>1 DEF Counted, GuessesBounded
    <3> QED
      BY <1>5, <3>1, <3>2
  <2> QED
    BY <2>2, <2>3
<1> DEFINE b == AddFactorFailure(acct)
<1>7. /\ b \in Account /\ b.status = acct.status /\ b.pw = acct.pw /\ b.failures = acct.failures + 1
      /\ b.locked = acct.locked /\ b.notified = acct.notified
  BY <1>3, AddFactorFailureGives
<1>8. CASE acct' = b /\ UNCHANGED <<sess, notices>> /\ ~Reaches(acct.failures + 1)
  <2>1. TypeA'
    BY <1>1, <1>2, <1>5, <1>7, <1>8 DEF TypeA
  <2>2. SessionsStand' /\ OneSetup' /\ Lives'
    <3>1. \A n \in DOMAIN sess' : Live(n)' => Live(n) /\ sess'[n] = sess[n]
      BY <1>8 DEF Live
    <3>2. now' \in Nat /\ now <= now' /\ acct'.pw = acct.pw /\ acct'.status = acct.status /\ acct'.locked = acct.locked
      BY <1>2, <1>7, <1>8
    <3> QED
      BY <1>1, <2>1, <3>1, <3>2, StandKept
  <2>3. Counted'
    BY <1>2, <1>3, <1>4, <1>5, <1>6, <1>7, <1>8 DEF Counted, Reaches
  <2>4. Posted'
    BY <1>7, <1>8, PostedKept
  <2>5. Spent' /\ Newest'
    BY <1>1 DEF Rows, Spent, FactorsOnce, Newest
  <2>6. Safe({})
    BY <1>1, <1>2, <1>7, <1>8 DEF TypeA, Sessions, Safe, Stored
  <2> QED
    BY <1>2, <2>1, <2>2, <2>3, <2>4, <2>5, <2>6 DEF Rows
<1>9. CASE LocksOut
  <2> DEFINE e == IF Notifies THEN now ELSE Never
  <2>1. e \in Nat \cup {Never} /\ now + LockDuration \in Nat
    BY <1>2, <1>4
  <2>2. acct' = LockOut(b, now + LockDuration, e)
    BY <1>9 DEF LocksOut
  <2>3. /\ acct' \in Account /\ acct'.status = acct.status /\ acct'.pw = acct.pw
        /\ acct'.failures = acct.failures + 1 /\ acct'.locked = now + LockDuration
        /\ acct'.notified = IF e = Never THEN acct.notified ELSE e
    <3> HIDE DEF b, e
    <3>1. LET c == LockOut(b, now + LockDuration, e) IN
          /\ c \in Account /\ c.status = b.status /\ c.pw = b.pw /\ c.failures = b.failures
          /\ c.locked = now + LockDuration /\ c.notified = IF e = Never THEN b.notified ELSE e
      BY <1>7, <2>1, LockOutGives
    <3> QED
      BY <1>7, <2>2, <3>1
  <2>4. sess' \in Sessions /\ Len(sess) <= Len(sess') /\ \A n \in DOMAIN sess' : ~Live(n)'
    BY <1>2, <1>9, NoneLive DEF TypeA, LocksOut
  <2>5. /\ notices' \in Seq(Nat)
        /\ \A a \in 1..(Len(notices') - 1) : notices'[a + 1] - notices'[a] >= LockNotifyEvery
        /\ acct'.notified = IF notices' = <<>> THEN Never ELSE notices'[Len(notices')]
    <3>1. CASE Notifies
      <4>1. notices' = Append(notices, now) /\ e = now /\ e # Never
        BY <1>2, <1>9, <3>1 DEF LocksOut, Never
      <4>2. /\ notices' \in Seq(Nat) /\ Len(notices') = Len(notices) + 1 /\ Len(notices) \in Nat
            /\ notices'[Len(notices) + 1] = now
            /\ \A a \in 1..Len(notices) : notices'[a] = notices[a] /\ notices[a] \in Nat
        BY <1>2, <4>1, AppendNumbers DEF TypeA
      <4>3. ASSUME NEW a \in 1..Len(notices) PROVE notices'[a + 1] - notices'[a] >= LockNotifyEvery
        <5>1. CASE a = Len(notices)
          <6>1. notices # <<>>
            BY <4>2, <5>1
          <6>2. acct.notified = notices[Len(notices)] /\ acct.notified \in Nat
            BY <1>2, <4>2, <5>1, <6>1 DEF Posted
          <6>3. now - acct.notified >= LockNotifyEvery
            BY <3>1, <6>2 DEF Notifies, Never
          <6> QED
            BY <4>2, <5>1, <6>2, <6>3
        <5>2. CASE a # Len(notices)
          <6>1. a \in 1..(Len(notices) - 1) /\ a + 1 \in 1..Len(notices)
            BY <4>2, <5>2
          <6>2. notices[a + 1] - notices[a] >= LockNotifyEvery
            BY <1>2, <6>1 DEF Posted, MailsSpaced
          <6> QED
            BY <4>2, <6>1, <6>2
        <5> QED
          BY <5>1, <5>2
      <4>4. notices' # <<>> /\ acct'.notified = now
        BY <2>3, <4>1, <4>2
      <4> QED
        BY <4>2, <4>3, <4>4
    <3>2. CASE ~Notifies
      <4>1. notices' = notices /\ acct'.notified = acct.notified
        BY <1>9, <2>3, <3>2 DEF LocksOut
      <4> QED
        BY <1>2, <4>1 DEF TypeA, Posted, MailsSpaced
    <3> QED
      BY <3>1, <3>2
  <2>6. TypeA'
    BY <1>1, <1>2, <1>5, <2>3, <2>4, <2>5 DEF TypeA
  <2>7. SessionsStand' /\ OneSetup' /\ Lives'
    <3>1. Lives'
      BY <1>1, <1>2, <2>3 DEF Lives
    <3> QED
      BY <2>4, <3>1, StandNone
  <2>8. Counted'
    BY <1>2, <1>3, <1>4, <1>5, <1>6, <2>3 DEF Counted
  <2>9. Posted'
    BY <1>2, <2>5 DEF Posted, MailsSpaced
  <2>10. Spent' /\ Newest'
    BY <1>1 DEF Rows, Spent, FactorsOnce, Newest
  <2>11. Safe({})
    BY <1>1, <2>3, <2>4 DEF Safe, Stored
  <2> QED
    BY <1>2, <2>6, <2>7, <2>8, <2>9, <2>10, <2>11 DEF Rows
<1> QED
  BY <1>8, <1>9 DEF RecordFailure

(* A factor that is accepted, and what is written of it.                   *)
LEMMA SpendGives ==
  ASSUME Rows, NEW i \in Instances, NEW f \in Factor, Accepts(i, f), Spend(f)
  PROVE  /\ mfa.confirmed /\ mfa # NoMFA /\ mfa' \in SecondFactor
         /\ mfa'.secret = mfa.secret /\ mfa'.key = mfa.key /\ mfa'.confirmed
         /\ mfa.step <= mfa'.step
         /\ codes' \in CodesRow /\ codes'.gen = codes.gen /\ codes'.key = codes.key
         /\ codes'.unused \subseteq codes.unused
         /\ codes' = codes \/ codes # NoCodes
         /\ used' \in Seq(Factor) /\ used' = Append(used, f) /\ wrong' = <<>>
         /\ \/ /\ f.by = "totp" /\ f.of = mfa.secret /\ 1 <= f.of /\ mfa.step < f.n /\ mfa'.step = f.n
            \/ /\ f.by = "recovery" /\ f.of = codes.gen /\ f.n \in codes.unused /\ codes.gen <= made.gen
               /\ codes'.gen = codes.gen /\ f.n \notin codes'.unused
<1>1. /\ TypeA /\ mfa.confirmed /\ mfa # NoMFA /\ mfa \in SecondFactor /\ codes \in CodesRow
      /\ f.of \in Nat /\ f.n \in Nat /\ mfa.step \in Nat /\ mfa.secret \in Nat
  BY RowsTyped DEF Rows, TypeA, Accepts, Factor, SecondFactor
<1>2. used' = Append(used, f) /\ used' \in Seq(Factor) /\ wrong' = <<>>
  BY <1>1 DEF Spend, TypeA
<1>3. CASE f.by = "totp"
  <2>1. f.of = mfa.secret /\ mfa.step < f.n /\ f.of # 0
    BY <1>1, <1>3 DEF Accepts, VerifyTOTP
  <2>2. mfa' = SetMFAStep(mfa, f.n) /\ codes' = codes
    BY <1>3 DEF Spend
  <2>3. /\ mfa' \in SecondFactor /\ mfa'.secret = mfa.secret /\ mfa'.key = mfa.key
        /\ (mfa'.confirmed <=> mfa.confirmed) /\ mfa'.step = f.n
    BY <1>1, <2>2, SetMFAStepGives
  <2> QED
    BY <1>1, <1>2, <1>3, <2>1, <2>2, <2>3
<1>4. CASE f.by # "totp"
  <2>1. f.of = codes.gen /\ f.n \in codes.unused
    BY <1>4 DEF Accepts, LockUnusedRecoveryCodes
  <2>2. mfa' = mfa /\ codes' = UseRecoveryCode(codes, f.n)
    BY <1>4 DEF Spend
  <2>3. /\ codes' \in CodesRow /\ codes'.gen = codes.gen /\ codes'.key = codes.key
        /\ codes'.unused = codes.unused \ {f.n}
    BY <1>1, <2>2, UseCodeGives
  <2>4. codes # NoCodes /\ f.by = "recovery"
    BY <1>4, <2>1, RowsTyped DEF Factor
  <2>5. codes.gen <= made.gen
    BY <1>1, <2>4 DEF TypeA
  <2> QED
    BY <1>1, <1>2, <2>1, <2>2, <2>3, <2>4, <2>5
<1> QED
  BY <1>3, <1>4

(* What one accepts of a factor keeps what is known of factors and codes.  *)
LEMMA SpendKeeps ==
  ASSUME Rows, NEW i \in Instances, NEW f \in Factor, Accepts(i, f), Spend(f), TypeA',
         UNCHANGED invite, made'.secret = made.secret, made'.gen = made.gen, made'.code = made.code,
         acct'.failures = 0
  PROVE  Counted' /\ Spent' /\ Newest'
<1>1. /\ mfa # NoMFA /\ mfa'.secret = mfa.secret /\ mfa.step <= mfa'.step
      /\ codes'.gen = codes.gen /\ codes'.unused \subseteq codes.unused /\ (codes' = codes \/ codes # NoCodes)
      /\ used' = Append(used, f) /\ wrong' = <<>>
      /\ \/ /\ f.by = "totp" /\ f.of = mfa.secret /\ 1 <= f.of /\ mfa.step < f.n /\ mfa'.step = f.n
         \/ /\ f.by = "recovery" /\ f.of = codes.gen /\ f.n \in codes.unused /\ codes.gen <= made.gen
            /\ codes'.gen = codes.gen /\ f.n \notin codes'.unused
  BY SpendGives
<1>2. made.gen <= made'.gen
  BY DEF Rows, TypeA, Counts
<1>3. Spent'
  BY <1>1, <1>2, SpentMore
<1>4. Counted'
  BY <1>1, CountedReset
<1>5. Newest'
  BY <1>1 DEF Rows, Newest
<1> QED
  BY <1>3, <1>4, <1>5

LEMMA PassFactorRows ==
  ASSUME Rows, TypeB, NEW t \in Tabs, NEW f \in Typed, PassFactor(t, f)
  PROVE  Rows' /\ Safe({})
<1> DEFINE n0 == req[t].sid
           ex == IF req[t].op = "unlock" THEN sess[n0].expires ELSE now + SessionTTL
           s  == Session("active", ex, sess[n0].pw, mfa.secret)
<1>1. /\ UNCHANGED <<now, invite, letters, notices, made>> /\ LiveSession(n0) /\ Accepts(req[t].at, f) /\ Spend(f)
      /\ acct' = FactorSucceeded(acct) /\ sess' = ReplaceSession(n0, s)
  BY DEF PassFactor, Succeeds, WithFactor, Alone
<1>2. /\ TypeA /\ now \in Nat /\ now >= 1 /\ acct \in Account /\ sess \in Sessions /\ req[t].at \in Instances
      /\ f \in Factor
  BY TypedFactors DEF Rows, TypeA, TypeB, Request
<1>3. /\ acct' \in Account /\ acct'.status = acct.status /\ acct'.pw = acct.pw /\ acct'.failures = 0
      /\ acct'.locked = acct.locked /\ acct'.notified = acct.notified
  BY <1>1, <1>2, FactorSucceededGives
<1>4. n0 \in DOMAIN sess /\ now < sess[n0].expires /\ acct.status = "active" /\ ~Locked
  BY <1>1 DEF LiveSession, Live
<1>5. sess[n0].pw = acct.pw
  BY <1>4 DEF Rows, SessionsStand, Live
<1>6. s \in SessionRow /\ s.stage = "active" /\ s.expires = ex /\ s.pw = acct.pw /\ s.secret = mfa.secret
  <2>1. ex \in Nat /\ sess[n0].pw \in Nat /\ mfa.secret \in Nat
    BY <1>2, <1>4, SessionColumns, Constants DEF TypeA, SecondFactor
  <2> HIDE DEF ex
  <2>2. LET q == Session("active", ex, sess[n0].pw, mfa.secret) IN
        q \in SessionRow /\ q.stage = "active" /\ q.expires = ex /\ q.pw = sess[n0].pw /\ q.secret = mfa.secret
    BY <2>1, ActiveSessionGives
  <2> QED
    BY <1>5, <2>2
<1> HIDE DEF s, ex
<1>7. PICK k : Replaced(n0, s, k)
  BY <1>1, <1>2, <1>6, ReplacedBy
<1>8. /\ mfa.confirmed /\ mfa' \in SecondFactor /\ mfa'.secret = mfa.secret /\ mfa'.confirmed /\ mfa # NoMFA
      /\ mfa'.key = mfa.key /\ codes'.key = codes.key /\ codes'.unused \subseteq codes.unused
      /\ codes' \in CodesRow /\ codes'.gen = codes.gen /\ (codes' = codes \/ codes # NoCodes)
      /\ used' \in Seq(Factor) /\ wrong' = <<>>
  BY <1>1, <1>2, SpendGives
<1>9. TypeA'
  BY <1>1, <1>2, <1>3, <1>7, <1>8 DEF TypeA, Replaced
<1>10. Counted' /\ Spent' /\ Newest'
  BY <1>1, <1>2, <1>3, <1>9, SpendKeeps
<1>11. Posted'
  BY <1>1, <1>3, PostedKept
<1>12. SessionsStand' /\ OneSetup' /\ Lives'
  <2>1. Lives' /\ acct'.status # "invited"
    BY <1>3, <1>4, <1>8 DEF Lives
  <2>2. Stands(k)'
    <3>1. ~Locked'
      BY <1>1, <1>3, <1>4 DEF Locked
    <3> QED
      BY <1>3, <1>4, <1>6, <1>7, <1>8, <3>1 DEF Stands, Replaced
  <2>3. \A n \in DOMAIN sess' : Live(n)' => n = k \/ (Live(n) /\ sess'[n] = sess[n])
    BY <1>7 DEF Replaced
  <2> QED
    BY <1>1, <1>3, <1>8, <2>1, <2>2, <2>3, StandMore
<1>13. Safe({})
  BY <1>1, <1>3, <1>7, <1>8, StoredFrom DEF Safe, Replaced
<1> QED
  BY <1>1, <1>2, <1>9, <1>10, <1>11, <1>12, <1>13 DEF Rows
(* What is made is counted.                                                *)
LEMMA MorePasswords ==
  ASSUME made \in Counts, made' = [made EXCEPT !.pw = @ + 1]
  PROVE  /\ made' \in Counts /\ made'.pw = made.pw + 1 /\ made'.pw \in Nat
         /\ made'.secret = made.secret /\ made'.gen = made.gen /\ made'.code = made.code /\ made'.row = made.row
BY DEF Counts

LEMMA MoreSecrets ==
  ASSUME made \in Counts, made' = [made EXCEPT !.secret = @ + 1]
  PROVE  /\ made' \in Counts /\ made'.secret = made.secret + 1 /\ made'.secret \in Nat
         /\ made'.pw = made.pw /\ made'.gen = made.gen /\ made'.code = made.code /\ made'.row = made.row
BY DEF Counts

LEMMA MoreGenerations ==
  ASSUME made \in Counts, made' = [made EXCEPT !.gen = @ + 1]
  PROVE  /\ made' \in Counts /\ made'.gen = made.gen + 1 /\ made'.gen \in Nat
         /\ made'.pw = made.pw /\ made'.secret = made.secret /\ made'.code = made.code /\ made'.row = made.row
BY DEF Counts

LEMMA MoreCodes ==
  ASSUME made \in Counts, made' = [made EXCEPT !.code = @ + 1]
  PROVE  /\ made' \in Counts /\ made'.code = made.code + 1 /\ made'.code \in Nat
         /\ made'.pw = made.pw /\ made'.secret = made.secret /\ made'.gen = made.gen /\ made'.row = made.row
BY DEF Counts

LEMMA MoreInvites ==
  ASSUME made \in Counts, made' = [made EXCEPT !.code = @ + 1, !.row = @ + 1]
  PROVE  /\ made' \in Counts /\ made'.code = made.code + 1 /\ made'.row = made.row + 1
         /\ made'.code \in Nat /\ made'.row \in Nat
         /\ made'.pw = made.pw /\ made'.secret = made.secret /\ made'.gen = made.gen
<1> DEFINE c == made.code + 1
           r == made.row + 1
<1>1. c \in Nat /\ r \in Nat
  BY DEF Counts
<1>2. made' = [made EXCEPT !.code = c, !.row = r]
  OBVIOUS
<1> HIDE DEF c, r
<1>3. /\ made' \in Counts /\ made'.code = c /\ made'.row = r
      /\ made'.pw = made.pw /\ made'.secret = made.secret /\ made'.gen = made.gen
  BY <1>1, <1>2 DEF Counts
<1> QED
  BY <1>1, <1>3 DEF c, r

(* The new password is the one of the session that stays.                  *)
LEMMA ChangePasswordRows ==
  ASSUME Rows, TypeB, NEW t \in Tabs, NEW f \in Typed, ChangePassword(t, f)
  PROVE  Rows' /\ Safe({})
<1>0. PICK n0 : n0 = req[t].sid
  OBVIOUS
<1> DEFINE N  == ListLiveSessions(sess, now) \ {n0}
           R  == RevokeOnly(sess, N)
           b  == FactorSucceeded(acct)
<1>1. /\ UNCHANGED <<now, invite, letters, notices>> /\ LiveSession(n0) /\ Accepts(req[t].at, f) /\ Spend(f)
      /\ made' = [made EXCEPT !.pw = @ + 1] /\ acct' = SetPassword(b, made'.pw)
      /\ sess' = [R EXCEPT ![n0].pw = made'.pw]
  BY <1>0 DEF ChangePassword, Succeeds, WithFactor, Alone, RevokeOtherSessions
<1>2. /\ TypeA /\ now \in Nat /\ now >= 1 /\ acct \in Account /\ sess \in Sessions /\ req[t].at \in Instances
      /\ f \in Factor /\ made \in Counts
  BY TypedFactors DEF Rows, TypeA, TypeB, Request
<1>3. /\ made' \in Counts /\ made'.pw = made.pw + 1 /\ made'.pw \in Nat
      /\ made'.secret = made.secret /\ made'.gen = made.gen /\ made'.code = made.code /\ made'.row = made.row
  BY <1>1, <1>2, MorePasswords
<1>4. /\ acct' \in Account /\ acct'.status = acct.status /\ acct'.pw = made'.pw /\ acct'.failures = 0
      /\ acct'.locked = acct.locked /\ acct'.notified = acct.notified
  <2>1. /\ b \in Account /\ b.status = acct.status /\ b.pw = acct.pw /\ b.failures = 0
        /\ b.locked = acct.locked /\ b.notified = acct.notified
    BY <1>2, FactorSucceededGives
  <2> HIDE DEF b
  <2> QED
    BY <1>1, <1>3, <2>1, SetPasswordGives
<1>5. n0 \in DOMAIN sess /\ now < sess[n0].expires /\ acct.status = "active" /\ ~Locked
  BY <1>1 DEF LiveSession, Live
<1>6. /\ R \in Sessions /\ Len(R) = Len(sess) /\ DOMAIN R = DOMAIN sess
      /\ \A n \in DOMAIN sess : R[n] = IF n \in N THEN Revoked ELSE sess[n]
  BY <1>2, RevokeOnlyGives
<1>7. R[n0] = sess[n0] /\ sess[n0] \in SessionRow
  <2>1. Revoked.expires = 0 /\ (sess[n0] = Revoked \/ sess[n0] \in SessionRow)
    BY <1>2, <1>5, SessionColumns
  <2> QED
    <3>1. sess[n0] # Revoked
      BY <1>2, <1>5, <2>1
    <3>2. n0 \notin N
      OBVIOUS
    <3> HIDE DEF R, N
    <3> QED
      BY <1>5, <1>6, <2>1, <3>1, <3>2
<1>8. \A n \in DOMAIN sess : n # n0 => R[n] = Revoked \/ (R[n] = sess[n] /\ ~(now < sess[n].expires))
  BY <1>6 DEF ListLiveSessions
<1> DEFINE p == made'.pw
           s == [sess[n0] EXCEPT !.pw = p]
<1>9. s \in SessionRow /\ s.pw = p /\ s.stage = sess[n0].stage /\ s.secret = sess[n0].secret
  <2> HIDE DEF p
  <2>1. p \in Nat
    BY <1>3 DEF p
  <2> QED
    BY <1>7, <2>1 DEF SessionRow
<1>10. /\ sess' \in Sessions /\ Len(sess') = Len(sess) /\ DOMAIN sess' = DOMAIN sess
       /\ sess'[n0] = s /\ \A n \in DOMAIN sess : n # n0 => sess'[n] = R[n]
  <2>1. sess' = [R EXCEPT ![n0] = s]
    BY <1>1, <1>7
  <2> HIDE DEF R, s
  <2> QED
    BY <1>2, <1>5, <1>6, <1>9, <2>1 DEF Sessions
<1> HIDE DEF R, s
<1>11. \A n \in DOMAIN sess' : n # n0 => ~Live(n)'
  <2>1. Revoked.expires = 0
    BY DEF Revoked
  <2> QED
    BY <1>1, <1>2, <1>8, <1>10, <2>1 DEF Live
<1>12. /\ mfa.confirmed /\ mfa' \in SecondFactor /\ mfa'.secret = mfa.secret /\ mfa'.confirmed /\ mfa # NoMFA
       /\ mfa'.key = mfa.key /\ codes'.key = codes.key /\ codes'.unused \subseteq codes.unused
       /\ codes' \in CodesRow /\ codes'.gen = codes.gen /\ (codes' = codes \/ codes # NoCodes)
       /\ used' \in Seq(Factor) /\ wrong' = <<>>
  BY <1>1, <1>2, SpendGives
<1>13. TypeA'
  BY <1>1, <1>2, <1>3, <1>4, <1>10, <1>12 DEF TypeA
<1>14. Counted' /\ Spent' /\ Newest'
  BY <1>1, <1>2, <1>3, <1>4, <1>13, SpendKeeps
<1>15. Posted'
  BY <1>1, <1>4, PostedKept
<1>16. SessionsStand' /\ OneSetup' /\ Lives'
  <2>1. Lives'
    BY <1>4, <1>5, <1>12 DEF Lives
  <2>2. ~Locked'
    BY <1>1, <1>4, <1>5 DEF Locked
  <2>3. /\ sess[n0].stage = "active" => sess[n0].secret = mfa.secret
        /\ sess[n0].stage # "setup"
    BY <1>5 DEF Rows, SessionsStand, Live
  <2>4. Stands(n0)'
    BY <1>4, <1>5, <1>9, <1>10, <1>12, <2>2, <2>3 DEF Stands
  <2> QED
    BY <1>11, <2>1, <2>4, StandOne
<1>17. Safe({})
  <2>1. Stored' \subseteq Stored \cup {}
    BY <1>1, <1>12, StoredFrom
  <2>2. Len(sess) <= Len(sess')
    BY <1>2, <1>10 DEF Sessions
  <2> QED
    BY <1>4, <2>1, <2>2 DEF Safe
<1> QED
  BY <1>1, <1>2, <1>13, <1>14, <1>15, <1>16, <1>17 DEF Rows

(* New recovery codes: the old generation is not looked at any more.       *)
LEMMA RegenerateRecoveryRows ==
  ASSUME Rows, TypeB, NEW t \in Tabs, NEW f \in Typed, RegenerateRecovery(t, f)
  PROVE  Rows' /\ Safe({Current(req[t].at)})
<1> DEFINE i == req[t].at
<1>1. /\ UNCHANGED <<now, invite, letters, notices, sess>> /\ LiveSession(req[t].sid) /\ Accepts(i, f)
      /\ f.by = "totp" /\ mfa' = SetMFAStep(mfa, f.n) /\ used' = Append(used, f) /\ wrong' = <<>>
      /\ made' = [made EXCEPT !.gen = @ + 1] /\ codes' = InsertRecoveryCodes(made'.gen, Current(i))
      /\ acct' = FactorSucceeded(acct)
  BY DEF RegenerateRecovery, Succeeds, WithFactor, Alone, IssueRecoveryCodes
<1>2. /\ TypeA /\ now \in Nat /\ now >= 1 /\ acct \in Account /\ i \in Instances
      /\ f \in Factor /\ made \in Counts /\ mfa \in SecondFactor /\ used \in Seq(Factor)
      /\ f.n \in Nat /\ f.of \in Nat /\ mfa.step \in Nat
  BY TypedFactors DEF Rows, TypeA, TypeB, Request, Factor, SecondFactor
<1>3. /\ made' \in Counts /\ made'.gen = made.gen + 1 /\ made'.gen \in Nat
      /\ made'.pw = made.pw /\ made'.secret = made.secret /\ made'.code = made.code /\ made'.row = made.row
  BY <1>1, <1>2, MoreGenerations
<1>4. /\ acct' \in Account /\ acct'.status = acct.status /\ acct'.pw = acct.pw /\ acct'.failures = 0
      /\ acct'.locked = acct.locked /\ acct'.notified = acct.notified
  BY <1>1, <1>2, FactorSucceededGives
<1>5. /\ mfa' \in SecondFactor /\ mfa'.secret = mfa.secret /\ mfa'.key = mfa.key
      /\ (mfa'.confirmed <=> mfa.confirmed) /\ mfa'.step = f.n
  BY <1>1, <1>2, SetMFAStepGives
<1>6. mfa.confirmed /\ mfa # NoMFA /\ f.of = mfa.secret /\ 1 <= f.of /\ mfa.step < f.n
  <2>1. mfa.confirmed /\ f.of = mfa.secret /\ mfa.step < f.n
    BY <1>1, <1>2 DEF Accepts, VerifyTOTP
  <2> QED
    BY <1>2, <2>1, RowsTyped DEF TypeA
<1>7. codes' \in CodesRow /\ codes'.gen = made'.gen /\ codes'.key = Current(i)
  BY <1>1, <1>2, <1>3, CurrentKey, InsertCodesGives
<1>8. used' \in Seq(Factor)
  BY <1>1, <1>2
<1>9. made.gen \in Nat /\ 1 <= made'.gen /\ made.gen < made'.gen
  BY <1>2, <1>3 DEF Counts
<1>10. TypeA'
  BY <1>1, <1>2, <1>3, <1>4, <1>5, <1>6, <1>7, <1>8, <1>9 DEF TypeA
<1>11. Spent'
  BY <1>1, <1>2, <1>3, <1>5, <1>6, <1>7, <1>9, <1>10, SpentMore
<1>12. Counted' /\ Posted'
  BY <1>1, <1>4, CountedReset, PostedKept
<1>13. Newest'
  BY <1>1, <1>3, <1>5, <1>6, <1>7 DEF Rows, Newest
<1>14. SessionsStand' /\ OneSetup' /\ Lives'
  <2>1. \A n \in DOMAIN sess' : Live(n)' => Live(n) /\ sess'[n] = sess[n]
    BY <1>1 DEF Live
  <2>2. now' \in Nat /\ now <= now'
    BY <1>1, <1>2
  <2> QED
    BY <1>1, <1>4, <1>5, <1>10, <2>1, <2>2, StandKept
<1>15. Safe({Current(i)})
  <2>1. Stored' \subseteq Stored \cup {Current(i)}
    BY <1>1, <1>5, <1>6, <1>7, StoredFrom
  <2>2. Len(sess) <= Len(sess')
    BY <1>1 DEF Rows, TypeA, Sessions
  <2> QED
    BY <1>4, <2>1, <2>2 DEF Safe
<1> QED
  BY <1>1, <1>2, <1>10, <1>11, <1>12, <1>13, <1>14, <1>15 DEF Rows
(* A session of the step of the password stands beside the others.         *)
LEMMA LoginTxRows ==
  ASSUME Rows, TypeB, NEW t \in Tabs, LoginTx(t)
  PROVE  Rows' /\ Safe({})
<1>0. PICK n0 : n0 = req[t].sid
  OBVIOUS
<1>1. PICK s : s = Session("mfa_pending", now + MFAPendingTTL, req[t].known, 0)
  OBVIOUS
<1>2. /\ UNCHANGED <<now, acct, mfa, codes, invite, made, used, wrong, notices, letters>>
      /\ acct.status = "active" /\ ~Locked /\ acct.pw = req[t].known /\ sess' = ReplaceSession(n0, s)
  BY <1>0, <1>1 DEF LoginTx, StillUsable, Alone
<1>3. TypeA /\ now \in Nat /\ now >= 1 /\ sess \in Sessions /\ req[t].known \in Nat /\ Lives
  BY DEF Rows, TypeA, TypeB, Request
<1>4. s \in SessionRow /\ s.stage = "mfa_pending" /\ s.pw = acct.pw
  <2>1. now + MFAPendingTTL \in Nat
    BY <1>3, Constants
  <2> DEFINE e == now + MFAPendingTTL
  <2> HIDE DEF e
  <2>2. LET q == Session("mfa_pending", e, req[t].known, 0) IN
        q \in SessionRow /\ q.stage = "mfa_pending" /\ q.expires = e /\ q.pw = req[t].known /\ q.secret = 0
    BY <1>3, <2>1, PendingSessionGives DEF e
  <2> QED
    BY <1>1, <1>2, <2>2 DEF e
<1>5. PICK k : Replaced(n0, s, k)
  BY <1>2, <1>3, <1>4, ReplacedBy
<1>6. TypeA'
  BY <1>2, <1>3, <1>5 DEF TypeA, Replaced
<1>7. SessionsStand' /\ OneSetup' /\ Lives'
  <2>1. Lives' /\ acct'.status # "invited"
    BY <1>2, <1>3 DEF Lives
  <2>2. Stands(k)'
    BY <1>2, <1>4, <1>5 DEF Stands, Replaced, Locked
  <2>3. \A n \in DOMAIN sess' : Live(n)' => n = k \/ (Live(n) /\ sess'[n] = sess[n])
    BY <1>5 DEF Replaced
  <2> QED
    BY <1>2, <2>1, <2>2, <2>3, StandMore
<1>8. Counted' /\ Posted'
  BY <1>2, CountedKept, PostedKept
<1>9. Spent' /\ Newest'
  BY <1>2 DEF Rows, Spent, FactorsOnce, Newest
<1>10. Safe({})
  BY <1>2, <1>5 DEF Safe, Stored, Replaced
<1> QED
  BY <1>2, <1>3, <1>6, <1>7, <1>8, <1>9, <1>10 DEF Rows

(* A secret of the set-up is not issued again.                             *)
LEMMA MFASetupRows ==
  ASSUME Rows, TypeB, NEW t \in Tabs, MFASetup(t)
  PROVE  Rows' /\ Safe({Current(req[t].at)})
<1> DEFINE i == req[t].at
<1>1. /\ UNCHANGED <<now, acct, sess, codes, invite, used, wrong, notices, letters>> /\ acct.status = "invited"
      /\ made' = [made EXCEPT !.secret = @ + 1] /\ mfa' = UpsertPendingMFA(made'.secret, Current(i))
  BY DEF MFASetup, SetUp, SetupSession, Alone
<1>2. TypeA /\ now \in Nat /\ now >= 1 /\ i \in Instances /\ made \in Counts /\ sess \in Sessions
  BY DEF Rows, TypeA, TypeB, Request
<1>3. /\ made' \in Counts /\ made'.secret = made.secret + 1 /\ made'.secret \in Nat
      /\ made'.pw = made.pw /\ made'.gen = made.gen /\ made'.code = made.code /\ made'.row = made.row
  BY <1>1, <1>2, MoreSecrets
<1>4. mfa' \in SecondFactor /\ mfa'.secret = made'.secret /\ mfa'.key = Current(i)
  BY <1>1, <1>2, <1>3, CurrentKey, PendingGives
<1>5. made.secret \in Nat /\ 1 <= made'.secret /\ made.secret < made'.secret
  BY <1>2, <1>3 DEF Counts
<1>6. TypeA'
  BY <1>1, <1>2, <1>3, <1>4, <1>5 DEF TypeA
<1>7. SessionsStand' /\ OneSetup' /\ Lives'
  BY <1>1, StandInvited
<1>8. Counted' /\ Posted'
  BY <1>1, CountedKept, PostedKept
<1>9. Spent'
  <2>1. made.secret <= made'.secret /\ made.gen <= made'.gen
    BY <1>2, <1>3, <1>5 DEF Counts
  <2> QED
    BY <1>1, <1>4, <1>5, <1>6, <2>1, SpentKept
<1>10. Newest'
  BY <1>1, <1>3, <1>4 DEF Rows, Newest
<1>11. Safe({Current(i)})
  <2>1. Stored' \subseteq Stored \cup {Current(i)}
    BY <1>1, <1>4, StoredFrom
  <2>2. Len(sess) <= Len(sess')
    BY <1>1, <1>2 DEF Sessions
  <2> QED
    BY <1>1, <2>1, <2>2 DEF Safe
<1> QED
  BY <1>1, <1>2, <1>6, <1>7, <1>8, <1>9, <1>10, <1>11 DEF Rows

LEMMA MFAConfirmRows ==
  ASSUME Rows, TypeB, NEW t \in Tabs, NEW f \in Typed, MFAConfirm(t, f)
  PROVE  Rows' /\ Safe({Current(req[t].at)})
<1> DEFINE i == req[t].at
<1>1. /\ UNCHANGED <<now, acct, sess, invite, wrong, notices, letters>> /\ acct.status = "invited"
      /\ mfa # NoMFA /\ f.by = "totp" /\ f.of = mfa.secret /\ f.n > mfa.step
      /\ mfa' = ConfirmMFA(mfa, f.n) /\ used' = Append(used, f)
      /\ made' = [made EXCEPT !.gen = @ + 1] /\ codes' = InsertRecoveryCodes(made'.gen, Current(i))
  BY DEF MFAConfirm, SetUp, SetupSession, Alone, VerifyTOTP, IssueRecoveryCodes, LockMFA
<1>2. /\ TypeA /\ now \in Nat /\ now >= 1 /\ i \in Instances /\ made \in Counts /\ sess \in Sessions
      /\ f \in Factor /\ mfa \in SecondFactor /\ used \in Seq(Factor)
      /\ f.n \in Nat /\ f.of \in Nat /\ mfa.step \in Nat
  BY TypedFactors DEF Rows, TypeA, TypeB, Request, Factor, SecondFactor
<1>3. /\ made' \in Counts /\ made'.gen = made.gen + 1 /\ made'.gen \in Nat
      /\ made'.pw = made.pw /\ made'.secret = made.secret /\ made'.code = made.code /\ made'.row = made.row
  BY <1>1, <1>2, MoreGenerations
<1>4. /\ mfa' \in SecondFactor /\ mfa'.secret = mfa.secret /\ mfa'.key = mfa.key /\ mfa'.confirmed
      /\ mfa'.step = f.n
  BY <1>1, <1>2, ConfirmMFAGives
<1>5. codes' \in CodesRow /\ codes'.gen = made'.gen /\ codes'.key = Current(i)
  BY <1>1, <1>2, <1>3, CurrentKey, InsertCodesGives
<1>6. /\ used' \in Seq(Factor) /\ made.gen \in Nat /\ 1 <= made'.gen /\ made.gen < made'.gen
      /\ 1 <= f.of /\ mfa.step < f.n
  <2>1. used' \in Seq(Factor)
    BY <1>1, <1>2
  <2>2. 1 <= mfa.secret
    BY <1>1, <1>2 DEF TypeA
  <2>3. made.gen \in Nat
    BY <1>2 DEF Counts
  <2> QED
    BY <1>1, <1>2, <1>3, <2>1, <2>2, <2>3
<1>7. TypeA'
  BY <1>1, <1>2, <1>3, <1>4, <1>5, <1>6 DEF TypeA
<1>8. SessionsStand' /\ OneSetup' /\ Lives'
  BY <1>1, StandInvited
<1>9. Counted' /\ Posted'
  BY <1>1, CountedKept, PostedKept
<1>10. Spent'
  BY <1>1, <1>2, <1>3, <1>4, <1>5, <1>6, <1>7, SpentMore
<1>11. Newest'
  BY <1>1, <1>3, <1>4, <1>5 DEF Rows, Newest
<1>12. Safe({Current(i)})
  <2>1. Stored' \subseteq Stored \cup {Current(i)}
    BY <1>1, <1>4, <1>5, StoredFrom
  <2>2. Len(sess) <= Len(sess')
    BY <1>1, <1>2 DEF Sessions
  <2> QED
    BY <1>1, <2>1, <2>2 DEF Safe
<1> QED
  BY <1>1, <1>2, <1>7, <1>8, <1>9, <1>10, <1>11, <1>12 DEF Rows

(* The only session of the set-up becomes the first one of work.           *)
LEMMA RecoveryAckRows ==
  ASSUME Rows, TypeB, NEW t \in Tabs, RecoveryAck(t)
  PROVE  Rows' /\ Safe({})
<1>0. PICK n0 : n0 = req[t].sid
  OBVIOUS
<1>1. PICK s : s = Session("active", sess[n0].expires, sess[n0].pw, mfa.secret)
  OBVIOUS
<1>2. /\ UNCHANGED <<now, mfa, codes, made, used, notices, letters>> /\ Live(n0) /\ acct.status = "invited"
      /\ mfa.confirmed /\ invite' = ConsumeInvite(invite) /\ acct' = ActivateAccount(acct) /\ wrong' = <<>>
      /\ sess' = ReplaceSession(n0, s)
  BY <1>0, <1>1 DEF RecoveryAck, SetUp, SetupSession, Alone
<1>3. /\ TypeA /\ now \in Nat /\ now >= 1 /\ sess \in Sessions /\ acct \in Account /\ invite \in InviteRow
      /\ n0 \in DOMAIN sess
  BY <1>2 DEF Rows, TypeA, Live
<1>4. /\ acct' \in Account /\ acct'.status = "active" /\ acct'.pw = acct.pw /\ acct'.failures = 0
      /\ acct'.locked = acct.locked /\ acct'.notified = acct.notified
  BY <1>2, <1>3, ActivateAccountGives
<1>5. /\ invite' \in InviteRow /\ invite'.live = FALSE /\ invite'.row = invite.row /\ invite'.code = invite.code
      /\ invite'.sent = invite.sent /\ invite'.sends = invite.sends
  BY <1>2, <1>3, ConsumeInviteGives
<1>6. sess[n0].pw = acct.pw /\ ~Locked
  BY <1>2, <1>3 DEF Rows, SessionsStand
<1>7. s \in SessionRow /\ s.stage = "active" /\ s.pw = acct.pw /\ s.secret = mfa.secret
  <2>1. sess[n0].expires \in Nat /\ sess[n0].pw \in Nat /\ mfa.secret \in Nat
    BY <1>3, SessionColumns DEF TypeA, SecondFactor
  <2>2. LET q == Session("active", sess[n0].expires, sess[n0].pw, mfa.secret) IN
        /\ q \in SessionRow /\ q.stage = "active" /\ q.expires = sess[n0].expires /\ q.pw = sess[n0].pw
        /\ q.secret = mfa.secret
    BY <2>1, ActiveSessionGives
  <2> QED
    BY <1>1, <1>6, <2>2
<1>8. PICK k : Replaced(n0, s, k)
  BY <1>2, <1>3, <1>7, ReplacedBy
<1>9. TypeA'
  BY <1>2, <1>3, <1>4, <1>5, <1>8 DEF TypeA, Replaced
<1>10. SessionsStand' /\ OneSetup' /\ Lives'
  <2>1. Lives'
    BY <1>2, <1>4 DEF Lives
  <2>2. Stands(k)'
    BY <1>2, <1>4, <1>6, <1>7, <1>8 DEF Stands, Replaced, Locked
  <2>3. ASSUME NEW n \in DOMAIN sess', n # k PROVE ~Live(n)'
    <3>1. Live(n)' => n # n0 /\ Live(n)
      BY <1>8, <2>3 DEF Replaced
    <3>2. ~(n # n0 /\ Live(n))
      BY <1>2 DEF Rows, OneSetup, Live
    <3> QED
      BY <3>1, <3>2
  <2> QED
    BY <2>1, <2>2, <2>3, StandOne
<1>11. Counted' /\ Posted'
  BY <1>2, <1>4, <1>5, CountedReset, PostedKept
<1>12. Spent' /\ Newest'
  BY <1>2, <1>5 DEF Rows, Spent, FactorsOnce, Newest
<1>13. Safe({})
  <2>1. Stored' \subseteq Stored \cup {}
    BY <1>2, <1>5, StoredFrom
  <2> QED
    BY <1>4, <1>8, <2>1 DEF Safe, Replaced
<1> QED
  BY <1>2, <1>3, <1>9, <1>10, <1>11, <1>12, <1>13 DEF Rows

(* The set-up begins again with nothing, and with one session.             *)
LEMMA AcceptInviteRows ==
  ASSUME Rows, TypeB, NEW t \in Tabs, AcceptInvite(t)
  PROVE  Rows' /\ Safe({})
<1> DEFINE R == RevokeAll(sess)
<1>1. PICK s : s = Session("setup", now + SessionTTL, made'.pw, 0)
  OBVIOUS
<1>2. /\ UNCHANGED <<now, invite, used, notices, letters>> /\ acct.status = "invited"
      /\ made' = [made EXCEPT !.pw = @ + 1] /\ acct' = AcceptInvitePassword(acct, made'.pw)
      /\ sess' = Append(R, s) /\ mfa' = NoMFA /\ codes' = NoCodes /\ wrong' = <<>>
  BY <1>1 DEF AcceptInvite, Acceptable, GetInviteCandidate, Alone
<1>3. /\ TypeA /\ now \in Nat /\ now >= 1 /\ sess \in Sessions /\ acct \in Account /\ made \in Counts /\ Lives
  BY DEF Rows, TypeA
<1>4. /\ made' \in Counts /\ made'.pw = made.pw + 1 /\ made'.pw \in Nat
      /\ made'.secret = made.secret /\ made'.gen = made.gen /\ made'.code = made.code /\ made'.row = made.row
  BY <1>2, <1>3, MorePasswords
<1>5. /\ acct' \in Account /\ acct'.status = acct.status /\ acct'.pw = made'.pw /\ acct'.failures = 0
      /\ acct'.locked = 0 /\ acct'.notified = acct.notified
  BY <1>2, <1>3, <1>4, AcceptInvitePasswordGives
<1>6. s \in SessionRow /\ s.stage = "setup" /\ s.pw = made'.pw
  <2> DEFINE e == now + SessionTTL
  <2>1. e \in Nat
    BY <1>3, Constants
  <2> HIDE DEF e
  <2>2. LET q == Session("setup", e, made'.pw, 0) IN
        q \in SessionRow /\ q.stage = "setup" /\ q.expires = e /\ q.pw = made'.pw /\ q.secret = 0
    BY <1>4, <2>1, SetupSessionGives
  <2> QED
    BY <1>1, <2>2 DEF e
<1>7. PICK k : /\ sess' \in Sessions /\ Len(sess) <= Len(sess')
               /\ sess'[k] = s /\ \A n \in DOMAIN sess' : n # k => ~Live(n)'
  <2>1. R \in Sessions /\ Len(R) = Len(sess) /\ DOMAIN R = DOMAIN sess /\ \A n \in DOMAIN sess : R[n] = Revoked
    BY <1>3, RevokeAllGives
  <2> HIDE DEF R
  <2> DEFINE U == Append(R, s)
  <2>2. /\ U \in Sessions /\ Len(U) = Len(R) + 1
        /\ DOMAIN U = DOMAIN R \cup {Len(R) + 1} /\ Len(R) + 1 \notin DOMAIN R
        /\ U[Len(R) + 1] = s
        /\ \A n \in DOMAIN R : U[n] = R[n]
    BY <1>6, <2>1, AppendGives
  <2>3. sess' = U
    BY <1>2
  <2> HIDE DEF U
  <2>4. Len(sess) \in Nat /\ Revoked.expires = 0
    BY <1>3 DEF Sessions, Revoked
  <2>5. \A n \in DOMAIN sess' : n # Len(sess) + 1 => ~Live(n)'
    BY <1>2, <1>3, <2>1, <2>2, <2>3, <2>4 DEF Live
  <2> QED
    BY <2>1, <2>2, <2>3, <2>4, <2>5
<1> HIDE DEF R
<1>8. made.pw \in Nat /\ acct.pw \in Nat /\ acct'.pw <= made'.pw
  BY <1>3, <1>4, <1>5 DEF Counts, Account
<1>9. TypeA'
  BY <1>2, <1>3, <1>4, <1>5, <1>7, <1>8, RowsTyped DEF TypeA
<1>10. SessionsStand' /\ OneSetup' /\ Lives'
  <2>1. Lives' /\ invite.live
    BY <1>2, <1>3, <1>5 DEF Lives
  <2>2. ~Locked'
    BY <1>2, <1>3, <1>5 DEF Locked
  <2>3. Stands(k)'
    BY <1>2, <1>5, <1>6, <1>7, <2>1, <2>2 DEF Stands
  <2> QED
    BY <1>7, <2>1, <2>3, StandOne
<1>11. Counted' /\ Posted'
  BY <1>2, <1>5, CountedReset, PostedKept
<1>12. Spent'
  <2>1. made.secret <= made'.secret /\ made.gen <= made'.gen
    BY <1>3, <1>4 DEF Counts
  <2> QED
    BY <1>2, <1>9, <2>1, RowsTyped, SpentKept
<1>13. Newest'
  BY <1>2, <1>4 DEF Rows, Newest
<1>14. Safe({})
  <2>1. Stored' \subseteq Stored \cup {}
    BY <1>2, RowsTyped, StoredFrom
  <2> QED
    BY <1>5, <1>7, <2>1 DEF Safe
<1> QED
  BY <1>2, <1>3, <1>9, <1>10, <1>11, <1>12, <1>13, <1>14 DEF Rows
(* The first letter with an invitation, and one more after a pause.        *)
LEMMA PostedFirst ==
  ASSUME Rows, UNCHANGED notices, acct'.notified = acct.notified, letters' = <<now>>,
         invite'.sends = 1, invite'.sent = now
  PROVE  Posted'
<1>1. Posted /\ MaxInviteSends \in Nat \ {0}
  BY Constants DEF Rows
<1>2. Len(letters') = 1 /\ letters'[1] = now
  OBVIOUS
<1>3. MailsSpaced'
  BY <1>1, <1>2 DEF Posted, MailsSpaced
<1> QED
  BY <1>1, <1>2, <1>3 DEF Posted

LEMMA PostedMore ==
  ASSUME Rows, UNCHANGED notices, acct'.notified = acct.notified, letters' = Append(letters, now),
         now - invite.sent >= ResendPause, invite.sends < MaxInviteSends,
         invite'.sends = invite.sends + 1, invite'.sent = now
  PROVE  Posted'
<1>1. /\ Posted /\ letters \in Seq(Nat) /\ now \in Nat /\ invite.sends \in Nat
      /\ ResendPause \in Nat \ {0} /\ MaxInviteSends \in Nat \ {0}
  BY Constants DEF Rows, TypeA, InviteRow
<1>2. /\ letters' \in Seq(Nat) /\ Len(letters') = Len(letters) + 1 /\ Len(letters) \in Nat
      /\ letters'[Len(letters) + 1] = now
      /\ \A a \in 1..Len(letters) : letters'[a] = letters[a] /\ letters[a] \in Nat
  BY <1>1, AppendNumbers
<1>3. Len(letters) >= 1 /\ invite.sends = Len(letters) /\ invite.sent = letters[Len(letters)]
  BY <1>1 DEF Posted
<1>4. ASSUME NEW a \in 1..Len(letters) PROVE letters'[a + 1] - letters'[a] >= ResendPause
  <2>1. CASE a = Len(letters)
    BY <1>1, <1>2, <1>3, <2>1
  <2>2. CASE a # Len(letters)
    <3>1. a \in 1..(Len(letters) - 1) /\ a + 1 \in 1..Len(letters)
      BY <1>2, <2>2
    <3>2. letters[a + 1] - letters[a] >= ResendPause
      BY <1>1, <3>1 DEF Posted, MailsSpaced
    <3> QED
      BY <1>2, <3>1, <3>2
  <2> QED
    BY <2>1, <2>2
<1>5. MailsSpaced'
  <2>1. Len(letters') - 1 = Len(letters) /\ Len(letters') <= MaxInviteSends
    BY <1>1, <1>2, <1>3
  <2> QED
    BY <1>1, <1>4, <2>1 DEF Posted, MailsSpaced
<1> QED
  BY <1>1, <1>2, <1>3, <1>5 DEF Posted

LEMMA ResendInviteSelfRows ==
  ASSUME Rows, TypeB, NEW t \in Tabs, ResendInviteSelf(t)
  PROVE  Rows' /\ Safe({Current(req[t].at)})
<1> DEFINE i == req[t].at
<1>1. UNCHANGED <<now, acct, sess, mfa, codes, used, wrong, notices>>
  BY DEF ResendInviteSelf, Alone
<1>2. /\ TypeA /\ now \in Nat /\ now >= 1 /\ i \in Instances /\ made \in Counts /\ sess \in Sessions
      /\ invite \in InviteRow /\ letters \in Seq(Nat)
  BY DEF Rows, TypeA, TypeB, Request
<1>3. CASE ~StillResendable
  <2>1. UNCHANGED access
    BY <1>1, <1>3 DEF ResendInviteSelf, access
  <2>2. Safe({})
    BY <2>1, QuietSafe
  <2> QED
    BY <1>1, <2>1, <2>2, QuietRows DEF Safe
<1>4. CASE StillResendable
  <2>1. /\ invite.live /\ now - invite.sent >= ResendPause /\ invite.sends < MaxInviteSends
        /\ HealInviteCode(i) /\ letters' = Append(letters, now)
    BY <1>4 DEF ResendInviteSelf, StillResendable, SelfResendable, LockLiveInvite, GetInviteCandidate
  <2>2. /\ made' \in Counts /\ made'.pw = made.pw /\ made'.secret = made.secret /\ made'.gen = made.gen
        /\ made'.row = made.row /\ made.code <= made'.code
        /\ invite' \in InviteRow /\ invite'.row = invite.row /\ invite'.live /\ invite'.sent = now
        /\ invite'.sends = invite.sends + 1
        /\ \/ made' = made /\ invite'.code = invite.code /\ invite'.key = invite.key
           \/ invite'.code = made'.code /\ invite'.key = Current(i)
    <3>1. CASE Has(ring[i], invite.key)
      <4>1. made' = made /\ invite' = MarkInviteResent(invite, now)
        BY <2>1, <3>1 DEF HealInviteCode
      <4>2. made.code \in Nat
        BY <1>2 DEF Counts
      <4>3. /\ invite' \in InviteRow /\ invite'.row = invite.row /\ (invite'.live <=> invite.live)
            /\ invite'.code = invite.code /\ invite'.key = invite.key /\ invite'.sent = now
            /\ invite'.sends = invite.sends + 1
        BY <1>2, <4>1, ResentGives
      <4>4. made' \in Counts /\ made.code <= made'.code
        BY <1>2, <4>1, <4>2
      <4> QED
        BY <2>1, <4>1, <4>3, <4>4
    <3>2. CASE ~Has(ring[i], invite.key)
      <4> DEFINE w == RekeyInvite(invite, made'.code, Current(i))
      <4>1. made' = [made EXCEPT !.code = @ + 1] /\ invite' = MarkInviteResent(w, now)
        BY <2>1, <3>2 DEF HealInviteCode
      <4>2. /\ made' \in Counts /\ made'.code = made.code + 1 /\ made'.code \in Nat
            /\ made'.pw = made.pw /\ made'.secret = made.secret /\ made'.gen = made.gen /\ made'.row = made.row
        BY <1>2, <4>1, MoreCodes
      <4>3. made.code <= made'.code
        BY <1>2, <4>2 DEF Counts
      <4>4. /\ w \in InviteRow /\ w.row = invite.row /\ (w.live <=> invite.live) /\ w.code = made'.code
            /\ w.key = Current(i) /\ w.sent = invite.sent /\ w.sends = invite.sends
        BY <1>2, <4>2, CurrentKey, RekeyInviteGives
      <4> HIDE DEF w
      <4>5. /\ invite' \in InviteRow /\ invite'.row = w.row /\ (invite'.live <=> w.live) /\ invite'.code = w.code
            /\ invite'.key = w.key /\ invite'.sent = now /\ invite'.sends = w.sends + 1
        BY <1>2, <4>1, <4>4, ResentGives
      <4> QED
        BY <2>1, <4>2, <4>3, <4>4, <4>5
    <3> QED
      BY <3>1, <3>2
  <2>3. invite.code = made.code
    BY <2>1 DEF Rows, Newest
  <2>4. invite'.code = made'.code
    BY <2>2, <2>3
  <2>5. /\ made.code \in Nat /\ made'.code \in Nat /\ 1 <= invite'.code /\ invite'.code <= made'.code
        /\ 1 <= invite'.sends /\ invite'.sends <= MaxInviteSends /\ letters' \in Seq(Nat)
    <3>1. /\ made.code \in Nat /\ made'.code \in Nat /\ 1 <= invite.code /\ invite.sends \in Nat
          /\ MaxInviteSends \in Nat
      BY <1>2, <2>2, Constants DEF Counts, TypeA, InviteRow
    <3>2. letters' \in Seq(Nat)
      BY <1>2, <2>1
    <3> QED
      BY <2>1, <2>2, <2>3, <2>4, <3>1, <3>2
  <2>6. TypeA'
    BY <1>1, <1>2, <2>2, <2>5 DEF TypeA
  <2>7. SessionsStand' /\ OneSetup' /\ Lives'
    <3>1. \A n \in DOMAIN sess' : Live(n)' => Live(n) /\ sess'[n] = sess[n]
      BY <1>1 DEF Live
    <3>2. now' \in Nat /\ now <= now'
      BY <1>1, <1>2
    <3> QED
      BY <1>1, <2>1, <2>2, <2>6, <3>1, <3>2, StandKept
  <2>8. Counted' /\ Posted'
    BY <1>1, <2>1, <2>2, CountedKept, PostedMore
  <2>9. Spent' /\ Newest'
    BY <1>1, <2>2, <2>4 DEF Rows, Spent, FactorsOnce, Newest
  <2>10. Safe({Current(i)})
    <3>1. Stored' \subseteq Stored \cup {Current(i)}
      BY <1>1, <2>1, <2>2, StoredFrom
    <3>2. Len(sess) <= Len(sess')
      BY <1>1, <1>2 DEF Sessions
    <3> QED
      BY <1>1, <3>1, <3>2 DEF Safe
  <2> QED
    BY <1>1, <1>2, <2>6, <2>7, <2>8, <2>9, <2>10 DEF Rows
<1> QED
  BY <1>3, <1>4

(* A new invitation takes the place of the last.                           *)
LEMMA IssueInviteGives ==
  ASSUME Rows, TypeB, NEW i \in Instances, IssueInvite(Current(i))
  PROVE  /\ made' \in Counts /\ made'.pw = made.pw /\ made'.secret = made.secret /\ made'.gen = made.gen
         /\ invite' \in InviteRow /\ invite'.live /\ invite'.code = made'.code /\ invite'.key = Current(i)
         /\ 1 <= invite'.row /\ invite'.row <= made'.row /\ 1 <= invite'.code /\ invite'.code <= made'.code
         /\ invite'.sends = 1 /\ invite'.sent = now /\ letters' = <<now>> /\ letters' \in Seq(Nat)
         /\ 1 <= MaxInviteSends
<1>1. /\ made' = [made EXCEPT !.code = @ + 1, !.row = @ + 1] /\ letters' = <<now>>
      /\ invite' = InsertInvite(made'.row, made'.code, Current(i), now, InviteTTL)
  BY DEF IssueInvite
<1>2. /\ made \in Counts /\ now \in Nat /\ InviteTTL \in Nat /\ 1 <= MaxInviteSends
      /\ made.code \in Nat /\ made.row \in Nat
  BY Constants DEF Rows, TypeA, Counts
<1>3. /\ made' \in Counts /\ made'.code = made.code + 1 /\ made'.row = made.row + 1
      /\ made'.code \in Nat /\ made'.row \in Nat
      /\ made'.pw = made.pw /\ made'.secret = made.secret /\ made'.gen = made.gen
  BY <1>1, <1>2, MoreInvites
<1>4. /\ invite' \in InviteRow /\ invite'.row = made'.row /\ invite'.live = TRUE /\ invite'.code = made'.code
      /\ invite'.key = Current(i) /\ invite'.sent = now /\ invite'.sends = 1
  <2>1. Current(i) \in Keys
    BY CurrentKey
  <2>2. PICK r, c, k : r = made'.row /\ c = made'.code /\ k = Current(i)
    OBVIOUS
  <2>3. r \in Nat /\ c \in Nat /\ k \in Keys /\ invite' = InsertInvite(r, c, k, now, InviteTTL)
    BY <1>1, <1>3, <2>1, <2>2
  <2>4. /\ invite' \in InviteRow /\ invite'.row = r /\ invite'.live = TRUE /\ invite'.code = c
        /\ invite'.key = k /\ invite'.sent = now /\ invite'.sends = 1
    <3>1. now + InviteTTL \in Nat
      BY <1>2
    <3> QED
      BY <1>2, <2>3, <3>1 DEF InviteRow, InsertInvite
  <2> QED
    BY <2>2, <2>4
<1>5. letters' \in Seq(Nat)
  BY <1>1, <1>2
<1> QED
  BY <1>1, <1>2, <1>3, <1>4, <1>5

LEMMA ResendsRows ==
  ASSUME Rows, TypeB, NEW i \in Instances, Resends(i)
  PROVE  Rows' /\ Safe({Current(i)})
<1>1. /\ UNCHANGED <<now, acct, sess, mfa, codes, used, wrong, notices>> /\ acct.status = "invited"
      /\ IssueInvite(Current(i))
  BY DEF Resends
<1>2. TypeA /\ now \in Nat /\ now >= 1 /\ sess \in Sessions /\ invite.live
  BY <1>1 DEF Rows, TypeA, Lives
<1>3. /\ made' \in Counts /\ made'.pw = made.pw /\ made'.secret = made.secret /\ made'.gen = made.gen
      /\ invite' \in InviteRow /\ invite'.live /\ invite'.code = made'.code /\ invite'.key = Current(i)
      /\ 1 <= invite'.row /\ invite'.row <= made'.row /\ 1 <= invite'.code /\ invite'.code <= made'.code
      /\ invite'.sends = 1 /\ invite'.sent = now /\ letters' = <<now>> /\ letters' \in Seq(Nat)
      /\ 1 <= MaxInviteSends
  BY <1>1, IssueInviteGives
<1>4. TypeA'
  BY <1>1, <1>2, <1>3 DEF TypeA
<1>5. SessionsStand' /\ OneSetup' /\ Lives'
  <2>1. \A n \in DOMAIN sess' : Live(n)' => Live(n) /\ sess'[n] = sess[n]
    BY <1>1 DEF Live
  <2>2. now' \in Nat /\ now <= now'
    BY <1>1, <1>2
  <2> QED
    BY <1>1, <1>2, <1>3, <1>4, <2>1, <2>2, StandKept
<1>6. Counted' /\ Posted'
  BY <1>1, <1>3, CountedKept, PostedFirst
<1>7. Spent' /\ Newest'
  BY <1>1, <1>3 DEF Rows, Spent, FactorsOnce, Newest
<1>8. Safe({Current(i)})
  <2>1. Stored' \subseteq Stored \cup {Current(i)}
    BY <1>1, <1>3, StoredFrom
  <2>2. Len(sess) <= Len(sess')
    BY <1>1, <1>2 DEF Sessions
  <2> QED
    BY <1>1, <2>1, <2>2 DEF Safe
<1> QED
  BY <1>1, <1>2, <1>4, <1>5, <1>6, <1>7, <1>8 DEF Rows

LEMMA ResetAccessRows ==
  ASSUME Rows, TypeB, NEW i \in Instances, ResetAccess(i)
  PROVE  Rows' /\ Safe({Current(i)})
<1>1. /\ UNCHANGED <<now, used, notices>> /\ acct' = ManageResetAccess(acct) /\ sess' = RevokeAll(sess)
      /\ mfa' = NoMFA /\ codes' = NoCodes /\ wrong' = <<>> /\ IssueInvite(Current(i))
  BY DEF ResetAccess
<1>2. TypeA /\ now \in Nat /\ now >= 1 /\ sess \in Sessions /\ acct \in Account /\ made \in Counts
  BY DEF Rows, TypeA
<1>3. /\ made' \in Counts /\ made'.pw = made.pw /\ made'.secret = made.secret /\ made'.gen = made.gen
      /\ invite' \in InviteRow /\ invite'.live /\ invite'.code = made'.code /\ invite'.key = Current(i)
      /\ 1 <= invite'.row /\ invite'.row <= made'.row /\ 1 <= invite'.code /\ invite'.code <= made'.code
      /\ invite'.sends = 1 /\ invite'.sent = now /\ letters' = <<now>> /\ letters' \in Seq(Nat)
      /\ 1 <= MaxInviteSends
  BY <1>1, IssueInviteGives
<1>4. /\ acct' \in Account /\ acct'.status = "invited" /\ acct'.pw = 0 /\ acct'.failures = 0
      /\ acct'.locked = 0 /\ acct'.notified = acct.notified
  BY <1>1, <1>2, ManageResetAccessGives
<1>5. sess' \in Sessions /\ Len(sess) <= Len(sess') /\ \A n \in DOMAIN sess' : ~Live(n)'
  BY <1>1, <1>2, NoneLive
<1>6. made.pw \in Nat /\ made.secret <= made'.secret /\ made.gen <= made'.gen
  BY <1>2, <1>3 DEF Counts
<1>7. TypeA'
  BY <1>1, <1>2, <1>3, <1>4, <1>5, <1>6, RowsTyped DEF TypeA
<1>8. SessionsStand' /\ OneSetup' /\ Lives'
  BY <1>3, <1>4, <1>5, StandNone DEF Lives
<1>9. Counted' /\ Posted'
  BY <1>1, <1>3, <1>4, CountedReset, PostedFirst
<1>10. Spent'
  BY <1>1, <1>6, <1>7, RowsTyped, SpentKept
<1>11. Newest'
  BY <1>1, <1>3 DEF Newest
<1>12. Safe({Current(i)})
  <2>1. Stored' \subseteq Stored \cup {Current(i)}
    BY <1>1, <1>3, RowsTyped, StoredFrom
  <2> QED
    BY <1>4, <1>5, <2>1 DEF Safe
<1> QED
  BY <1>1, <1>2, <1>7, <1>8, <1>9, <1>10, <1>11, <1>12 DEF Rows

(* Rekey changes keys and nothing else.                                    *)
LEMMA RekeysRows ==
  ASSUME Rows, RekeysMFA \/ RekeysInvite
  PROVE  Rows' /\ Safe({New})
<1>1. UNCHANGED <<now, acct, sess, codes, made, used, wrong, notices, letters>>
  BY DEF RekeysMFA, RekeysInvite, Rekeys
<1>2. /\ TypeA /\ now \in Nat /\ now >= 1 /\ sess \in Sessions /\ mfa \in SecondFactor /\ invite \in InviteRow
      /\ mfa.step \in Nat /\ made \in Counts
  BY DEF Rows, TypeA, SecondFactor
<1>3. /\ mfa' \in SecondFactor /\ mfa'.secret = mfa.secret /\ (mfa'.confirmed <=> mfa.confirmed)
      /\ mfa'.step = mfa.step
      /\ mfa' = mfa \/ (mfa # NoMFA /\ mfa'.key = New)
  <2>1. CASE mfa' = RekeyMFA(mfa) /\ mfa # NoMFA
    BY <1>2, <2>1, RekeyMFAGives
  <2>2. CASE mfa' = mfa
    BY <1>2, <2>2
  <2> QED
    BY <2>1, <2>2 DEF RekeysMFA, RekeysInvite, RekeyRow
<1>4. /\ invite' \in InviteRow /\ invite'.row = invite.row /\ (invite'.live <=> invite.live)
      /\ invite'.code = invite.code /\ invite'.sent = invite.sent /\ invite'.sends = invite.sends
      /\ invite' = invite \/ invite'.key = New
  <2>1. CASE invite' = RekeyInvite(invite, invite.code, New)
    <3>1. invite.code \in Nat /\ New \in Keys
      BY <1>2 DEF InviteRow, Keys
    <3> QED
      BY <1>2, <2>1, <3>1, RekeyInviteGives
  <2>2. CASE invite' = invite
    BY <1>2, <2>2
  <2> QED
    BY <2>1, <2>2 DEF RekeysMFA, RekeysInvite
<1>5. TypeA'
  BY <1>1, <1>2, <1>3, <1>4 DEF TypeA
<1>6. SessionsStand' /\ OneSetup' /\ Lives'
  <2>1. \A n \in DOMAIN sess' : Live(n)' => Live(n) /\ sess'[n] = sess[n]
    BY <1>1 DEF Live
  <2>2. now' \in Nat /\ now <= now'
    BY <1>1, <1>2
  <2> QED
    BY <1>1, <1>3, <1>4, <1>5, <2>1, <2>2, StandKept
<1>7. Counted' /\ Posted'
  BY <1>1, <1>4, CountedKept, PostedKept
<1>8. Spent'
  <2>1. mfa.step <= mfa'.step
    BY <1>2, <1>3
  <2>2. made.secret <= made'.secret /\ made.gen <= made'.gen
    BY <1>1, <1>2 DEF Counts
  <2> QED
    BY <1>1, <1>3, <1>5, <2>1, <2>2, SpentKept
<1>9. Newest'
  BY <1>1, <1>3, <1>4 DEF Rows, Newest
<1>10. Safe({New})
  <2>1. Stored' \subseteq Stored \cup {New}
    BY <1>1, <1>3, <1>4, StoredFrom
  <2>2. Len(sess) <= Len(sess')
    BY <1>1, <1>2 DEF Sessions
  <2> QED
    BY <1>1, <2>1, <2>2 DEF Safe
<1> QED
  BY <1>1, <1>2, <1>5, <1>6, <1>7, <1>8, <1>9, <1>10 DEF Rows

-----------------------------------------------------------------------------
(* What requests, counts of calls, rings and rekey keep.                   *)
Held ==
  /\ TypeB /\ SidsIn /\ Asked /\ Abroad
  /\ Seen => Turning
  /\ Readable

Inv == Rows /\ Held

(* A key every instance has, and that rekey has not counted out.           *)
Fits(k) == (\A j \in plan.instances : Has(ring[j], k)) /\ (rekey.pc = "clear" => k # Old)

LEMMA PlanTyped ==
  ASSUME TypeB
  PROVE  /\ plan.instances \subseteq Instances /\ plan.operator \in Instances
         /\ plan.rotation \in {"none", "careful", "lost"} /\ plan.calls \in [Ops -> Nat]
         /\ plan.time \in Nat
<1>1. plan \in [start : {"invited", "active"}, calls : [Ops -> Nat], time : Nat,
                instances : SUBSET Instances, operator : Instances,
                rotation : {"none", "careful", "lost"}]
  BY AccessAssumption DEF TypeB
<1> QED
  BY <1>1

LEMMA CurrentFits ==
  ASSUME TypeB, Turning, NEW i \in plan.instances
  PROVE  Fits(Current(i))
<1>1. \A j \in plan.instances : ring[j] \in Rings
  BY PlanTyped DEF TypeB
<1>2. \A j \in plan.instances : Has(ring[j], Current(j)) /\ (ring[j] # <<New>> => Has(ring[j], Old))
  <2> SUFFICES ASSUME NEW j \in plan.instances
               PROVE  Has(ring[j], Current(j)) /\ (ring[j] # <<New>> => Has(ring[j], Old))
    OBVIOUS
  <2>1. CASE ring[j] = <<Old>>
    BY <2>1 DEF Has, Current
  <2>2. CASE ring[j] = <<Old, New>>
    BY <2>2 DEF Has, Current
  <2>3. CASE ring[j] = <<New, Old>>
    BY <2>3 DEF Has, Current
  <2>4. CASE ring[j] = <<New>>
    BY <2>4 DEF Has, Current
  <2> QED
    BY <1>1, <2>1, <2>2, <2>3, <2>4 DEF Rings
<1>3. CASE Current(i) = New
  BY <1>3, Constants DEF Turning, NewFirst, Fits
<1>4. CASE Current(i) = Old
  <2>1. ~NewFirst(i)
    BY <1>4, Constants DEF NewFirst
  <2>2. \A j \in plan.instances : ring[j] # <<New>>
    BY <2>1 DEF Turning
  <2>3. rekey.pc # "clear"
    BY <2>1 DEF Turning
  <2> QED
    BY <1>2, <1>4, <2>2, <2>3 DEF Fits
<1> QED
  BY <1>3, <1>4, CurrentKey, PlanTyped DEF Keys

LEMMA NewFits ==
  ASSUME Turning, rekey.pc # "idle"
  PROVE  Fits(New)
BY Constants DEF Turning, Fits

(* A ring that is over does not pass the check of the operator's command.  *)
LEMMA OperatorFits ==
  ASSUME Rows, Held, Seen, CheckKeys(plan.operator)
  PROVE  Fits(Current(plan.operator))
<1>1. CASE plan.operator \in plan.instances
  BY <1>1, CurrentFits DEF Held
<1>2. CASE plan.operator \notin plan.instances
  <2>1. /\ acct.status # "disabled" /\ ring[plan.operator] = <<Old>>
        /\ \A i \in plan.instances : ring[i] = <<New>>
    BY <1>2 DEF Held, Abroad, Seen
  <2>2. Stored # {}
    <3>1. acct.status \in {"invited", "active"}
      BY <2>1 DEF Rows, TypeA, Account
    <3>2. acct.status = "active" => mfa # NoMFA
      BY RowsTyped DEF Rows, Lives
    <3> QED
      BY <3>1, <3>2 DEF Rows, Lives, Stored, ListStoredKeyIDs
  <2>3. PICK k \in Stored : Has(ring[plan.operator], k)
    BY <2>2 DEF CheckKeys, Seen, Stored
  <2>4. Old \in Stored /\ Current(plan.operator) = Old
    BY <2>1, <2>3 DEF Has, Current
  <2>5. plan.instances = {}
    <3> SUFFICES ASSUME NEW j \in plan.instances PROVE FALSE
      OBVIOUS
    <3>1. Has(ring[j], Old) /\ ring[j] = <<New>>
      BY <2>1, <2>4 DEF Held, Readable
    <3> QED
      BY <3>1, Constants DEF Has
  <2>6. rekey.pc # "clear"
    BY <2>4 DEF Held, Turning
  <2> QED
    BY <2>5, <2>6 DEF Fits
<1> QED
  BY <1>1, <1>2

(* Steps that leave the plan, the rings and rekey.                         *)
LEMMA KeysKept ==
  ASSUME Held, UNCHANGED <<plan, ring, rekey>>, NEW K, Stored' \subseteq Stored \cup K,
         Seen => \A k \in K : Fits(k)
  PROVE  (Seen => Turning)' /\ Readable'
<1>1. Seen' <=> Seen
  BY DEF Seen
<1>2. ASSUME Seen PROVE Turning'
  BY <1>2 DEF Held, Turning, Fits, NewFirst, Current, Has
<1>3. ASSUME Seen PROVE \A i \in plan.instances, k \in Stored' : Has(ring[i], k)
  BY <1>3 DEF Held, Readable, Fits
<1> QED
  BY <1>1, <1>2, <1>3 DEF Readable, Has

LEMMA HeldFrom ==
  ASSUME Rows, Held, UNCHANGED <<plan, ring, rekey>>, now' \in Nat,
         req' \in [Tabs -> Request], SidsIn', Asked',
         left' \in [Ops -> Nat], left'["disable"] <= left["disable"],
         acct'.status = "disabled" => acct.status = "disabled" \/ left["disable"] > 0,
         NEW K, Stored' \subseteq Stored \cup K, Seen => \A k \in K : Fits(k)
  PROVE  Held'
<1>1. (Seen => Turning)' /\ Readable'
  BY KeysKept
<1>2. TypeB'
  BY DEF Held, TypeB
<1>3. left["disable"] \in Nat /\ left'["disable"] \in Nat
  BY DEF Held, TypeB, Ops, OtherOps
<1>4. Abroad'
  BY <1>3 DEF Held, Abroad
<1> QED
  BY <1>1, <1>2, <1>4 DEF Held

LEMMA IdleAsks == ASSUME Instances # {} PROVE Idle \in Request /\ Idle.sid = 0 /\ Idle.op = "idle"
BY DEF Idle, Request

LEMMA AloneHeld ==
  ASSUME Rows, Held, sess' \in Sessions, NEW t \in Tabs, Close(t), Alone, NEW K, Safe(K),
         Seen => \A k \in K : Fits(k)
  PROVE  Held'
<1>1. /\ UNCHANGED <<plan, now, left, ring, rekey>> /\ req' = [req EXCEPT ![t] = Idle]
      /\ Stored' \subseteq Stored \cup K /\ (acct'.status = "disabled" => acct.status = "disabled")
      /\ Len(sess) <= Len(sess')
  BY DEF Close, Alone, Safe
<1>2. /\ Idle \in Request /\ Idle.sid = 0 /\ Idle.op = "idle"
  BY PlanTyped, IdleAsks DEF Held
<1>3. /\ req \in [Tabs -> Request] /\ left \in [Ops -> Nat] /\ now \in Nat /\ SidsIn /\ Asked
      /\ sess \in Sessions
  BY DEF Held, TypeB, Rows, TypeA
<1> HIDE DEF Idle
<1>4. req' \in [Tabs -> Request] /\ \A u \in Tabs : req'[u] = IF u = t THEN Idle ELSE req[u]
  BY <1>1, <1>2, <1>3
<1>5. Len(sess) \in Nat /\ Len(sess') \in Nat /\ \A u \in Tabs : req[u].sid \in Nat
  BY <1>3 DEF Sessions, Request
<1>6. SidsIn' /\ Asked'
  BY <1>1, <1>2, <1>3, <1>4, <1>5 DEF SidsIn, Asked
<1>7. left'["disable"] <= left["disable"] /\ left' \in [Ops -> Nat]
  BY <1>1, <1>3 DEF Ops, OtherOps
<1> QED
  BY <1>1, <1>3, <1>4, <1>6, <1>7, HeldFrom

LEMMA CallTakes ==
  ASSUME left \in [Ops -> Nat], NEW op \in Ops, Call(op)
  PROVE  /\ left' \in [Ops -> Nat] /\ left'["disable"] <= left["disable"]
         /\ op = "disable" => left["disable"] > 0
BY DEF Call, Ops, OtherOps

LEMMA OpenHeld ==
  ASSUME Rows, Held, NEW t \in Tabs, NEW r \in Request, r.op \in Ops, Open(t, r),
         r.sid <= Len(sess), r.at \in plan.instances,
         UNCHANGED <<plan, now, access, ring, rekey>>
  PROVE  Held'
<1>1. /\ req' = [req EXCEPT ![t] = r] /\ Call(r.op) /\ UNCHANGED <<acct, sess, mfa, codes, invite>>
      /\ UNCHANGED <<plan, ring, rekey>> /\ now' = now
  BY DEF Open, access
<1>2. req \in [Tabs -> Request] /\ left \in [Ops -> Nat] /\ now \in Nat /\ SidsIn /\ Asked
  BY DEF Held, TypeB
<1>3. req' \in [Tabs -> Request] /\ \A u \in Tabs : req'[u] = IF u = t THEN r ELSE req[u]
  BY <1>1, <1>2
<1>4. SidsIn' /\ Asked'
  BY <1>1, <1>2, <1>3 DEF SidsIn, Asked
<1>5. left' \in [Ops -> Nat] /\ left'["disable"] <= left["disable"]
  BY <1>1, <1>2, CallTakes
<1>6. /\ Stored' \subseteq Stored \cup {} /\ (acct'.status = "disabled" => acct.status = "disabled")
      /\ now' \in Nat
  BY <1>1, <1>2 DEF Stored
<1>7. UNCHANGED <<plan, ring, rekey>> /\ req' \in [Tabs -> Request]
  BY <1>1, <1>3
<1>8. PICK K : K = {}
  OBVIOUS
<1>9. Stored' \subseteq Stored \cup K /\ \A k \in K : Fits(k)
  BY <1>6, <1>8
<1> QED
  BY <1>4, <1>5, <1>6, <1>7, <1>9, HeldFrom

(* Steps without a request.                                                *)
LEMMA CallHeld ==
  ASSUME Rows, Held, sess' \in Sessions, NEW op \in Ops, Call(op), UNCHANGED <<plan, now, req, ring, rekey>>,
         Len(sess) <= Len(sess'), acct'.status = "disabled" => acct.status = "disabled" \/ op = "disable",
         NEW K, Stored' \subseteq Stored \cup K, Seen => \A k \in K : Fits(k)
  PROVE  Held'
<1>1. /\ req \in [Tabs -> Request] /\ left \in [Ops -> Nat] /\ now \in Nat /\ SidsIn /\ Asked
      /\ sess \in Sessions
  BY DEF Held, TypeB, Rows, TypeA
<1>2. Len(sess) \in Nat /\ Len(sess') \in Nat /\ \A u \in Tabs : req[u].sid \in Nat
  BY <1>1 DEF Sessions, Request
<1>3. SidsIn' /\ Asked'
  BY <1>1, <1>2 DEF SidsIn, Asked
<1>4. /\ left' \in [Ops -> Nat] /\ left'["disable"] <= left["disable"]
      /\ op = "disable" => left["disable"] > 0
  BY <1>1, CallTakes
<1> QED
  BY <1>1, <1>3, <1>4, HeldFrom

LEMMA StillHeld ==
  ASSUME Rows, Held, sess' \in Sessions, UNCHANGED <<plan, req, left, ring, rekey>>, now' \in Nat, Safe({})
  PROVE  Held'
<1>1. /\ req \in [Tabs -> Request] /\ left \in [Ops -> Nat] /\ SidsIn /\ Asked /\ sess \in Sessions
  BY DEF Held, TypeB, Rows, TypeA
<1>2. Len(sess) \in Nat /\ Len(sess') \in Nat /\ Len(sess) <= Len(sess') /\ \A u \in Tabs : req[u].sid \in Nat
  BY <1>1 DEF Sessions, Request, Safe
<1>3. SidsIn' /\ Asked'
  BY <1>1, <1>2 DEF SidsIn, Asked
<1>4. /\ left'["disable"] <= left["disable"] /\ (acct'.status = "disabled" => acct.status = "disabled")
      /\ Stored' \subseteq Stored \cup {}
  BY <1>1 DEF Safe, Ops, OtherOps
<1> QED
  BY <1>1, <1>3, <1>4, HeldFrom

-----------------------------------------------------------------------------
(* The rings turn and rekey goes on.                                       *)
LEMMA RingHas ==
  \A k : /\ Has(<<Old>>, k) <=> k = Old
         /\ Has(<<New>>, k) <=> k = New
         /\ Has(<<Old, New>>, k) <=> k \in {Old, New}
         /\ Has(<<New, Old>>, k) <=> k \in {Old, New}
<1>1. \A k : Has(<<Old>>, k) <=> k = Old
  BY DEF Has
<1>2. \A k : Has(<<New>>, k) <=> k = New
  BY DEF Has
<1>3. \A k : Has(<<Old, New>>, k) <=> k \in {Old, New}
  BY DEF Has
<1>4. \A k : Has(<<New, Old>>, k) <=> k \in {Old, New}
  BY DEF Has
<1> QED
  BY <1>1, <1>2, <1>3, <1>4

LEMMA DeployHeld ==
  ASSUME Rows, Held, NEW i \in plan.instances, Deploy(i)
  PROVE  Held'
<1>1. /\ plan.rotation # "none" /\ UNCHANGED <<plan, now, access, req, left, rekey>>
  BY DEF Deploy
<1>2. PICK r \in Rings :
        /\ ring' = [ring EXCEPT ![i] = r]
        /\ \/ ring[i] = <<Old>> /\ r = <<Old, New>>
           \/ ring[i] = <<Old, New>> /\ r = <<New, Old>> /\ \A j \in plan.instances : Has(ring[j], New)
           \/ ring[i] = <<New, Old>> /\ r = <<New>> /\ (plan.rotation = "careful" => rekey.pc = "clear")
  BY DEF Deploy
<1>3. TypeB /\ ring \in [Instances -> Rings] /\ i \in Instances /\ plan.operator \in Instances
      /\ plan.rotation \in {"none", "careful", "lost"} /\ plan.instances \subseteq Instances
  BY PlanTyped DEF Held, TypeB
<1>4. /\ ring' \in [Instances -> Rings]
      /\ \A j \in Instances : ring'[j] = IF j = i THEN r ELSE ring[j]
  BY <1>2, <1>3
<1>5. TypeB'
  BY <1>1, <1>3, <1>4 DEF TypeB
<1>6. UNCHANGED <<acct, sess, mfa, codes, invite>> /\ Stored' = Stored
  BY <1>1 DEF access, Stored
<1>7. SidsIn' /\ Asked'
  BY <1>1, <1>6 DEF Held, SidsIn, Asked
<1>8. ring[i] # <<New>> /\ ring[i] # <<>>
  <2>1. <<Old>> # <<New>> /\ <<Old, New>> # <<New>> /\ <<New, Old>> # <<New>>
    <3>1. Len(<<Old>>) = 1 /\ Len(<<New>>) = 1 /\ <<Old>>[1] = Old /\ <<New>>[1] = New /\ Len(<<Old, New>>) = 2
          /\ Len(<<New, Old>>) = 2
      OBVIOUS
    <3> QED
      BY <3>1, Constants
  <2> QED
    BY <1>2, <2>1
<1>9. Abroad'
  <2>1. plan.operator \in plan.instances
    BY <1>8 DEF Held, Abroad
  <2> QED
    BY <1>1, <2>1 DEF Abroad
<1>10. ASSUME Seen PROVE Turning' /\ \A j \in plan.instances, k \in Stored : Has(ring'[j], k)
  <2>1. Turning /\ \A j \in plan.instances, k \in Stored : Has(ring[j], k)
    BY <1>10 DEF Held, Readable
  <2>2. CASE ring[i] = <<Old>> /\ r = <<Old, New>>
    <3>1. \A j \in plan.instances : \A k : Has(ring[j], k) => Has(ring'[j], k)
      BY <1>3, <1>4, <2>2, RingHas
    <3>2. \A j \in plan.instances : (NewFirst(j)' <=> NewFirst(j)) /\ (ring'[j] = <<New>> => ring[j] = <<New>>)
      <4>1. r[1] = Old /\ r # <<New>>
        <5>1. <<Old, New>>[1] = Old /\ <<New>>[1] = New
          OBVIOUS
        <5> QED
          BY <2>2, <5>1, Constants
      <4> QED
        BY <1>1, <1>3, <1>4, <2>2, <4>1 DEF NewFirst, Current
    <3> QED
      BY <1>1, <1>6, <2>1, <3>1, <3>2 DEF Turning
  <2>3. CASE ring[i] = <<Old, New>> /\ r = <<New, Old>> /\ \A j \in plan.instances : Has(ring[j], New)
    <3>1. \A j \in plan.instances : \A k : Has(ring[j], k) => Has(ring'[j], k)
      BY <1>3, <1>4, <2>3, RingHas
    <3>2. \A j \in plan.instances : (NewFirst(j) => NewFirst(j)') /\ (ring'[j] = <<New>> => ring[j] = <<New>>)
      <4>1. r[1] = New /\ r # <<New>>
        <5>1. <<New, Old>>[1] = New /\ Len(<<New, Old>>) = 2 /\ Len(<<New>>) = 1
          OBVIOUS
        <5> QED
          BY <2>3, <5>1
      <4> QED
        BY <1>1, <1>3, <1>4, <2>3, <4>1 DEF NewFirst, Current
    <3> QED
      BY <1>1, <1>6, <2>1, <2>3, <3>1, <3>2 DEF Turning
  <2>4. CASE ring[i] = <<New, Old>> /\ r = <<New>> /\ (plan.rotation = "careful" => rekey.pc = "clear")
    <3>1. rekey.pc = "clear" /\ rekey.settled /\ Old \notin Stored
      BY <1>1, <1>3, <1>10, <2>1, <2>4 DEF Seen, Turning
    <3>2. \A j \in plan.instances : NewFirst(j)
      BY <2>1, <3>1 DEF Turning
    <3>3. \A j \in plan.instances : NewFirst(j)'
      BY <1>3, <1>4, <2>4, <3>2 DEF NewFirst, Current
    <3>4. \A j \in plan.instances : \A k : k # Old /\ Has(ring[j], k) => Has(ring'[j], k)
      BY <1>3, <1>4, <2>4 DEF Has
    <3> QED
      BY <1>1, <1>6, <2>1, <3>1, <3>3, <3>4, Constants DEF Turning
  <2> QED
    BY <1>2, <2>2, <2>3, <2>4
<1>11. Seen' <=> Seen
  BY <1>1 DEF Seen
<1>12. (Seen => Turning)' /\ Readable'
  BY <1>1, <1>6, <1>10, <1>11 DEF Readable
<1> QED
  BY <1>5, <1>7, <1>9, <1>12 DEF Held

LEMMA RekeyHeld ==
  ASSUME Rows, Held, UNCHANGED <<plan, now, req, left, ring>>, sess' \in Sessions, Safe({New}),
         rekey.pc # "idle" \/ Stored' \subseteq Stored, rekey' \in Rekeying,
         rekey'.pc # "idle" => rekey.pc # "idle" \/ \E i \in plan.instances : NewFirst(i),
         rekey'.pc # "idle" /\ rekey'.settled =>
           (rekey.pc # "idle" /\ rekey.settled) \/ \A j \in plan.instances : NewFirst(j),
         rekey'.pc = "clear" => rekey'.settled /\ Old \notin Stored'
  PROVE  Held'
<1>1. /\ req \in [Tabs -> Request] /\ left \in [Ops -> Nat] /\ now \in Nat /\ TypeB /\ SidsIn /\ Asked
      /\ Abroad /\ sess \in Sessions
  BY DEF Held, TypeB, Rows, TypeA
<1>2. TypeB'
  BY <1>1 DEF TypeB
<1>3. Len(sess) \in Nat /\ Len(sess') \in Nat /\ Len(sess) <= Len(sess') /\ \A u \in Tabs : req[u].sid \in Nat
  BY <1>1 DEF Sessions, Request, Safe
<1>4. SidsIn' /\ Asked' /\ Abroad'
  BY <1>1, <1>3 DEF SidsIn, Asked, Abroad, Safe
<1>5. \A j \in plan.instances : (NewFirst(j)' <=> NewFirst(j))
  BY DEF NewFirst, Current
<1>6. ASSUME Seen PROVE Turning'
  BY <1>5, <1>6 DEF Held, Turning, Has
<1>7. ASSUME Seen PROVE \A i \in plan.instances, k \in Stored' : Has(ring[i], k)
  BY <1>7 DEF Held, Turning, Readable, Safe
<1>8. Seen' <=> Seen
  BY DEF Seen
<1> QED
  BY <1>2, <1>4, <1>6, <1>7, <1>8 DEF Held, Readable, Has

(* What rekey counted is gone.                                             *)
LEMMA CountedOut ==
  ASSUME Rows, CountOnOldKeys = 0
  PROVE  Old \notin Stored
<1>1. codes.unused \subseteq 1..CodesIssued /\ CodesIssued \in Nat
  BY Constants DEF Rows, TypeA, CodesRow
<1>2. IsFiniteSet(codes.unused)
  <2>1. IsFiniteSet(1..CodesIssued)
    BY <1>1, FS_Interval
  <2> QED
    BY <1>1, <2>1, FS_Subset
<1>3. Cardinality(codes.unused) \in Nat /\ (Cardinality(codes.unused) = 0 => codes.unused = {})
  BY <1>2, FS_CardinalityType, FS_EmptySet
<1>4. /\ ~(mfa # NoMFA /\ mfa.key = Old) /\ ~(invite.live /\ invite.key = Old)
      /\ codes.key = Old => codes.unused = {}
  BY <1>3 DEF CountOnOldKeys
<1> QED
  BY <1>4 DEF Stored, ListStoredKeyIDs

LEMMA RekeyBeginsHeld ==
  ASSUME Rows, Held, NEW i \in plan.instances, RekeyBegins(i)
  PROVE  Rows' /\ Held'
<1> DEFINE pc0 == IF ListMFAOnOldKeys(mfa) THEN "mfa" ELSE "invites"
           st  == \A j \in plan.instances : Current(j) = New
<1>1. /\ UNCHANGED <<plan, now, acct, sess, codes, made, used, wrong, notices, letters, req, left, ring>>
      /\ UNCHANGED <<mfa, invite>> /\ rekey.pc = "idle" /\ Current(i) = New
      /\ rekey' = [pc |-> pc0, ring |-> ring[i], row |-> 0, settled |-> st]
  BY DEF RekeyBegins, Rekeys
<1>2. UNCHANGED access
  BY <1>1 DEF access
<1>3. Rows' /\ Safe({})
  BY <1>1, <1>2, QuietRows, QuietSafe
<1>4. ring[i] \in Rings
  BY PlanTyped DEF Held, TypeB
<1>5. st \in BOOLEAN /\ pc0 \in {"mfa", "invites"}
  OBVIOUS
<1>6. /\ rekey' \in Rekeying /\ rekey'.pc \in {"mfa", "invites"}
      /\ rekey'.settled <=> \A j \in plan.instances : NewFirst(j)
  <2> HIDE DEF st, pc0
  <2>1. rekey' \in Rekeying /\ rekey'.pc = pc0 /\ rekey'.settled = st
    BY <1>1, <1>4, <1>5 DEF Rekeying
  <2>2. st <=> \A j \in plan.instances : NewFirst(j)
    BY DEF st, NewFirst
  <2> QED
    BY <1>5, <2>1, <2>2
<1>7. sess' \in Sessions /\ Safe({New}) /\ Stored' \subseteq Stored
  BY <1>1, <1>3 DEF Rows, TypeA, Safe, Stored
<1>8. NewFirst(i)
  BY <1>1 DEF NewFirst
<1>9. Held'
  <2>1. UNCHANGED <<plan, now, req, left, ring>>
    BY <1>1
  <2>2. rekey'.pc # "clear"
    BY <1>6
  <2> QED
    BY <1>6, <1>7, <1>8, <2>1, <2>2, RekeyHeld
<1> QED
  BY <1>3, <1>9

LEMMA RekeyStepsHeld ==
  ASSUME Rows, Held, RekeysMFA \/ RekeyGoesOn \/ RekeysInvite \/ RekeyCounts
  PROVE  Rows' /\ Held'
<1>1. /\ UNCHANGED <<plan, now, acct, sess, codes, made, used, wrong, notices, letters, req, left, ring>>
      /\ rekey.pc \in {"mfa", "invites", "invite", "count"}
  BY DEF RekeysMFA, RekeyGoesOn, RekeysInvite, RekeyCounts, Rekeys
<1>2. rekey \in Rekeying /\ rekey.pc # "idle" /\ invite.row \in Nat
  BY <1>1 DEF Held, TypeB, Rows, TypeA, InviteRow
<1>3. Rows' /\ Safe({New})
  <2>1. CASE RekeysMFA \/ RekeysInvite
    BY <2>1, RekeysRows
  <2>2. CASE RekeyGoesOn \/ RekeyCounts
    <3>1. UNCHANGED access
      BY <1>1, <2>2 DEF access, RekeyGoesOn, RekeyCounts
    <3> QED
      BY <1>1, <3>1, QuietRows, QuietSafe DEF Safe
  <2> QED
    BY <2>1, <2>2
<1>4. sess' \in Sessions
  BY <1>3 DEF Rows, TypeA
<1>5. /\ rekey' \in Rekeying
      /\ rekey'.pc # "idle" /\ rekey'.settled => rekey.settled
      /\ rekey'.pc = "clear" => rekey'.settled /\ Old \notin Stored'
  <2>1. CASE RekeysMFA
    BY <1>2, <2>1 DEF RekeysMFA, Rekeying
  <2>2. CASE RekeyGoesOn
    <3>1. CASE rekey' = [rekey EXCEPT !.pc = "count"]
      BY <1>2, <3>1 DEF Rekeying
    <3>2. CASE \E row \in ListInvitesOnOldKeys(invite) : rekey' = [rekey EXCEPT !.pc = "invite", !.row = row]
      <4>1. PICK row \in Nat : rekey' = [rekey EXCEPT !.pc = "invite", !.row = row]
        BY <1>2, <3>2 DEF ListInvitesOnOldKeys
      <4> QED
        BY <1>2, <4>1 DEF Rekeying
    <3> QED
      BY <2>2, <3>1, <3>2 DEF RekeyGoesOn
  <2>3. CASE RekeysInvite
    BY <1>2, <2>3 DEF RekeysInvite, Rekeying
  <2>4. CASE RekeyCounts
    <3>1. CASE rekey.settled /\ CountOnOldKeys = 0 /\ rekey' = [rekey EXCEPT !.pc = "clear"]
      <4>1. Old \notin Stored /\ Stored' = Stored
        BY <1>1, <2>4, <3>1, CountedOut DEF RekeyCounts, Stored
      <4> QED
        BY <1>2, <3>1, <4>1 DEF Rekeying
    <3>2. CASE rekey' = NoRekey
      BY <3>2 DEF NoRekey, Rekeying, Rings
    <3> QED
      BY <2>4, <3>1, <3>2 DEF RekeyCounts
  <2> QED
    BY <2>1, <2>2, <2>3, <2>4
<1>6. Held'
  <2>1. UNCHANGED <<plan, now, req, left, ring>>
    BY <1>1
  <2> QED
    BY <1>2, <1>3, <1>4, <1>5, <2>1, RekeyHeld
<1> QED
  BY <1>3, <1>6

-----------------------------------------------------------------------------
(* The transactions of requests.                                           *)
LEMMA QuietCommits ==
  ASSUME Inv, NEW t \in Tabs, Close(t), Alone, UNCHANGED access
  PROVE  Inv'
<1>1. now' = now
  BY DEF Alone
<1>2. Rows' /\ Safe({})
  BY <1>1, QuietRows, QuietSafe DEF Inv
<1>3. sess' \in Sessions
  BY <1>2 DEF Rows, TypeA
<1> QED
  BY <1>2, <1>3, AloneHeld DEF Inv

LEMMA SafeCommits ==
  ASSUME Inv, NEW t \in Tabs, Close(t), Alone, Rows',
         Safe({}) \/ (Safe({Current(req[t].at)}) /\ req[t].op # "idle")
  PROVE  Inv'
<1>1. sess' \in Sessions
  BY DEF Rows, TypeA
<1>2. CASE Safe({})
  BY <1>1, <1>2, AloneHeld DEF Inv
<1>3. CASE Safe({Current(req[t].at)}) /\ req[t].op # "idle"
  <2>1. PICK i \in plan.instances : i = req[t].at
    BY <1>3 DEF Inv, Held, Asked
  <2>2. Seen => Fits(Current(i))
    BY <2>1, CurrentFits DEF Inv, Held
  <2>3. PICK K : K = {Current(i)}
    OBVIOUS
  <2>4. Safe(K) /\ (Seen => \A k \in K : Fits(k))
    BY <1>3, <2>1, <2>2, <2>3
  <2> QED
    BY <1>1, <2>4, AloneHeld DEF Inv
<1> QED
  BY <1>2, <1>3

LEMMA CommitsKeep ==
  ASSUME Inv, NEW t \in Tabs, Commits(t)
  PROVE  Inv'
<1>1. Rows /\ Held /\ TypeB
  BY DEF Inv, Held
<1>2. Close(t) /\ Alone
  BY DEF Commits, Refused, Logout, RevokeOthers, RevokeMySession, RevokesMine, Fails, Breaks, PassFactor,
         ChangePassword, RegenerateRecovery, MFAConfirm, Succeeds, WithFactor, LoginStale, LoginTx, MFASetup,
         RecoveryAck, SetUpFails, SetUp, AcceptFails, AcceptInvite, ResendInviteSelf
<1>3. now' = now
  BY <1>2 DEF Alone
<1>4. CASE Refused(t) \/ LoginStale(t) \/ AcceptFails(t)
  BY <1>2, <1>4, QuietCommits DEF Refused, LoginStale, AcceptFails
<1>5. CASE SetUpFails(t)
  <2>1. UNCHANGED access
    BY <1>5 DEF SetUpFails, SetUp, access
  <2> QED
    BY <1>2, <2>1, QuietCommits
<1>6. ASSUME NEW f \in Typed, Breaks(t, f) PROVE Inv'
  <2>1. UNCHANGED access
    BY <1>6 DEF Breaks, WithFactor, access
  <2> QED
    BY <1>2, <2>1, QuietCommits
<1>7. ASSUME NEW N, sess' = RevokeOnly(sess, N),
             UNCHANGED <<acct, mfa, codes, invite, made, used, wrong, notices, letters>>
      PROVE  Inv'
  <2>1. Rows' /\ Safe({})
    BY <1>1, <1>3, <1>7, DropRows, DropSafe
  <2> QED
    BY <1>2, <2>1, SafeCommits
<1>8. CASE Logout(t)
  BY <1>7, <1>8 DEF Logout
<1>9. CASE RevokeOthers(t)
  BY <1>7, <1>9 DEF RevokeOthers, RevokesMine, RevokeOtherSessions
<1>10. CASE \E n \in DOMAIN sess : RevokeMySession(t, n)
  BY <1>7, <1>10 DEF RevokeMySession, RevokesMine, RevokeOwnSession
<1>11. ASSUME NEW f \in Typed, Fails(t, f) PROVE Inv'
  <2>1. UNCHANGED <<invite, made, letters>> /\ ~Locked /\ acct.status = "active" /\ RecordFailure
    BY <1>11 DEF Fails, WithFactor, LiveSession
  <2>2. Rows' /\ Safe({})
    BY <1>1, <1>3, <2>1, RecordFailureRows
  <2> QED
    BY <1>2, <2>2, SafeCommits
<1>12. ASSUME NEW f \in Typed, PassFactor(t, f) PROVE Inv'
  BY <1>1, <1>2, <1>12, PassFactorRows, SafeCommits
<1>13. ASSUME NEW f \in Typed, ChangePassword(t, f) PROVE Inv'
  BY <1>1, <1>2, <1>13, ChangePasswordRows, SafeCommits
<1>14. ASSUME NEW f \in Typed, RegenerateRecovery(t, f) PROVE Inv'
  <2>1. req[t].op # "idle"
    BY <1>14 DEF RegenerateRecovery
  <2> QED
    BY <1>1, <1>2, <1>14, <2>1, RegenerateRecoveryRows, SafeCommits
<1>15. ASSUME NEW f \in Typed, MFAConfirm(t, f) PROVE Inv'
  <2>1. req[t].op # "idle"
    BY <1>15 DEF MFAConfirm, SetUp
  <2> QED
    BY <1>1, <1>2, <1>15, <2>1, MFAConfirmRows, SafeCommits
<1>16. CASE LoginTx(t)
  BY <1>1, <1>2, <1>16, LoginTxRows, SafeCommits
<1>17. CASE MFASetup(t)
  <2>1. req[t].op # "idle"
    BY <1>17 DEF MFASetup, SetUp
  <2> QED
    BY <1>1, <1>2, <1>17, <2>1, MFASetupRows, SafeCommits
<1>18. CASE RecoveryAck(t)
  BY <1>1, <1>2, <1>18, RecoveryAckRows, SafeCommits
<1>19. CASE AcceptInvite(t)
  BY <1>1, <1>2, <1>19, AcceptInviteRows, SafeCommits
<1>20. CASE ResendInviteSelf(t)
  <2>1. req[t].op # "idle"
    BY <1>20 DEF ResendInviteSelf
  <2> QED
    BY <1>1, <1>2, <1>20, <2>1, ResendInviteSelfRows, SafeCommits
<1> QED
  BY <1>4, <1>5, <1>6, <1>8, <1>9, <1>10, <1>11, <1>12, <1>13, <1>14, <1>15, <1>16, <1>17, <1>18, <1>19, <1>20
  DEF Commits

(* The requests that begin.                                                *)
LEMMA ArrivesKeep ==
  ASSUME Inv, NEW t \in Tabs, NEW i \in plan.instances, Arrives(t, i)
  PROVE  Inv'
<1>1. Rows /\ Held /\ TypeA /\ TypeB /\ sess \in Sessions /\ i \in Instances
  BY PlanTyped DEF Inv, Held, Rows, TypeA
<1>2. UNCHANGED <<plan, now, access, ring, rekey>> /\ now' = now /\ UNCHANGED access
  BY DEF Arrives, Load, Login, Accept, SelfResend
<1>3. Rows'
  BY <1>1, <1>2, QuietRows
<1>4. PICK r \in Request : r.op \in Ops /\ r.sid <= Len(sess) /\ r.at = i /\ Open(t, r)
  <2>1. DOMAIN sess = 1..Len(sess) /\ Len(sess) \in Nat
    BY <1>1, SessionColumns
  <2>2. acct.pw \in Nat /\ invite.code \in Nat
    BY <1>1 DEF TypeA, Account, InviteRow
  <2>3. ASSUME NEW op \in SessionOps, NEW n \in DOMAIN sess, Load(t, op, n, i)
        PROVE  \E r \in Request : r.op \in Ops /\ r.sid <= Len(sess) /\ r.at = i /\ Open(t, r)
    <3>1. PICK r : r = [op |-> op, sid |-> n, known |-> 0, at |-> i]
      OBVIOUS
    <3>2. Open(t, r)
      BY <2>3, <3>1 DEF Load
    <3>3. r \in Request /\ r.op = op /\ r.sid = n /\ r.at = i /\ op \in Ops /\ n <= Len(sess)
      BY <1>1, <2>1, <3>1 DEF Request, Ops
    <3> QED
      BY <3>2, <3>3
  <2>4. ASSUME NEW old \in {0} \cup DOMAIN sess, Login(t, old, i)
        PROVE  \E r \in Request : r.op \in Ops /\ r.sid <= Len(sess) /\ r.at = i /\ Open(t, r)
    <3>1. PICK r : r = [op |-> "login", sid |-> old, known |-> acct.pw, at |-> i]
      OBVIOUS
    <3>2. Open(t, r)
      BY <2>4, <3>1 DEF Login, GetLoginAccount
    <3>3. r \in Request /\ r.op = "login" /\ r.sid = old /\ r.at = i /\ "login" \in Ops /\ old <= Len(sess)
      BY <1>1, <2>1, <2>2, <3>1 DEF Request, Ops, OtherOps
    <3> QED
      BY <3>2, <3>3
  <2>5. CASE Accept(t, i)
    <3>1. PICK r : r = [op |-> "accept", sid |-> 0, known |-> invite.code, at |-> i]
      OBVIOUS
    <3>2. Open(t, r)
      BY <2>5, <3>1 DEF Accept
    <3>3. r \in Request /\ r.op = "accept" /\ r.sid = 0 /\ r.at = i /\ "accept" \in Ops /\ 0 <= Len(sess)
      BY <1>1, <2>1, <2>2, <3>1 DEF Request, Ops, OtherOps
    <3> QED
      BY <3>2, <3>3
  <2>6. CASE SelfResend(t, i)
    <3>1. PICK r : r = [op |-> "resendself", sid |-> 0, known |-> 0, at |-> i]
      OBVIOUS
    <3>2. Open(t, r)
      BY <2>6, <3>1 DEF SelfResend
    <3>3. r \in Request /\ r.op = "resendself" /\ r.sid = 0 /\ r.at = i /\ "resendself" \in Ops /\ 0 <= Len(sess)
      BY <1>1, <2>1, <3>1 DEF Request, Ops, OtherOps
    <3> QED
      BY <3>2, <3>3
  <2> QED
    BY <2>3, <2>4, <2>5, <2>6 DEF Arrives
<1>5. Held'
  BY <1>1, <1>2, <1>4, OpenHeld
<1> QED
  BY <1>3, <1>5 DEF Inv

(* Administrators and the operator.                                        *)
LEMMA ManagesKeep ==
  ASSUME Inv, NEW i \in Instances, Resends(i) \/ ResetAccess(i), Seen => Fits(Current(i))
  PROVE  Inv'
<1>1. Rows /\ Held /\ TypeB
  BY DEF Inv, Held
<1>2. Rows' /\ Safe({Current(i)})
  BY <1>1, ResendsRows, ResetAccessRows
<1>3. PICK op \in Ops : Call(op)
  <2>1. "resend" \in Ops /\ "reset" \in Ops
    BY DEF Ops, OtherOps
  <2> QED
    BY <2>1 DEF Resends, ResetAccess
<1>4. UNCHANGED <<plan, now, req, ring, rekey>>
  BY DEF Resends, ResetAccess
<1>5. PICK K : K = {Current(i)}
  OBVIOUS
<1>6. /\ Stored' \subseteq Stored \cup K /\ Len(sess) <= Len(sess') /\ sess' \in Sessions
      /\ acct'.status = "disabled" => acct.status = "disabled"
      /\ Seen => \A k \in K : Fits(k)
  BY <1>2, <1>5 DEF Safe, Rows, TypeA
<1> QED
  BY <1>1, <1>2, <1>3, <1>4, <1>6, CallHeld DEF Inv

LEMMA DisableKeeps ==
  ASSUME Inv, Disable
  PROVE  Inv'
<1>1. Rows /\ Held
  BY DEF Inv
<1>2. Rows' /\ Stored' \subseteq Stored /\ Len(sess) <= Len(sess')
  BY <1>1, DisableRows
<1>3. "disable" \in Ops /\ Call("disable") /\ UNCHANGED <<plan, now, req, ring, rekey>>
  BY DEF Disable, Ops, OtherOps
<1>4. PICK K : K = {}
  OBVIOUS
<1>5. Stored' \subseteq Stored \cup K /\ sess' \in Sessions /\ \A k \in K : Fits(k)
  BY <1>2, <1>4 DEF Rows, TypeA
<1> QED
  BY <1>1, <1>2, <1>3, <1>5, CallHeld DEF Inv

(* Time, the cleaner of a session that is over, and nothing at all.        *)
LEMMA OthersKeep ==
  ASSUME Inv, Tick \/ (\E n \in DOMAIN sess : Expire(n)) \/ UNCHANGED vars
  PROVE  Inv'
<1>1. Rows /\ Held /\ now \in Nat
  BY DEF Inv, Rows
<1>2. UNCHANGED <<plan, req, left, ring, rekey>>
  BY DEF Tick, Expire, vars
<1>3. now' = now \/ now' = now + 1
  BY DEF Tick, Expire, vars
<1>4. Rows' /\ Safe({})
  <2>1. CASE UNCHANGED access
    BY <1>1, <1>3, <2>1, QuietRows, QuietSafe
  <2>2. CASE \E n \in DOMAIN sess : Expire(n)
    <3>1. PICK n \in DOMAIN sess : sess' = RevokeOnly(sess, {n})
      BY <2>2 DEF Expire
    <3>2. UNCHANGED <<now, acct, mfa, codes, invite, made, used, wrong, notices, letters>>
      BY <2>2 DEF Expire
    <3> QED
      BY <1>1, <3>1, <3>2, DropRows, DropSafe
  <2> QED
    BY <2>1, <2>2 DEF Tick, vars
<1>5. sess' \in Sessions /\ now' \in Nat
  BY <1>1, <1>3, <1>4 DEF Rows, TypeA
<1> QED
  BY <1>1, <1>2, <1>4, <1>5, StillHeld DEF Inv

LEMMA Step == ASSUME Inv, [Next]_vars PROVE Inv'
<1>1. Rows /\ Held /\ TypeB
  BY DEF Inv, Held
<1>2. plan.instances \subseteq Instances /\ plan.operator \in Instances
  BY <1>1, PlanTyped
<1>3. CASE Tick \/ (\E n \in DOMAIN sess : Expire(n)) \/ UNCHANGED vars
  BY <1>3, OthersKeep
<1>4. CASE Disable
  BY <1>4, DisableKeeps
<1>5. ASSUME NEW t \in Tabs, Commits(t) PROVE Inv'
  BY <1>5, CommitsKeep
<1>6. ASSUME NEW t \in Tabs, NEW i \in plan.instances, Arrives(t, i) PROVE Inv'
  BY <1>6, ArrivesKeep
<1>7. ASSUME NEW i \in plan.instances, Manages(i) PROVE Inv'
  <2>1. Seen => Fits(Current(i))
    BY <1>1, CurrentFits DEF Held
  <2>2. CASE ResendInvite(i) \/ ResetAccess(i)
    BY <1>2, <2>1, <2>2, ManagesKeep DEF ResendInvite
  <2>3. CASE Deploy(i)
    <3>1. UNCHANGED access /\ now' = now
      BY <2>3 DEF Deploy
    <3> QED
      BY <1>1, <2>3, <3>1, DeployHeld, QuietRows DEF Inv
  <2>4. CASE RekeyBegins(i)
    BY <1>1, <2>4, RekeyBeginsHeld DEF Inv
  <2> QED
    BY <1>7, <2>2, <2>3, <2>4 DEF Manages
<1>8. CASE OperatorInviteResend \/ OperatorResetAccess
  <2>1. Seen => Fits(Current(plan.operator))
    BY <1>1, <1>8, OperatorFits DEF OperatorInviteResend, OperatorResetAccess
  <2>2. Resends(plan.operator) \/ ResetAccess(plan.operator)
    BY <1>8 DEF OperatorInviteResend, OperatorResetAccess
  <2>3. PICK i \in Instances : i = plan.operator
    BY <1>2
  <2>4. (Seen => Fits(Current(i))) /\ (Resends(i) \/ ResetAccess(i))
    BY <2>1, <2>2, <2>3
  <2> QED
    BY <2>4, ManagesKeep
<1>9. CASE RekeysMFA \/ RekeyGoesOn \/ RekeysInvite \/ RekeyCounts
  BY <1>1, <1>9, RekeyStepsHeld DEF Inv
<1> QED
  BY <1>3, <1>4, <1>5, <1>6, <1>7, <1>8, <1>9 DEF Next

-----------------------------------------------------------------------------
(* The start.                                                              *)
LEMMA StartRows == ASSUME Init PROVE Rows
<1>1. /\ now = 1 /\ plan.start \in {"invited", "active"} /\ Sealed \in Keys
      /\ made = [pw |-> 1, secret |-> 1, gen |-> 1, code |-> 1, row |-> 1]
      /\ used = <<>> /\ wrong = <<>> /\ notices = <<>> /\ letters = <<1>>
  BY AccessAssumption DEF Init, Sealed, Keys
<1>2. /\ made \in Counts /\ made.pw = 1 /\ made.secret = 1 /\ made.gen = 1 /\ made.code = 1 /\ made.row = 1
  BY <1>1 DEF Counts
<1>3. /\ used \in Seq(Factor) /\ wrong \in Seq(Nat) /\ notices \in Seq(Nat) /\ letters \in Seq(Nat)
      /\ Len(wrong) = 0 /\ DOMAIN used = {} /\ Len(notices) = 0 /\ Len(letters) = 1 /\ letters[1] = 1
  <2>1. <<>> \in Seq(Factor)
    OBVIOUS
  <2>2. <<>> \in Seq(Nat) /\ <<1>> \in Seq(Nat) /\ Len(<<>>) = 0 /\ Len(<<1>>) = 1 /\ <<1>>[1] = 1 /\ DOMAIN <<>> = {}
    OBVIOUS
  <2> QED
    BY <1>1, <2>1, <2>2
<1>4. /\ MFAPendingTTL \in Nat /\ SessionTTL \in Nat /\ InviteTTL \in Nat /\ MaxFactorFailures \in Nat \ {0}
      /\ 1 <= MaxInviteSends
  BY Constants
<1>5. /\ invite \in InviteRow /\ invite.row = 1 /\ invite.code = 1 /\ invite.sends = 1 /\ invite.sent = 1
      /\ invite.live <=> plan.start = "invited"
  <2> DEFINE l == plan.start = "invited"
             e == 1 + InviteTTL
             k == Sealed
  <2>1. invite = [row |-> 1, live |-> l, code |-> 1, key |-> k, expires |-> e, created |-> 1, sent |-> 1,
                  sends |-> 1]
    BY DEF Init, InsertInvite
  <2>2. l \in BOOLEAN /\ e \in Nat /\ k \in Keys
    BY <1>1, <1>4
  <2> HIDE DEF l, e, k
  <2>3. invite \in InviteRow /\ invite.row = 1 /\ invite.code = 1 /\ invite.sends = 1 /\ invite.sent = 1 /\ invite.live = l
    BY <2>1, <2>2 DEF InviteRow
  <2> QED
    BY <2>3 DEF l
<1>6. Counted /\ Spent
  BY <1>3, <1>4, Constants DEF Counted, GuessesBounded, Spent, FactorsOnce, Init, InsertInvitedAccount,
                              ActivateAccount, SetPassword
<1>7. InsertInvitedAccount \in Account /\ InsertInvitedAccount.status = "invited"
      /\ InsertInvitedAccount.pw = 0 /\ InsertInvitedAccount.notified = Never /\ InsertInvitedAccount.locked = 0
  BY DEF InsertInvitedAccount, Account
<1>8. CASE plan.start = "invited"
  <2>1. acct = InsertInvitedAccount /\ sess = <<>> /\ mfa = NoMFA /\ codes = NoCodes
    BY <1>8 DEF Init
  <2>2. <<>> \in Sessions
    BY DEF Sessions
  <2>3. TypeA
    BY <1>2, <1>3, <1>4, <1>5, <1>7, <2>1, <2>2, RowsTyped DEF TypeA
  <2>4. SessionsStand /\ OneSetup
    BY <2>1 DEF SessionsStand, OneSetup
  <2>5. Lives /\ Newest
    BY <1>2, <1>5, <1>7, <1>8, <2>1 DEF Lives, Newest
  <2>6. Posted
    BY <1>1, <1>3, <1>4, <1>5, <1>7, <2>1 DEF Posted, MailsSpaced
  <2> QED
    BY <1>1, <1>6, <2>3, <2>4, <2>5, <2>6 DEF Rows
<1>9. CASE plan.start = "active"
  <2> DEFINE p == SetPassword(InsertInvitedAccount, 1)
             m == UpsertPendingMFA(1, Sealed)
             s == Session("active", 1 + SessionTTL, 1, 1)
  <2>1. acct = ActivateAccount(p) /\ sess = <<s>> /\ mfa = ConfirmMFA(m, 0) /\ codes = InsertRecoveryCodes(1, Sealed)
    BY <1>9 DEF Init
  <2>2. /\ acct \in Account /\ acct.status = "active" /\ acct.pw = 1 /\ acct.locked = 0 /\ acct.notified = Never
    <3>1. p \in Account /\ p.status = "invited" /\ p.pw = 1 /\ p.locked = 0 /\ p.notified = Never
      BY <1>7, SetPasswordGives
    <3> HIDE DEF p
    <3> QED
      BY <2>1, <3>1, ActivateAccountGives
  <2>3. mfa \in SecondFactor /\ mfa.secret = 1 /\ mfa.confirmed
    <3>1. m \in SecondFactor /\ m.secret = 1
      BY <1>1, PendingGives
    <3> HIDE DEF m
    <3> QED
      BY <2>1, <3>1, ConfirmMFAGives
  <2>4. codes \in CodesRow /\ codes.gen = 1
    BY <1>1, <2>1, InsertCodesGives
  <2>5. s \in SessionRow /\ s.stage = "active" /\ s.pw = 1 /\ s.secret = 1
    <3> DEFINE e == 1 + SessionTTL
    <3>1. e \in Nat
      BY <1>4
    <3> HIDE DEF e
    <3>2. LET q == Session("active", e, 1, 1) IN
          q \in SessionRow /\ q.stage = "active" /\ q.expires = e /\ q.pw = 1 /\ q.secret = 1
      BY <3>1, ActiveSessionGives
    <3> QED
      BY <3>2 DEF e
  <2> HIDE DEF s
  <2>6. sess \in Sessions /\ DOMAIN sess = {1} /\ sess[1] = s
    <3>1. \A x : <<x>>[1] = x /\ DOMAIN <<x>> = {1}
      OBVIOUS
    <3>2. <<s>> \in Sessions
      BY <2>5 DEF Sessions
    <3> QED
      BY <2>1, <3>1, <3>2
  <2>7. TypeA
    BY <1>2, <1>3, <1>4, <1>5, <2>2, <2>3, <2>4, <2>6 DEF TypeA
  <2>8. SessionsStand /\ OneSetup /\ Lives /\ Newest
    BY <1>1, <1>2, <1>5, <1>9, <2>2, <2>3, <2>4, <2>5, <2>6 DEF SessionsStand, OneSetup, Lives, Newest, Locked
  <2>9. Posted
    BY <1>1, <1>3, <1>4, <1>5, <2>2 DEF Posted, MailsSpaced
  <2> QED
    BY <1>1, <1>6, <2>7, <2>8, <2>9 DEF Rows
<1> QED
  BY <1>1, <1>8, <1>9

LEMMA StartHeld == ASSUME Init PROVE Held
<1>1. /\ plan \in Plans /\ now = 1 /\ left = plan.calls /\ req = [t \in Tabs |-> Idle] /\ rekey = NoRekey
      /\ ring = [i \in Instances |-> IF i \in plan.instances THEN <<Sealed>> ELSE <<Old>>]
  BY DEF Init
<1>2. /\ plan.instances \subseteq Instances /\ plan.operator \in Instances
      /\ plan.calls \in [Ops -> Nat] /\ plan.start \in {"invited", "active"}
  BY <1>1, AccessAssumption
<1>3. Idle \in Request /\ Idle.sid = 0 /\ Idle.op = "idle"
  BY <1>2, IdleAsks
<1>4. rekey \in Rekeying /\ rekey.pc = "idle"
  BY <1>1 DEF NoRekey, Rekeying, Rings
<1>5. /\ ring \in [Instances -> Rings] /\ \A i \in plan.instances : ring[i] = <<Sealed>>
      /\ plan.operator \notin plan.instances => Sealed = New /\ ring[plan.operator] = <<Old>>
  BY <1>1, <1>2 DEF Rings, Sealed
<1>6. TypeB
  <2> HIDE DEF Idle
  <2> QED
    BY <1>1, <1>2, <1>3, <1>4, <1>5 DEF TypeB
<1>7. SidsIn /\ Asked
  <2>1. Len(sess) >= 0
    BY StartRows DEF Rows, TypeA, Sessions
  <2> HIDE DEF Idle
  <2> QED
    BY <1>1, <1>3, <2>1 DEF SidsIn, Asked
<1>8. acct.status # "disabled"
  BY <1>2 DEF Init, ActivateAccount, SetPassword, InsertInvitedAccount
<1>9. Abroad
  BY <1>1, <1>5, <1>8 DEF Abroad
<1>10. <<Sealed>>[1] = Sealed /\ (<<Sealed>> = <<New>> => Sealed = New) /\ Has(<<Sealed>>, Sealed)
  BY DEF Has
<1>11. Turning
  <2>1. \A i \in plan.instances : (NewFirst(i) <=> Sealed = New) /\ (ring[i] = <<New>> => Sealed = New)
    BY <1>5, <1>10 DEF NewFirst, Current
  <2> QED
    BY <1>4, <1>5, <1>10, <2>1 DEF Turning
<1>12. Stored \subseteq {Sealed}
  BY <1>2 DEF Init, Stored, ListStoredKeyIDs, InsertInvite, InsertRecoveryCodes, ConfirmMFA, UpsertPendingMFA, NoCodes
<1>13. Readable
  BY <1>5, <1>10, <1>12 DEF Readable
<1> QED
  BY <1>6, <1>7, <1>9, <1>11, <1>13 DEF Held

-----------------------------------------------------------------------------
(* Every state the requests of one employee, of administrators, of the     *)
(* operator and the rotation of keys reach satisfies Inv.                  *)
THEOREM Invariance == Spec => []Inv
<1>1. Init => Inv
  BY StartRows, StartHeld DEF Inv
<1>2. Inv /\ [Next]_vars => Inv'
  BY Step
<1> QED
  BY <1>1, <1>2, PTL DEF Spec

(* The rows of an employee, their requests and the operator's rekey have    *)
(* the columns StaffAccess gives them, each within what was made.           *)
THEOREM TypeCorrect == Spec => []TypeOK
<1>1. Inv => TypeOK
  BY TypeSplit DEF Inv, Rows, Held
<1> QED
  BY <1>1, Invariance, PTL

(* A session that can be used rests on the password, the second factor, the *)
(* status and the lock of now (lockLiveSession, lockSetup): nothing that    *)
(* takes one of them away leaves a session behind.                          *)
THEOREM SessionsStandAlways == Spec => []SessionsStand
<1>1. Inv => SessionsStand
  BY DEF Inv, Rows
<1> QED
  BY <1>1, Invariance, PTL

(* However many sessions and tabs try, MaxFactorFailures codes in a row are *)
(* tried without a pause, and one for each LockDuration after those         *)
(* (recordFailure, lockOut).                                                *)
THEOREM GuessesBoundedAlways == Spec => []GuessesBounded
<1>1. Inv => GuessesBounded
  BY DEF Inv, Rows, Counted
<1> QED
  BY <1>1, Invariance, PTL

(* A code of the clock or a recovery code is accepted once, whichever of    *)
(* the operations asked for it (checkFactor, MFAConfirm).                   *)
THEOREM FactorsOnceAlways == Spec => []FactorsOnce
<1>1. Inv => FactorsOnce
  BY DEF Inv, Rows, Spent
<1> QED
  BY <1>1, Invariance, PTL

(* What is stored is what the employee was shown last, and every instance   *)
(* of a careful rotation can read it (rekey, checkKeys, healInviteCode).    *)
THEOREM SecretsKeptAlways == Spec => []SecretsKept
<1>1. ASSUME Inv PROVE SecretsKept
  <2>1. Newest /\ Readable
    BY <1>1 DEF Inv, Rows, Held
  <2>2. ASSUME Seen, NEW i \in plan.instances
        PROVE  /\ mfa = NoMFA \/ Has(ring[i], mfa.key)
               /\ codes.unused = {} \/ Has(ring[i], codes.key)
               /\ invite.live => Has(ring[i], invite.key)
    BY <2>1, <2>2 DEF Readable, Stored, ListStoredKeyIDs
  <2> QED
    BY <2>1, <2>2 DEF SecretsKept, Newest, Seen
<1> QED
  BY <1>1, Invariance, PTL

(* Letters about a lock-out and repeated invitations keep their pauses, and *)
(* an invitation is not sent again without end (lockOut, ResendInviteSelf). *)
THEOREM MailsSpacedAlways == Spec => []MailsSpaced
<1>1. Inv => MailsSpaced
  BY DEF Inv, Rows, Posted
<1> QED
  BY <1>1, Invariance, PTL
===============================================================================

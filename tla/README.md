# Verification of the wf-all backend

TLA+ specifications of the concurrent core of the backend (`src/backend`, Go with
PostgreSQL), TLC runs that check them on small instances, and TLAPS proofs of the
properties that matter most for every size. The rest of the repository (two
TypeScript fronts, contracts, documents) shows what the backend decides.

## 1. Inventory

Every process is stateless between requests: what it keeps is in PostgreSQL, and
processes meet only there, through rows, row locks, advisory locks and jobs. Most
of the hard behaviour is therefore about *transactions at READ COMMITTED whose
statements wait for each other's locks*, about *what was read before a lock and is
used after it*, and about *what has committed when a process dies or a client asks
again*.

| component | state | operations | correct when |
|---|---|---|---|
| two-person approvals (`platform/approvals`) | table `approvals`, audit, outbox | Request, Approve, Reject, Cancel, CancelByInitiator, ExpireDue, PurgeDecided | a request is decided once, by a second person, within its time, and what happens is what was asked for |
| staff management (`staff`: manage, actions) | `staff_accounts`, `staff_roles`, requests | Invite, ChangeRole, Disable, ResetAccess and their executors | an approver still entitled, an initiator untouched, a target unchanged, never no owner |
| operator's command line (`staff`: operator) | the same tables | bootstrap, reset, disable, resend, rekey | works beside the running service |
| sign-in, second factor, sessions | `staff_sessions`, `staff_mfa`, recovery codes | login, factor step, lock-out, refresh | five failures lock once; a code is used once |
| invitations, set-up | `staff_invites`, accounts | invite, resend, accept, set-up | one live code, one activation |
| transactions (`platform/db`) | open transactions | InTx, hook, after | all or nothing, and the caller knows which |
| idempotency keys | `idempotency_keys`, `staff_idempotency_keys` | look-up, claim, save, clean-up | a repeat never acts again and gets its own answer |
| events (`platform/events`) | outbox, inbox, cursors, jobs | publish, relay, deliver, replay, clean-up | each event handled once per handler, in order per aggregate |
| rate limits (`platform/ratelimit`) | a row `tat` per key | Allow, Over, Add, clean-up | the limit is the policy, no more and no less |
| callers (`platform/peer`, rules and keys of the limits) | the configuration | Resolve, the middleware, the checks at the start | a request is counted for who made it, under the rule of its operation |
| proof of work (`platform/humancheck`) | spent marks | challenge, Verify, clean-up | a solution is accepted once |
| session cache of players, negative cache of admin-api | memory of a process | load, revoke, evict | a revoked session lives on for a bounded time; a refusal is remembered while there is room |
| admin-api pipeline (`httpapi/admin`) | the cookie of a browser, sessions | the layers of a request, login, second factor, logout | an employee is not signed out by the order of answers; what is decided was asked by that session |
| geography (`geo`) | journal of imports, places, regions, names, cities, links | import by job or command; nearest city, place here, city by slug | a cut source removes nothing; what is linked is told; nothing of a closed run lands; what stayed true while a request ran is what it is told |
| lists (`approvals`, `audit`, `staff`, `geo`; `platform/page`) | a cursor in the hands of the reader | pages | nothing steady is missed or shown twice; nothing beyond the rights of the viewer |
| programs (`cmd`, `platform/server`) | the phase of a process | start, drain, loops, stop of River, end | everything ends in order before the host kills |
| letters to employees (`staff/jobs`, `platform/mail`, `platform/queue`) | jobs of River | commit with the action, compose, send, rescue | a letter is not lost and not sent when it is not wanted |
| probe of readiness (`platform/health`) | the last answer | Handler, Cached | one ping per TTL, an answer no older than that |
| blobs (`platform/blob`) | a directory | Put, Get, Delete | bytes have the type they were put with |
| cleaner of admin-api, periodic jobs | – | Tick, jobs | comes back, step by step |
| permissions (`platform/perm`) | a constant matrix | Decide | gate, scenario and list decide alike |
| keys (`platform/keys`) | a ring of keys per process | seal, open, rotation | what is stored can be read by every process of a careful rotation |
| tokens, passwords, flags, risk signals, rendering, fronts | see PROJECT.json | – | not modelled |

Interactions: the pipeline of admin-api authenticates (`auth`), limits, decides the
permission (`perm`), takes the idempotency key, and calls a module. The module opens
a transaction with `db.InTx`, whose hook claims the key; inside it the module locks
rows, calls `approvals`, writes audit records and events. `approvals` calls back
into the module: the initiator check and the executor registered for the action.
The cleaner and the operator's command line run beside all that on the same tables.

What is hard: five writers of one approval row (decisions, the initiator's
cancellation, the module's, the sweep, the purge); a check without a lock followed
by an executor with one; an executor that fails after it wrote; two owners removed
at once; opposite transactions over four accounts; a permission decided on a
session that was loaded before the wait; keys that expire while a claim waits; a
commit whose answer is lost. `PROJECT.json` lists these hazards at their lines with
the properties that would catch them.

## 2. Modules

    ApprovalLifecycle          what the approvals service promises
         ^  implements
    Approvals                  the service, its module being arbitrary
         ^  extends            ^ ApprovalsProofs, ApprovalsMC
    StaffApprovals             the service with the staff module
                               ^ StaffApprovalsProofs, StaffApprovalsMC
    Idempotency                keys in business transactions
                               ^ IdempotencyProofs, IdempotencyMC
    DeliveryContract           what a subscriber of events is promised
         ^  implements
    Events                     outbox, relays, deliveries, replay, clean-up
                               ^ EventsProofs, EventsMC
    GeoSource <- GeoQueries    the files of a source; the statements
         ^  extends
    GeoImport <- GeoReads      the import; the readers beside it
                               ^ GeoImportProofs, GeoImportMC
    StaffQueries               the statements on one employee
         ^  extends
    StaffAccess                how one employee gets in
                               ^ StaffAccessProofs, StaffAccessMC
    EdgeClock                  clock and deadline of requests
         ^  extend
    RateLimit <- AdminCookies, Callers, HumanCheck, PlayerSessions, AdminPipeline,
    Rights <- Lists, Programs <- Letters, Health, Blobs
         ^  extends
    Edge                       what stands before and around the modules
                               ^ EdgeProofs <- LimitsProofs, EdgeMC

**ApprovalLifecycle** is the abstract specification: a row is asked for once, settled
once by someone entitled to, forgotten only after that. No locks, time or retries.

**Approvals** (`approvals/service.go`, `queries/approvals.sql`, `db/tx.go`). `reqs` are
the committed rows, `lock` their row locks, `call[w]` the transaction on connection
`w`, `staged[w]` what it has decided and not committed, `journal` the audit records
and events that commit with a decision. One action per step at which another
transaction can come in between: `LockApproval` is `SELECT ... FOR UPDATE`;
`Refuse`, `Overdue`, `Accept` the checks of `lockForDecision` in their order;
`CheckInitiator` the unlocked preliminary check; `Exec` and `ExecRefused` the executor
under its savepoint, whose rollback also releases the row locks taken since;
`DecideFails` the decision that finds no pending row any more. `CancelByInitiator`
and `ExpireDue` skip locked rows and work in batches, `PurgeDecided` waits for them; that
it takes only decisions older than the retention is its condition `Old`, which no property
repeats.
`Rollback` stands for an error, a panic, a lost connection and the death of the
process. `now` is the service's clock; a sweep may use an older reading.

**StaffApprovals** puts the staff module in the place of the arbitrary one. `tx[w]` is
the transaction with the role and the count of revoked sessions that its principal was
loaded with; `Load` happens before the transaction, as in the pipeline. `TakeOwners` is
the advisory lock of the owners' guard, `LockAccount` goes through the accounts in
ascending order, FOR UPDATE for the target and FOR SHARE for actor, approver and
initiator. `seen[w][s]` is the account as read under its lock. `WaitAccount` is the one
subtle step: a lock statement joins account and role but locks the account only, and
after a wait READ COMMITTED rereads the account and keeps the role of the snapshot.
`ExecWork`, `ExecRefusal` and `ExecError` are the three ends of an executor, `Ask`,
`ActDirectly`, `RevokeSessions` and `Decline` those of the other calls; `Activate` and
`LockOut` are what happens to accounts elsewhere. Each conjoins an action of
`Approvals`, so the composition takes only steps of it (theorem `ServiceUsed`).

**Idempotency** (`idempotency/idempotency.go`, `queries/idempotency.sql`, the hook of
`db.InTx`). `row` are the committed keys, `lock` their row locks (for an absent key:
its place in the unique index), `call[q]` the request with its claim, `told[q]` what
its client was answered, `done[k]` the actions that committed under a key, `sweep` the
statement of the clean-up with the time and the rows of its snapshot. A repeat is
another request with the same key and hash. `Commit` may land without the claim
hearing of it. The look-up reads the clock at its statement, a claim at the beginning
of its transaction, the clean-up at the beginning of its statement, as `now()` does.

**Events** (`platform/events`, with River as an external queue). `outbox` are the rows
with their publication, `job[s, e]` the delivery of an event to a subscriber, `inbox` and
`cursor` what deliveries leave, `relay[w]` and `ears[w]` the two halves of a relay: the
loop that locks a batch with SKIP LOCKED, inserts the jobs and marks the rows in one
transaction, and the connection that listens. Of River the module uses what the code
relies on: unique jobs, attempts, the rescue of the jobs of a dead process, deletion of
finished ones after a while. `DeliverWorker.Work` is `Take`, `InsertInbox`, `LockCursor`,
`DropStale` or `Handle`: a transaction of its own, which other deliveries cross between
the steps. Two releases run side by side; the older one does not know a subscription.
*DeliveryContract* is what remains for a subscriber: an effect of an event comes at most
once per retention of the inbox (not "exactly once" for ever: after the mark has been
cleaned a replay is handled again), and a subscriber to the latest state never goes back.

**GeoImport** (`geo/internal/app/import.go`, `import.sql.go`, `geo/jobs`). `journal` are the
rows of imports, `exec[x]` what executor `x` (the worker, the operator) has read and
prepared, `writer` whose transaction holds what it wrote and has not committed: everything
between `begin` and `finish` is one transaction, the journal is written outside it. `Fetch`
and `CheckShare` are the sources and their thresholds, `Reconcile`, `Link` and `Conflict`
the linking of cities under savepoints, `Finish`, `FinishUnheard` and `Closed` the three
ends of the commit, `Fail` and `FailFails` those of a failed run. The operator's machine has
a clock of its own. *GeoSource* is a source: three files fetched one after the other, each
fine, refused or rejected once it is there; rows that may repeat, lie in another country,
have no time zone; and what `prepare` and `ChooseName` make of them. *GeoQueries* has the
statements (`import.sql.go`) as functions of the tables, *GeoReads* the readers
(`geo/read.go`, `geo/httpapi`): two or three statements without a transaction, each a step,
beside imports, switched countries, opened cities and changed slugs; `seen` remembers what
was true since the request came. Distance is a number per place; transliteration, the
candidates of a slug, districts, the settings of a city and the caching of answers are left
out.

**StaffAccess** (`staff/internal/app`: login, factor, session, setup, access, invite,
operator); the statements are in *StaffQueries*. One account. Each transaction takes the
account's lock first and reads the clock under it, so that it is one step; what a request
does before (`Load`, `Login`, `Accept`, `ResendSelf`) is another, and its result may be
stale. Passwords, secrets, generations of recovery codes and codes of invitations are
numbered as they are made. `ring[i]` are the keys of process `i`; the careful rotation is
the one of `docs/deploy-dev.md`: the new key is added everywhere, made current everywhere,
rekey runs until it finds nothing, and only then the old key goes. Left out: the limit by
e-mail, delivery of letters, audit, the reasons of revocation, and what only decides a
repeated sign-in (idle time, change of address). Any tab may use any session. The three
counts of rekey are one step. The clean-up of dead sessions and invitations is not modelled;
two acceptances that hold each other's old session are left to PostgreSQL, which ends one of
them.

**Edge** composes what stands before the modules. *RateLimit* (`limiter.go`,
`ratelimit.sql.go`) is one key: `tat` its row, `asks[c]` a call of Allow between its
reading of the clock and its statement, `purge` the clean-up between its subquery and its
DELETE. `spent`, `erased` and `told` record what happened. *AdminCookies*
(`httpapi/admin/session.go`) is the session layer for a cookie no session stands behind,
on the same row: Over, `negCache.has`, the loader's refusal, `negCache.put`, Add; a valid
cookie and one just replaced change nothing there. *HumanCheck* (`pow.go`) has the check
of the deadline and the insertion of the mark as two steps. *PlayerSessions*
(`auth/loader.go`) has the map, the shared load of singleflight with the moments at
which it reads the clock and the database, and the callers that wait for it; sessions
and their loader are external, they are planned in the code.
*AdminPipeline* (`httpapi/admin`, `staff/admin/handler.go`) is the browser of an employee:
two tabs share a cookie, a token is replaced in one while requests with the old one are
under way in the other, answers come in any order or not at all. `StaysSignedIn` leaves out
what the code does accept: the late answer to a session that was ended otherwise may clear
the cookie of a newer login, and so may the answer to a request of a browser that missed
its new token (`since` is when it was sent); and Logout of a session just replaced by
another tab ends nothing on the server but clears the cookie.
*Rights* is the catalogue without its drafts, `Decide` and the gate; *Lists* the four lists,
read page by page while rows come, change, commit late and go, whose filters must agree with
*Rights*. *Programs* is the life of a process: drain, loops, soft and hard stop of River,
end of the pool, and death. The worker uses 25 + 5, all of the host's 30 seconds, admin-api
10 + 12 + 5. A request may outlive the drain (`REQUEST_TIMEOUT` 15 s, `SHUTDOWN_TIMEOUT`
10 s) and commit a letter after River has stopped, which waits for the next start. *Letters*
is the queue `staff` between the transaction and SMTP, two releases beside each other;
letters are sent at least once. *Health* (`health.go`) is the kept answer and the shared ping.
*Callers* has the configuration with the checks that keep a process from starting, the way of
a request through CDN, proxy and BFF, `resolve`, the rules and keys, and the middleware; a
key is counted at one moment, for time is the matter of *RateLimit*, and bursts are abstract
numbers. The hops are external: the CDN overwrites its own header and, where it is
configured, is the only way to the proxy. *Blobs* (`blob/fs.go`) writes the bytes and the
type of a key one after the other. `FilesWhole` promises a file with its own type only when
no second writer of the key was at work: two that overlap leave the bytes of one and the
type of the other without any failure (the comment on FS speaks of failures only), and the
next write alone heals it. A Delete below a key that is a file ends with an error on Linux
(ENOTDIR), although `Store` says that a missing file is none. `removeFile` is one step,
temporary files are left out.
Cookies and limits share the row of an address; the other parts share the clock and the
deadline of a request only, so that each behaviour exercises one of them.

What is abstracted: identifiers are model values; texts, reasons, audit wording
and the bytes of answers are left out; roles are owner, admin and moderator (support
has the moderator's permissions in these actions); a moderator's cities are left out,
and with them the change of role that only removes cities; the FOR KEY SHARE locks of
foreign keys are ignored, they conflict with nothing modelled; a locked-out owner still
counts as active, as in the SQL. `acct.sess` counts revocations instead of listing
sessions. `lockOut` raises the version, which also covers its closed sessions.

## 3. Runs

| run | asks | bounds |
|---|---|---|
| ApprovalsRace | every order of decisions, cancellations, sweeps, purges and rollbacks: TwoHands, DecidedOnce, ExpiresAtDeadline, JudgedAsRead, FailedAlone, refinement of ApprovalLifecycle | 2 requests, 2 employees, 2 connections, clock to 3, two environment events |
| ApprovalsSettle | EventuallySettled: nobody answers and transactions roll back, yet the request is settled | 1 request, batch of 2 |
| ApprovalsShown | *violated*: what the lists show as expired stays expired | 1 request |
| StaffCrossings | ExecutedAsAsked, ApproverHoldsPermission, EffectWithVerdict, ApprovedLeavesTwoOwners, GuardKeepsOwner, EveryCallEnds in three meetings of calls: two owners demoted crosswise beside the operator's reset and a lock-out; disabling and reinvitation while the operator disables owners; crossing locks | 3 accounts, 4 to 8 calls |
| StaffStaleRole | *violated*: the approver still holds the permission when an invitation commits | 4 accounts, 4 calls |
| StaffOperator | *violated*: the guard keeps an owner beside the operator's reset | 2 owners, 2 calls |
| IdempotencyRepeats | OncePerLifetime, LiveKeyStays, AnswerOfExecution, ToldTrue | 3 requests, 1 key, 2 hashes, clock to 3 |
| EventsDelivery | NothingLost, NoMissedWake, KeepsContract (the refinement), Delivered (liveness) | 2 events of one aggregate, 2 subscribers, 3 workers of two releases; six plans: what may fail and how often |
| GeoImports | TypeOK, AnswersTold, ClosedOnce, WholeSources, LinksTold, OnlySuccessWrites, Settles (liveness) | worker and operator, one job, up to 3 commands, three places in two regions, three cities, seven feeds, ten plans: cut, refused, rejected and repeating sources, links meanwhile, deaths and failing ends, the operator's clock ahead by three ticks; one request of a reader beside imports and changes |
| StaffAccess | SessionsStand, GuessesBounded, FactorsOnce, SecretsKept, MailsSpaced | 2 tabs, 2 processes; ten plans, in two of them the operator's machine keeps a ring that is over |
| EdgeParts | AsThePolicySays (limits, callers), SpentWhileLive, CachesTrue (cookies, players, probe), ReadsWhole (lists, files), StopsInOrder, LettersKept, StaysSignedIn | 2 clients, one part at a time: limits under three policies (5 calls, time 18), cookies (3, 6; with an interval above the time and one below the age of a request), proof of work (6, 12; 2 challenges), players (2 calls, time 9; 3 calls, time 3; 2 sessions), pipeline (2, 9), lists (3 rows, time 3), programs and letters (3 processes, one letter, time 21), probe (5, 12), callers (2 requests; fifteen configurations, of which seven start), files (3 calls on two keys, one a prefix of the other); a request lasts two ticks |
| EdgeRepeat | *violated*: a solution is accepted once | the same, 3 calls |

Why the bounds are enough for what is asked: a race for a row is between two transactions,
and two requests make one transaction hold one row while it skips or cancels another; a
batch of one makes a sweep leave something behind, a batch of two makes it short. With `TTL
= Retention = 1` and the clock to 3 a request can be asked late, lapse, be decided at its
deadline and be old enough to go. In the staff runs the calls that may arrive are a fixed
set, each at most once, chosen so that the crossings in question happen; which arrive, in
what order and how far they get is open. In Idempotency an action, its expiry and takeover,
and a repeat of the new owner need three requests and a lifetime of two ticks; one tick is
the longest a request lasts. In Events, StaffAccess and Edge a behaviour begins with one of
a set of plans that say what may arrive and fail, how often and for how long: the sum of
small state spaces in place of their product, each plan made for crossings a single one
could not afford together. In Edge the policies are chosen so that the interval is not a
whole number of microseconds (`Uneven`: 3 in 15 units, 3 units to the microsecond, the shape
of 7 a minute), the burst exceeds the limit (`Spread`), a single request fills the window
(`Single`), or requests are older than an interval (`Brief`); a clean-up, a stalled request
and a second burst fit into the time. Two requests are enough to be counted together or
apart, two writers and a reader for a file, two pages for a cursor. Where a run checks no
type invariant (IdempotencyRepeats, EventsDelivery, StaffAccess, EdgeParts, the approvals),
each property of it would fail on a malformed state, and type correctness is a theorem or
part of the inductive invariant. `MaxEnv`, `MaxTime`, `MaxTries` and `Patience` are the
named bounds. `MaxEnv` counts environment events in `Approvals`; in the staff runs it is at
least three times the number of calls (each takes one lock, cancels once and aborts once at
most), so it limits nothing and the view `NoCount` may leave the counter out. Symmetry is
used in the safety runs only, in Edge among the clients alone. `CHECK_DEADLOCK FALSE` is set
because a bounded system does stop, when its calls and its time are used up; a cycle of
waiting would leave a call without an end, which `EveryCallEnds` excludes.

`Patience < TTL` says that a request has ended, its answer saved, before its key
expires: a request has a deadline of seconds (`httpx.Timeout`), a key lives 24 hours.
Only `AnswerOfExecution` and `ToldTrue` use it; `OncePerLifetime` does not.

Fairness. In `Approvals` the clock goes on, an open transaction goes on (`Progress`: a
connection runs its handler to the end), and the sweep comes back, because the cleaner
runs it every `CleanupInterval` and survives its errors. Rollbacks are not fair and are
bounded by `MaxEnv`, so they may happen anywhere but not forever. In `StaffApprovals`
each connection is weakly fair: the calls are finitely many and PostgreSQL queues the
waiters of a lock. No fairness is assumed for the arrival of calls. In `Events` a relay drains
and polls while its process lives, a dead one is started again, and River gives every job
to someone, goes on with it and rescues it; nothing is assumed of NOTIFY, of the clock or
of the clean-up, and failures are bounded by the plan. In `GeoImport` River gives a job
to the worker and rescues it, and the worker's import goes on until it ends, well or
badly, unless its process dies; nothing is assumed of the operator, the readers, the
administrator and of clocks. Edge has safety properties only and assumes no fairness.

## 4. What the violations show

* **ApprovalsShown.** The list shows an overdue pending row as expired and says that it
  can no longer be decided. An approval that passed the deadline check before it commits
  after it, and the module's cancellation looks at no deadline, so such a row may still
  become executed, failed or cancelled.
* **StaffStaleRole.** `checkActor` promises that under FOR SHARE the approver's role
  cannot change until the commit. If its lock statement had to wait for a demotion to
  commit, it sees the account anew but the role of its snapshot, and an invitation, which
  takes no owners' lock, is executed with a demoted approver. The changes of role, resets
  and disablings are not exposed to it: their owners' lock comes before the statement
  (`ApproverHoldsPermission` holds). The statement that locks a target (`ManageLockAccount`)
  has the same join. A reset asked while the target's invitation as an owner commits is
  asked, and approved, under the permission for the role they had before; for that reason
  `ApprovedLeavesTwoOwners` speaks of what was approved under the permission for owners.
* **StaffOperator.** `OperatorResetAccess` takes no owners' lock, so beside
  `OperatorDisable`, whose guard counts the other owner before the reset commits, it
  leaves no active owner; the SQL says that all paths out of the owners' set are
  serialised by that lock.
* **EdgeRepeat.** `Verify` compares the deadline of a challenge and then inserts the mark
  of its solution by a statement that knows no deadline. A request that passed the
  comparison and reaches the database after the deadline, when the clean-up has deleted
  the first mark, is accepted with a solution that was accepted before, which the comment
  on the clean-up excludes. It takes a request that is slow by the rest of the second and
  a clean-up in that time; `SpentWhileLive` shows that nothing else lets a repeat through.

## 5. Proofs

Every theorem is proved for all values of the constants, from the named assumptions
`ApprovalsAssumption`, `StaffAssumption`, `IdempotencyAssumption`, `EventsAssumption`,
`SourceAssumption`, `TablesAssumption`, `GeoAssumption`, `ReadsAssumption`,
`AccessAssumption` and, for the edge, `ClockAssumption`, `HumanAssumption`,
`ProgramsAssumption`, `LettersAssumption`, `PlayersAssumption`, `HealthAssumption`,
`CookiesAssumption`, `ListsAssumption` and `PipelineAssumption`: the special values are
distinct, the times are numbers, lifetimes and limits of sign-in positive, the employees
finitely many and numbered, the calls, plans and files of a source well-formed, `Patience <
TTL`, `ImportTimeout < StaleAfter`, two regions never start with one code (the unique index
of `0019_geo.sql:119`), no slug is empty (`0019_geo.sql:108`); a challenge lives a second at
least, a TTL and a cache are not empty, the budgets of a stop together and a request are
shorter than the host's patience, a letter's timeout is shorter than the time until a
rescue. One theorem has a hypothesis of its own: `GuardKeepsOwnerAlways` is about calls
without the operator's reset.

*ApprovalsProofs.* `TwoHands` and `DecidedOnce` speak of committed rows, and `Commit`
knows nothing of the checks. The inductive invariant `Inv` carries them there: `Judging`
(a call past its checks holds its row, the row is pending and the person is neither
initiator nor target), `StagedRight` (each staged verdict is one its row allows),
`OneDecider` (a staged verdict is alone, under its lock, its row pending), `RowsRight`,
`DecidedOnce`. The refinement maps a commit to `Settle` of the decided rows, a purge to
`Forget`, and everything else to a stutter or `Ask`. `FailedAlone` needs `Solitary`: before
its checks a transaction has staged nothing, and one that failed a request has nothing else
staged and only its commit left. `JudgedAsRead` needs `Held`: a transaction that asked for
a row has it under its lock to the end, and a locked row is there; then a commit, a purge
or a request that writes rows meets none that another transaction judges.

*StaffApprovalsProofs.* `StaffInv` adds `Tied`, which ties the module's transaction to
the service's call, and `Present`, by which the accounts and payloads a request names
exist. With it each step of the composition is a step of `Approvals`, so `TwoHands` and
`DecidedOnce` carry over without being proved again.

What is promised of accounts rests on their locks. `Guarded`, one invariant for every
connection: nobody else has the target of a lock (`Apart`), so what was read under a lock
is still so, but for the role (`Holds`); what is written is the next version of a locked
target, or of an account nobody else creates (`Writes`); whoever may take an owner away has
the owners' lock from before the accounts' to the end (`Owns`); an executor that did its
work did what was asked (`Worked`). Versions and revocations of sessions only grow, and a
role changes only with a version and, without closing sessions, only under the owners' lock
(`Growing`): so a role equal to the session's, read by a statement that waited, is still the
approver's (`RoleKept`), and the initiator checked without a lock may be trusted when the
version is the same (`Checked`). From it `ExecutedAsAsked`, `ApproverHoldsPermission`,
`EffectWithVerdict` and, as initiator and approver are two active owners, neither of them
the target, `ApprovedLeavesTwoOwners`.

`GuardKeepsOwner` holds of behaviours in which the operator resets nobody (`NoResets`; with
a reset it fails, as *StaffOperator* shows), and its guard is subtler than it looks: it asks
for another owner only if the target is one, and the role it looks at may be an old one. It
is saved by what makes an owner (`Counted`): a change of role, under the owners' lock, so not
during the wait; or an invitation, which takes no such lock but whose initiator is an active
owner, locked until the commit. So if the target became an owner unnoticed, another is there
(`Unaware`), and stays as long as nobody commits who has the owners' lock (`OwnerStays`).

*IdempotencyProofs.* A claim holds its key, so what it saw stays (`Claiming`); the
clean-up holds what it is about to delete, which is expired (`Sweeping`); an action
whose lifetime lasts has a row that says so (`Remembered`). From these, when a key
changes at all it was free or the change is that of its own request (`RowStep`), which
gives `OncePerLifetime` and `LiveKeyStays`. `Mine` and `Timely` show that a request that
knows of its commit still has its row when it saves, which gives `AnswerOfExecution` and
`ToldTrue`.

*EventsProofs.* A job that is no longer under way has left a mark, a finished job or a
dead one (`Accounted`), from which `NothingLost`. `NoMissedWake` speaks of some relay and
is not inductive: `Attentive` says of every relay about to sleep that what it left
unlocked has been published since or it will be signalled. The refinement of
`DeliveryContract` needs `Due` (an attempt that inserted its mark found none, and the mark
of an earlier effect went only by age) and `Ahead` (the cursor of an aggregate is locked
while it is compared, so the version written is ahead of every effect).

*GeoImportProofs.* `Journal`: rows are opened one after the other and none is open before
another, so a run that finds its row closed is not the one that closes it again
(`ClosedOnce`). `Writing`: from its first write to its commit a transaction is the only
writer, and cities keep the places they have; so what it marked missing and what it
deletes are still, at the commit, exactly what the source lost (`Whole`). `Paired` and
`Linking`: a pair done is the only one of its city and of its place, and both are still
free. The share of places is checked against the last success of the journal by time of
its end; that this is the success committed last holds only while clocks agree (`Dated`:
rows, starts and ends of successes are in one order), which is how `WholeSources` states
it. Together: an import that lands closes the one open row (`OnlySuccessWrites`).

For the readers (GeoReads) `Answering` follows a request: what a statement read was so at that
moment, and the moments are remembered. If the place that covers the point and its row
stayed, the row read is that of every moment, and the city read after it is still
visible. The place read in two steps, within a radius with a root in it, is the nearest
of those that cover the point: the lemmas on the integer root, `CoverGives` and
`HereIsCovering`. `ReadsKeep` carries the theorems of the imports to the readers' runs.

*StaffAccessProofs.* What takes a session's ground away revokes it in the same
transaction, so `SessionsStand` is inductive but for the end of the set-up, which keeps
the session that did it and knows of no other: `OneSetup`, one usable session while the
account is invited. `Counted`: the counter is the length of the row of wrong codes, and a
full row left a lock as long as the pause. `Spent`: an accepted code is behind the step,
the generation or the secret in force, and none of those is issued twice. `Newest` and
`Posted` tie what is stored to what was made and sent last. `Turning` is the order of a
careful rotation: whoever seals with the new key finds it in every ring, and when the
first ring gives the old one up, all seal with the new and nothing stored is under the
old. An operator whose ring is over is held off by `checkKeys` only while something is
stored: the proof did not go through for an employee disabled before the set-up, whose
rows name no key, and `SecretsKept` now says so (`Seen`; `Abroad` is the other case).

*EdgeProofs.* One invariant for each part but the limits and the callers (*LimitsProofs*),
`Inv` their conjunction; no step of one part touches another. Marks of solutions outlive
their challenge (`MarksStay`). The phases of a stop have budgets (`InPhase`, `InBudget`,
`Drains`). A run of a job is over before the leader may rescue it (`RunBy`), and a job that
waits has attempts left (`Tried`). A load of a session that found one began before it was
revoked, and what is kept counts its TTL from there (`Loaded`). The queue of refusals is the
end of all that were put, and the map has of each cookie the last (`LatestOf`); when an
entry goes before its time the cookies that remain were each put after it, each in a place
of its own, which is an injection into the later refusals (`PutAfter`), so that there were
`MaxNeg` of them. A writer of a file who is alone knows what its first file is while it
writes the second (`Writing`, `Agrees`). What a reader of a list was promised is shown or
ahead of the cursor (`Promised`), what was shown is behind it unless it moved (`Behind`);
that the rows of a list have an order at all, each row once, is itself a lemma: number each
row by the rows ahead of it (`Numbered`). The rights of the queries agree with the gate by
cases of the grant (`RightsDoAgree`). A request of the browser knows the token it was sent
with, and whether the layer of the session erased it because its session had ended or been
replaced longer ago than the grace (`HasErased`); as the grace exceeds two transits, the
second means that the new token was missed, and an answer that gives a token gives it last
(`HasAnswered`). The proof showed the property as first stated to be false: with a third
call and a longer clock than the run has, an answer with the new token is lost, another tab
logs in anew, and the late erasing answer takes that cookie too; it now says so.

*LimitsProofs.* `AsThePolicySays`, for every policy and any number of requests. One row
(`LimitsInv`): `tat` is ahead of every spend by an interval for it and each later one
(`Owing`), and of one spend by exactly that (`Exact`). The first bounds what passes: a request
let through found all of it within the window (`AllowedOnly`). The second bounds what is
refused: who does not fit has a spend to point at that uses up the limit. A deletion takes
a row whose `tat` is over, but a slow request comes to the empty row with an older clock,
so each deletion loosens the bound by the age of a request (`era` in `Due`). The session
layer looks, loads and counts later, in two statements (`Over`, `Add`), so what it counts
may exceed the window by those who looked before it counted, at most one for each other
client, and by those that could not look. The proof remembers how much each had seen (`Ghosts`:
functions that exist beside the state, so the model needs no further variable). The
arithmetic rests on `PolicyIs`: an interval is a whole number of microseconds, rounded down,
so rounding in the database changes nothing.

Many rows (`CallersInv`): under each configuration with which a process starts
(`HowItStarts`) and along each route there, the message that arrives tells who sent it, whatever
was written in front of it (`Resolved`: the right end of X-Forwarded-For, the header of the
CDN, the secret of the BFF). A request is told to ask under one key for each thing that is
known of its caller (`Asks`); equal keys are of one caller, one class and one kind
(`KeysApart`, `KeyShared`; a session and a label never agree); each question was answered,
is open or is switched off (`Heard`), and no key has more marks than its limit (`Marked`).
Those who pass under a key each left a mark of their own in it, an injection into the
marks of that key, hence `CountedApart`. The configurations and the kinds of visits stay the
lists of the model; clients, calls and the order of everything are arbitrary.

The search for the invariant of the row showed `Bounded` as first stated to be false where
an interval is shorter than the age of a request: what is counted after a look may be older
than what was counted before it, by that age; it now says so, and the policy `Brief` was
added to the run.

Only model-checked: liveness (`EventuallySettled`, `EveryCallEnds`, `Delivered`, `Settles`)
and fairness, which are beyond the prover. Every safety property of the runs is a theorem.
`CancelByInitiator`, `ExpireDue` and `PurgeDecided` are proved about for every batch; the
loop that repeats batches is the choice of the next state. No module declares a RECURSIVE
operator.

## 6. Not modelled, and the plan

The plan, by what it would add:

1. Several accounts in StaffAccess, for the acceptance that carries another account's
   cookie; the composition of its lock-out with that of StaffApprovals.
2. Districts and the settings of a city in GeoReads; the risk signals and the flags over
   the limits; the identity module, and with it the letters to players, when it exists.

Known limits. One clock for all processes, except that of the operator in GeoImport: with
a clock that is ahead by more than the rest of a deadline, the clean-ups of HumanCheck and
RateLimit delete what is still needed, and with skewed clocks `finished_at` may name the
wrong import as the last (`WholeSources` is claimed for a skew of nought). In GeoImport a
job whose attempts are used up leaves its row running until the next import closes it,
and a first import has no threshold. Administrators' activation of cities is external.
Only one key of rate limits over time and one account of StaffAccess are looked at, for no
statement touches two. In geography a place that is lost from the source and linked by the
administrator between `ImportMarkMissing` and `ImportDeleteGone` stays unmarked until the
next import; a city may be linked to a place that an import in flight deletes (there is no
foreign key); of two rows of one geonameid the first decides, unless it was no place worth
having, which is dropped while parsing (the comment at `import.go:316` says that a rejected
first row decides too; one without a time zone does). `checkKeys` does not see an empty
database or an additional key, as its comment says, so the plans of StaffAccess do not start
there, and `SecretsKept` is not claimed when an old ring on the operator's machine meets an
employee disabled before the set-up; it is one step, like the command's transaction behind it.

In StaffApprovals the purge is left to `Approvals`, and a sweep that fails as well.
Cryptography, the dialogue of SMTP, the bytes of HTTP and rendering are out of the scope
of a model checker.
`PROJECT.json` names every component with its state of modelling.

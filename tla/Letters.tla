------------------------------ MODULE Letters ------------------------------
(***************************************************************************)
(* Letters to employees: jobs staff.mail of the queue staff (staff/jobs,    *)
(* staff/internal/app/mail.go, platform/queue).  A request or the           *)
(* operator's command leaves them in its transaction; a process of          *)
(* admin-api takes one, composes it from the rows as they are then, and     *)
(* hands it to SMTP.  River is external: it gives a job to one client,      *)
(* repeats a failed one, and its leader, any client that holds the lease    *)
(* then, rescues a job whose process died, if it knows its kind.            *)
(***************************************************************************)
EXTENDS Programs

CONSTANTS
  Jobs,        \* bound: letters
  Old,         \* processes of admin-api of the release before
  NewMails,    \* kinds of letters that release does not know
  MaxAttempts, \* tries of a job
  MailTimeout, \* mailTimeout
  RescueAfter  \* rescueAfter

ASSUME LettersAssumption ==
  MaxAttempts \in Nat \ {0} /\ MailTimeout \in Nat /\ RescueAfter \in Nat /\ RescueAfter > MailTimeout

VARIABLES
  job,    \* job[l]: the row of river_job
  about,  \* about[l]: the row the letter is about, and its recipient
  runs    \* executions of jobs in the processes

letters == <<job, about, runs>>

Mails == {"invite", "locked", "bootstrapped", "admin_disabled"}
NoJob == [state |-> "none", mail |-> "invite", by |-> None, since |-> 0, attempt |-> 0, sent |-> 0,
          wanted |-> TRUE]
AsInserted == [ref |-> "live", fits |-> TRUE]

LettersTypeOK ==
  /\ \A l \in Jobs : /\ job[l].state \in {"none", "waiting", "running", "completed", "cancelled", "discarded"}
                     /\ job[l].mail \in Mails /\ job[l].attempt \in 0..MaxAttempts /\ job[l].sent \in Nat
                     /\ about[l].ref \in {"live", "over", "gone"}
  /\ runs \subseteq [by : Admins, of : Jobs, pc : {"compose", "send", "done"}, since : Nat]

LettersInit ==
  job = [l \in Jobs |-> NoJob] /\ about = [l \in Jobs |-> AsInserted] /\ runs = {}

RunsOf(p) == {r \in runs : r.by = p}

-----------------------------------------------------------------------------
(* InsertTx: one letter for each recipient, with the transaction.           *)
Inserted(L, mail) ==
  /\ L # {} /\ \A l \in L : job[l].state = "none"
  /\ job' = [l \in Jobs |-> IF l \in L THEN [NoJob EXCEPT !.state = "waiting", !.mail = mail] ELSE job[l]]
Commits(p, L, mail) == Replied(p) /\ Inserted(L, mail) /\ UNCHANGED <<about, runs>>
Command(L, mail) ==
  /\ Arrival("programs") /\ mail # "locked" /\ Inserted(L, mail) /\ UNCHANGED <<programs, about, runs>>

(* Meanwhile: an invitation is accepted, revoked, over, its key left the    *)
(* ring; what the letter is about is deleted; the recipient is disabled, or *)
(* has another role, or is back.                                           *)
MovesOn(l, ref) ==
  /\ job[l].state \in {"waiting", "running"} /\ about[l].ref # "gone" /\ ref \in {"over", "gone"} \ {about[l].ref}
  /\ Arrival("programs") /\ about' = [about EXCEPT ![l].ref = ref] /\ UNCHANGED <<programs, job, runs>>
Turns(l) ==
  /\ job[l].state \in {"waiting", "running"} /\ Arrival("programs")
  /\ about' = [about EXCEPT ![l].fits = ~@] /\ UNCHANGED <<programs, job, runs>>

-----------------------------------------------------------------------------
(* A process takes a job; the queue staff is admin-api's alone.             *)
TakesJob(p, l) ==
  /\ p \in Admins /\ Taking(p) /\ job[l].state = "waiting"
  /\ job' = [job EXCEPT ![l].state = "running", ![l].by = p, ![l].since = now, ![l].attempt = @ + 1]
  /\ runs' = runs \cup {[by |-> p, of |-> l, pc |-> "compose", since |-> now]}
  /\ UNCHANGED <<clock, programs, about>>

Retried(l) == IF job[l].attempt = MaxAttempts THEN "discarded" ELSE "waiting"
GoesOn(r, pc) == runs' = (runs \ {r}) \cup {[r EXCEPT !.pc = pc]}
ExecutionEnds(r) == runs' = runs \ {r}

(* What each kind of letter wants of the rows: the query of the letter      *)
(* finds what it is about, and the person it is for.                       *)
RowFound(a) == a.ref # "gone"
Recipient(a) == a.fits
ComposeInvite(a) == a.ref = "live" /\ Recipient(a)
ComposeLocked(a) == RowFound(a) /\ Recipient(a)
ComposeBootstrapped(a) == RowFound(a) /\ Recipient(a)
ComposeAdminDisabled(a) == RowFound(a) /\ Recipient(a)
Composed(mail, a) ==
  CASE mail = "invite" -> ComposeInvite(a)
    [] mail = "locked" -> ComposeLocked(a)
    [] mail = "bootstrapped" -> ComposeBootstrapped(a)
    [] mail = "admin_disabled" -> ComposeAdminDisabled(a)

(* River writes the outcome if the job still runs.                          *)
Outcome(l, state) ==
  job' = IF job[l].state = "running"
           THEN [job EXCEPT ![l].state = state, ![l].by = None, ![l].since = 0, ![l].wanted = state # "cancelled" \/ Composed(job[l].mail, about[l])] ELSE job

(* MailWorker.Work: an unknown kind is an error, to be tried again by       *)
(* another release; a letter not wanted any more is cancelled.              *)
Knows(p, mail) == p \notin Old \/ mail \notin NewMails
UnknownIsCancelled(r) == "cancelled"
Unknown(r) == Retried(r.of)
Compose(r) ==
  /\ r.pc = "compose"
  /\ \/ ~Knows(r.by, job[r.of].mail) /\ Outcome(r.of, Unknown(r)) /\ ExecutionEnds(r)
     \/ Knows(r.by, job[r.of].mail) /\ ~Composed(job[r.of].mail, about[r.of]) /\ Outcome(r.of, "cancelled") /\ ExecutionEnds(r)
     \/ Knows(r.by, job[r.of].mail) /\ Composed(job[r.of].mail, about[r.of]) /\ GoesOn(r, "send") /\ UNCHANGED job
  /\ UNCHANGED <<clock, programs, about>>
HandsOver(r) ==
  /\ r.pc = "send" /\ job' = [job EXCEPT ![r.of].sent = @ + 1] /\ GoesOn(r, "done")
  /\ UNCHANGED <<clock, programs, about>>
Completes(r) ==
  /\ r.pc = "done" /\ Outcome(r.of, "completed") /\ ExecutionEnds(r) /\ UNCHANGED <<clock, programs, about>>

(* The database or SMTP fails, perhaps after it took the letter; the        *)
(* deadline of the job comes; the stop cancels it, and the connection is    *)
(* closed at once.                                                         *)
Errs(r) == Outcome(r.of, Retried(r.of)) /\ ExecutionEnds(r) /\ UNCHANGED <<clock, programs, about>>

-----------------------------------------------------------------------------
(* The leader, and what it does with a job that runs too long.              *)
RealWorkers(p) == IF p \in Admins THEN {"staff.mail"} ELSE {"geo.import", "mail.send"}
AddForeign(p) == IF p \in Admins THEN {"geo.import", "mail.send"} ELSE {"staff.mail"}
AllWorkers(p) == RealWorkers(p) \cup AddForeign(p)
Rescue(leader, l) ==
  /\ Taking(leader) /\ job[l].state = "running" /\ now > job[l].since + RescueAfter
  /\ job' = [job EXCEPT ![l].by = None, ![l].since = 0,
                         ![l].state = IF "staff.mail" \in AllWorkers(leader) THEN Retried(l) ELSE "discarded"]
  /\ UNCHANGED <<clock, programs, about, runs>>

(* The stop of a process, its end and its death.                            *)
QueueStop(p) == \/ Stopped(p, RunsOf(p) # {}) /\ UNCHANGED <<job, about, runs>>
                \/ CancelJobs(p, RunsOf(p) # {}) /\ UNCHANGED letters
Exits(p) == (Ends(p) \/ Dies(p)) /\ runs' = runs \ RunsOf(p) /\ UNCHANGED <<job, about>>

LettersInTime == ProgramsInTime /\ \A r \in runs : now + Micro <= r.since + MailTimeout

LettersNext ==
  \/ ProgramsNext /\ UNCHANGED letters
  \/ \E p \in Processes : QueueStop(p) \/ Exits(p) \/ (\E l \in Jobs : TakesJob(p, l) \/ Rescue(p, l))
                          \/ \E L \in SUBSET Jobs, mail \in Mails : Commits(p, L, mail)
  \/ \E L \in SUBSET Jobs, mail \in Mails : Command(L, mail)
  \/ \E l \in Jobs : Turns(l) \/ \E ref \in {"over", "gone"} : MovesOn(l, ref)
  \/ \E r \in runs : Compose(r) \/ HandsOver(r) \/ Completes(r) \/ Errs(r)

-----------------------------------------------------------------------------
(* A letter committed with an action is not lost by any stop, death, other  *)
(* release or leader: it is there to be taken, or it was sent, or nobody    *)
(* wanted it any more, or its tries are used up.  No two processes work on  *)
(* it at once, and it is sent again only by another try.                    *)
LettersKept ==
  /\ \A l \in Jobs : /\ job[l].state = "completed" => job[l].sent > 0
                     /\ job[l].state = "cancelled" => ~job[l].wanted
                     /\ job[l].state = "discarded" => job[l].attempt = MaxAttempts
                     /\ job[l].sent <= job[l].attempt
                     /\ Cardinality({r \in runs : r.of = l}) <= 1
  /\ \A r \in runs : job[r.of].state = "running" /\ job[r.of].by = r.by
=============================================================================

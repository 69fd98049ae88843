------------------------------- MODULE Events -------------------------------
(***************************************************************************)
(* Events of the platform (backend/internal/platform/events): a module     *)
(* writes an event into the outbox in its own transaction; the relays of   *)
(* the workers, woken by NOTIFY or by a poll, turn it into one River job   *)
(* per subscriber; a delivery marks the inbox, moves the cursor of a       *)
(* LatestState subscriber and runs the handler in one transaction.  The    *)
(* clean-up deletes by age, the operator replays, processes die and        *)
(* releases with different subscriptions run side by side.                 *)
(*                                                                         *)
(* One Tick is days: an attempt (a minute), a batch or a pass of the       *)
(* clean-up sees at most one.  Times start at 1; 0 means never.            *)
(***************************************************************************)
EXTENDS Naturals, FiniteSets, Sequences

CONSTANTS
  Workers,      \* processes of cmd/worker: a relay and a client of River each
  Subscribers, Types, Events, Aggregates,
  Knows,        \* Knows[w]: the registry of w's release, pairs <<subscriber, type>>
  Latest,       \* subscribers of mode LatestState
  TypeOf, AggregateOf, VersionOf,  \* what the envelope of an event says
  NoWorker,
  Batch,        \* RelayConfig.Batch
  CleanupBatch,
  Retention,    \* 30 days
  MaxAttempts,
  Plans         \* bounds of a behaviour: who runs, what is published, how long, what fails

ASSUME EventsAssumption ==
  /\ NoWorker \notin Workers /\ IsFiniteSet(Events)
  /\ Knows \in [Workers -> SUBSET (Subscribers \X Types)]
  /\ Latest \subseteq Subscribers
  /\ TypeOf \in [Events -> Types] /\ AggregateOf \in [Events -> Aggregates]
  /\ VersionOf \in [Events -> Nat \ {0}]
  /\ Batch \in Nat \ {0} /\ CleanupBatch \in Nat \ {0}
  /\ Retention \in Nat /\ MaxAttempts \in Nat \ {0}
  /\ Plans \subseteq [workers : (SUBSET Workers) \ {{}}, events : SUBSET Events, time : Nat,
                     faults : SUBSET {"batch", "crash", "ear"}, replays : Nat]

VARIABLES
  plan,     \* the bounds of this behaviour, chosen at the start
  now,      \* the clock of the database
  outbox,   \* outbox[e]: the row of the event
  inbox,    \* inbox[s, e]: processed_at, 0 if there is no mark
  cursor,   \* cursor[s, a]: event_cursors.version
  job,      \* job[s, e]: the River job, and the transaction of its attempt
  relay,    \* relay[w]: where Run is, and the rows its batch holds
  ears,     \* ears[w]: the LISTEN connection, and the channel wake
  cleaner,  \* the job events.cleanup
  faults,   \* what went wrong so far, a set
  replays,  \* calls of Replay so far
  sent,     \* sent[e]: the subscribers e was laid out to
  applied,   \* applied[s, e]: the times at which s applied e (committed)
  latest,   \* latest[s, a]: the version s applied last (committed)
  fate      \* fate[s, e]: what became of the delivery

vars == <<plan, now, outbox, inbox, cursor, job, relay, ears, cleaner, faults, replays,
          sent, applied, latest, fate>>
seen == <<sent, applied, latest, fate>>

Pairs  == Subscribers \X Events
Row    == [state : {"absent", "new", "published", "deleted"}, born : Nat, pub : Nat]
Flight == {"read", "marked", "locked"}
Job    == [state : {"none", "available", "done", "stuck", "completed", "discarded",
                    "cancelled"} \cup Flight,
           tries : Nat, by : Workers \cup {NoWorker}, at : Nat]
Relay  == [pc : {"down", "drain", "batch", "wait"}, rows : SUBSET Events, at : Nat]
Ears   == [listening : BOOLEAN, wake : BOOLEAN]

TypeOK ==
  /\ plan \in Plans
  /\ now \in Nat
  /\ outbox \in [Events -> Row]
  /\ inbox \in [Pairs -> Nat]
  /\ cursor \in [Latest \X Aggregates -> Nat]
  /\ job \in [Pairs -> Job]
  /\ relay \in [Workers -> Relay]
  /\ ears \in [Workers -> Ears]
  /\ cleaner \in [pc : {"outbox", "inbox"}, at : Nat]
  /\ faults \subseteq {"batch", "crash", "ear"} /\ replays \in Nat
  /\ sent \in [Events -> SUBSET Subscribers]
  /\ applied \in [Pairs -> Seq(Nat)]
  /\ latest \in [Subscribers \X Aggregates -> Nat]
  /\ fate \in [Pairs -> {"open", "applied", "stale", "dead"}]

Deleted == [state |-> "deleted", born |-> 0, pub |-> 0]
NoJob == [state |-> "none", tries |-> 0, by |-> NoWorker, at |-> 0]
Queued == [NoJob EXCEPT !.state = "available"]
Drains == [pc |-> "drain", rows |-> {}, at |-> 0]
Waits  == [pc |-> "wait", rows |-> {}, at |-> 0]
Down   == [pc |-> "down", rows |-> {}, at |-> 0]

Init ==
  /\ plan \in Plans
  /\ now = 1
  /\ outbox = [e \in Events |-> [state |-> "absent", born |-> 0, pub |-> 0]]
  /\ inbox = [p \in Pairs |-> 0]
  /\ cursor = [k \in Latest \X Aggregates |-> 0]
  /\ job = [p \in Pairs |-> NoJob]
  /\ relay = [w \in Workers |-> IF w \in plan.workers THEN Drains ELSE Down]
  /\ ears = [w \in Workers |-> [listening |-> FALSE, wake |-> FALSE]]
  /\ cleaner = [pc |-> "outbox", at |-> 0]
  /\ faults = {} /\ replays = 0
  /\ sent = [e \in Events |-> {}]
  /\ applied = [p \in Pairs |-> <<>>]
  /\ latest = [k \in Subscribers \X Aggregates |-> 0]
  /\ fate = [p \in Pairs |-> "open"]

-----------------------------------------------------------------------------
(* The clock.  What takes minutes does not outlive a second Tick.          *)
Tick ==
  /\ now < plan.time
  /\ \A p \in Pairs : job[p].state \in Flight => job[p].at = now
  /\ \A w \in Workers : relay[w].pc = "batch" => relay[w].at = now
  /\ cleaner.pc = "inbox" => cleaner.at = now
  /\ now' = now + 1
  /\ UNCHANGED <<plan, outbox, inbox, cursor, job, relay, ears, cleaner, faults, replays, seen>>

Fault(f) ==
  /\ f \in plan.faults \ faults
  /\ faults' = faults \cup {f}

(* Publish: the transaction of a module commits with its event.  NOTIFY    *)
(* reaches the relays that listen; a signal already waiting is enough.     *)
Signal(W) == ears' = [w \in Workers |-> IF w \in W THEN [ears[w] EXCEPT !.wake = TRUE] ELSE ears[w]]
Publish(e) ==
  /\ outbox[e].state = "absent" /\ e \in plan.events
  /\ outbox' = [outbox EXCEPT ![e] = [state |-> "new", born |-> now, pub |-> 0]]
  /\ Signal({w \in Workers : ears[w].listening})
  /\ UNCHANGED <<plan, now, inbox, cursor, job, relay, cleaner, faults, replays, seen>>

-----------------------------------------------------------------------------
(* The relay: Run, Drain, publishBatch, listen.                            *)
Unpublished == {e \in Events : outbox[e].state = "new"}
LockedRows  == UNION {relay[w].rows : w \in Workers}

(* The rows one statement takes: the oldest, as many as the limit, others'  *)
(* locks skipped.                                                          *)
Oldest(n, S) ==
  {B \in SUBSET S :
     /\ Cardinality(B) = (IF Cardinality(S) < n THEN Cardinality(S) ELSE n)
     /\ \A x \in B, y \in S \ B : outbox[x].born <= outbox[y].born}

Reads(w, S) ==
  \E B \in Oldest(Batch, S) :
    relay' = [relay EXCEPT ![w] = IF B = {} THEN Waits
                                  ELSE [pc |-> "batch", rows |-> B, at |-> now]]
LockUnpublished(w) ==
  /\ relay[w].pc = "drain"
  /\ Reads(w, Unpublished \ LockedRows)
  /\ UNCHANGED <<plan, now, outbox, inbox, cursor, job, ears, cleaner, faults, replays, seen>>

For(w, e) == {s \in Subscribers : <<s, TypeOf[e]>> \in Knows[w]}

(* UniqueOpts.ByArgs: a job that waits, runs, or has run and is still kept *)
(* suppresses another one with the same arguments.                         *)
Insertable(j) == j.state \in {"none", "discarded", "cancelled"}
Inserted(P) == [p \in Pairs |-> IF p \in P /\ Insertable(job[p]) THEN Queued ELSE job[p]]

(* Jobs and published_at are one transaction; a full batch means there may *)
(* be more.                                                                *)
PublishBatch(w) ==
  LET B == relay[w].rows IN
  /\ relay[w].pc = "batch"
  /\ job' = Inserted({p \in Pairs : p[2] \in B /\ p[1] \in For(w, p[2])})
  /\ outbox' = [e \in Events |-> IF e \in B THEN [outbox[e] EXCEPT !.state = "published",
                                                                   !.pub = relay[w].at]
                                 ELSE outbox[e]]
  /\ sent' = [e \in Events |-> IF e \in B THEN For(w, e) ELSE sent[e]]
  /\ relay' = [relay EXCEPT ![w] = IF Cardinality(B) = Batch THEN Drains ELSE Waits]
  /\ UNCHANGED <<plan, now, inbox, cursor, ears, cleaner, faults, replays, applied, latest, fate>>

(* A batch rolls back: Drain gives up until the next signal or poll.       *)
BatchFails(w) ==
  /\ relay[w].pc = "batch" /\ Fault("batch")
  /\ relay' = [relay EXCEPT ![w] = Waits]
  /\ UNCHANGED <<plan, now, outbox, inbox, cursor, job, ears, cleaner, replays, seen>>

Wake(w) ==
  /\ relay[w].pc = "wait" /\ ears[w].wake
  /\ relay' = [relay EXCEPT ![w] = Drains]
  /\ ears' = [ears EXCEPT ![w].wake = FALSE]
  /\ UNCHANGED <<plan, now, outbox, inbox, cursor, job, cleaner, faults, replays, seen>>

PollOnSignal(w) ==
  /\ relay[w].pc = "wait" /\ ears[w].wake
  /\ relay' = [relay EXCEPT ![w] = Drains]
  /\ UNCHANGED <<plan, now, outbox, inbox, cursor, job, ears, cleaner, faults, replays, seen>>
Poll(w) ==
  /\ relay[w].pc = "wait"
  /\ relay' = [relay EXCEPT ![w] = Drains]
  /\ UNCHANGED <<plan, now, outbox, inbox, cursor, job, ears, cleaner, faults, replays, seen>>

(* listenOnce: after each LISTEN a signal, for what came without a listener. *)
ListenSilently(w) ==
  /\ relay[w].pc # "down" /\ ~ears[w].listening
  /\ ears' = [ears EXCEPT ![w].listening = TRUE]
  /\ UNCHANGED <<plan, now, outbox, inbox, cursor, job, relay, cleaner, faults, replays, seen>>
Listen(w) ==
  /\ relay[w].pc # "down" /\ ~ears[w].listening
  /\ ears' = [ears EXCEPT ![w] = [listening |-> TRUE, wake |-> TRUE]]
  /\ UNCHANGED <<plan, now, outbox, inbox, cursor, job, relay, cleaner, faults, replays, seen>>

ListenBreaks(w) ==
  /\ ears[w].listening /\ Fault("ear")
  /\ ears' = [ears EXCEPT ![w].listening = FALSE]
  /\ UNCHANGED <<plan, now, outbox, inbox, cursor, job, relay, cleaner, replays, seen>>

-----------------------------------------------------------------------------
(* Deliveries: DeliverWorker.Work.  The event and the subscription are      *)
(* looked up outside the transaction.                                      *)
Alive(w) == relay[w].pc # "down"

(* An error: River tries again, until the attempts are used up.            *)
Errored(p, n) ==
  /\ job' = [job EXCEPT ![p] = [@ EXCEPT !.state = IF n >= MaxAttempts THEN "discarded" ELSE "available",
                                         !.tries = n, !.by = NoWorker, !.at = 0]]
  /\ fate' = [fate EXCEPT ![p] = IF n >= MaxAttempts /\ @ = "open" THEN "dead" ELSE @]
  /\ UNCHANGED <<plan, now, outbox, inbox, cursor, relay, ears, cleaner, replays, sent, applied, latest>>

GetEvent(w, p) ==
  /\ Alive(w) /\ job[p].state = "available"
  /\ outbox[p[2]].state # "deleted" /\ p[1] \in For(w, p[2])
  /\ job' = [job EXCEPT ![p] = [state |-> "read", tries |-> @.tries + 1, by |-> w, at |-> now]]
  /\ UNCHANGED <<plan, now, outbox, inbox, cursor, relay, ears, cleaner, faults, replays, seen>>

(* The worker of an old release took the job of a new subscription.        *)
NoSubscriptionCancels(w, p) ==
  /\ Alive(w) /\ job[p].state = "available"
  /\ outbox[p[2]].state # "deleted" /\ p[1] \notin For(w, p[2])
  /\ job' = [job EXCEPT ![p] = [NoJob EXCEPT !.state = "cancelled"]]
  /\ UNCHANGED <<plan, now, outbox, inbox, cursor, relay, ears, cleaner, faults, replays, seen>>
NoSubscription(w, p) ==
  /\ Alive(w) /\ job[p].state = "available"
  /\ outbox[p[2]].state # "deleted" /\ p[1] \notin For(w, p[2])
  /\ Errored(p, job[p].tries + 1)
  /\ UNCHANGED faults

(* The event was deleted by the clean-up: JobCancel.                       *)
NoEvent(w, p) ==
  /\ Alive(w) /\ job[p].state = "available"
  /\ outbox[p[2]].state = "deleted"
  /\ job' = [job EXCEPT ![p] = [NoJob EXCEPT !.state = "cancelled"]]
  /\ UNCHANGED <<plan, now, outbox, inbox, cursor, relay, ears, cleaner, faults, replays, seen>>

(* The transaction begins: its now() dates the mark.                       *)
InsertInbox(p) ==
  /\ job[p].state = "read"
  /\ job' = [job EXCEPT ![p].state = IF inbox[p] = 0 THEN "marked" ELSE "done",
                        ![p].at = IF inbox[p] = 0 THEN now ELSE 0]
  /\ UNCHANGED <<plan, now, outbox, inbox, cursor, relay, ears, cleaner, faults, replays, seen>>

(* The cursor of s and the aggregate of e.                                 *)
Key(p) == <<p[1], AggregateOf[p[2]]>>
CursorFree(p) == \A q \in Pairs \ {p} : Key(q) = Key(p) => job[q].state # "locked"

Stale(p) == VersionOf[p[2]] < cursor[Key(p)]

LockCursor(p) ==
  /\ job[p].state = "marked" /\ p[1] \in Latest
  /\ CursorFree(p) /\ ~Stale(p)
  /\ job' = [job EXCEPT ![p].state = "locked"]
  /\ UNCHANGED <<plan, now, outbox, inbox, cursor, relay, ears, cleaner, faults, replays, seen>>

(* An older version: the transaction commits its mark and nothing else.    *)
DropStale(p) ==
  /\ job[p].state = "marked" /\ p[1] \in Latest
  /\ CursorFree(p) /\ Stale(p)
  /\ inbox' = [inbox EXCEPT ![p] = job[p].at]
  /\ job' = [job EXCEPT ![p].state = "done", ![p].at = 0]
  /\ fate' = [fate EXCEPT ![p] = IF @ = "applied" THEN @ ELSE "stale"]
  /\ UNCHANGED <<plan, now, outbox, cursor, relay, ears, cleaner, faults, replays, sent, applied, latest>>

AdvanceAnyCursor(p) ==
  [k \in DOMAIN cursor \cup {Key(p)} |-> IF k = Key(p) THEN VersionOf[p[2]] ELSE cursor[k]]
AdvanceCursor(p) ==
  IF p[1] \in Latest /\ cursor[Key(p)] < VersionOf[p[2]]
  THEN [cursor EXCEPT ![Key(p)] = VersionOf[p[2]]]
  ELSE cursor

(* The handler's changes, the mark and the cursor commit together.         *)
Handle(p) ==
  /\ job[p].state = IF p[1] \in Latest THEN "locked" ELSE "marked"
  /\ inbox' = [inbox EXCEPT ![p] = job[p].at]
  /\ cursor' = AdvanceCursor(p)
  /\ job' = [job EXCEPT ![p].state = "done", ![p].at = 0]
  /\ applied' = [applied EXCEPT ![p] = Append(@, job[p].at)]
  /\ latest' = [latest EXCEPT ![Key(p)] = VersionOf[p[2]]]
  /\ fate' = [fate EXCEPT ![p] = "applied"]
  /\ UNCHANGED <<plan, now, outbox, relay, ears, cleaner, faults, replays, sent>>

(* The handler or a statement fails: rollback, and River tries again.      *)
HandleFails(p) ==
  /\ job[p].state \in Flight
  /\ Errored(p, job[p].tries)
  /\ UNCHANGED faults

(* River notes the end of the attempt.                                     *)
Complete(p) ==
  /\ job[p].state = "done"
  /\ job' = [job EXCEPT ![p] = [NoJob EXCEPT !.state = "completed"]]
  /\ UNCHANGED <<plan, now, outbox, inbox, cursor, relay, ears, cleaner, faults, replays, seen>>

(* The rescuer of the leader: the process died an hour ago.                *)
Rescue(p) ==
  /\ job[p].state = "stuck"
  /\ Errored(p, job[p].tries)
  /\ UNCHANGED faults

(* River's own clean-up of finished jobs (a discarded or cancelled one      *)
(* suppresses nothing while it is kept).                                    *)
JobDeleted(p) ==
  /\ job[p].state = "completed"
  /\ job' = [job EXCEPT ![p] = NoJob]
  /\ UNCHANGED <<plan, now, outbox, inbox, cursor, relay, ears, cleaner, faults, replays, seen>>

-----------------------------------------------------------------------------
(* A process dies: its transactions roll back, its jobs stay running.      *)
Crash(w) ==
  /\ Alive(w) /\ Fault("crash")
  /\ relay' = [relay EXCEPT ![w] = Down]
  /\ ears' = [ears EXCEPT ![w] = [listening |-> FALSE, wake |-> FALSE]]
  /\ job' = [p \in Pairs |-> IF job[p].by = w THEN [job[p] EXCEPT !.state = "stuck", !.by = NoWorker, !.at = 0]
                             ELSE job[p]]
  /\ UNCHANGED <<plan, now, outbox, inbox, cursor, cleaner, replays, seen>>

Restart(w) ==
  /\ ~Alive(w) /\ w \in plan.workers
  /\ relay' = [relay EXCEPT ![w] = Drains]
  /\ UNCHANGED <<plan, now, outbox, inbox, cursor, job, ears, cleaner, faults, replays, seen>>

-----------------------------------------------------------------------------
(* Replay: the operator lays out the events of a type since a moment to    *)
(* one subscriber, published or not.                                       *)
EventIDsForReplay(t, since) ==
  {e \in Events : outbox[e].state \in {"new", "published"} /\ TypeOf[e] = t /\ outbox[e].born >= since}

Replay(w, s, t, since) ==
  /\ replays < plan.replays /\ w \in plan.workers /\ <<s, t>> \in Knows[w]
  /\ replays' = replays + 1
  /\ job' = Inserted({s} \X EventIDsForReplay(t, since))
  /\ UNCHANGED <<plan, now, outbox, inbox, cursor, relay, ears, cleaner, faults, seen>>

-----------------------------------------------------------------------------
(* The clean-up: the outbox by published_at in batches, then the inbox by   *)
(* processed_at in batches; a failure ends the pass.  A pass that finds     *)
(* nothing old changes nothing.                                             *)
AgedAtOnce(t) == t # 0 /\ t + Retention <= now
Aged(t) == t # 0 /\ t + Retention < now
OldPublished == {e \in Events : outbox[e].state = "published" /\ Aged(outbox[e].pub)}
OldInbox     == {p \in Pairs : Aged(inbox[p])}
SomeOf(S)    == {D \in SUBSET S : Cardinality(D) = IF Cardinality(S) < CleanupBatch
                                                   THEN Cardinality(S) ELSE CleanupBatch}

DeleteOldPublished ==
  /\ cleaner.pc = "outbox" /\ (OldPublished # {} \/ OldInbox # {})
  /\ \E D \in SomeOf(OldPublished) :
       /\ outbox' = [e \in Events |-> IF e \in D THEN Deleted ELSE outbox[e]]
       /\ cleaner' = IF Cardinality(D) < CleanupBatch THEN [pc |-> "inbox", at |-> now] ELSE cleaner
  /\ UNCHANGED <<plan, now, inbox, cursor, job, relay, ears, faults, replays, seen>>

DeleteOldInbox ==
  /\ cleaner.pc = "inbox"
  /\ \E D \in SomeOf(OldInbox) :
       /\ inbox' = [p \in Pairs |-> IF p \in D THEN 0 ELSE inbox[p]]
       /\ cleaner' = IF Cardinality(D) < CleanupBatch THEN [pc |-> "outbox", at |-> 0] ELSE cleaner
  /\ UNCHANGED <<plan, now, outbox, cursor, job, relay, ears, faults, replays, seen>>

CleanupFails ==
  /\ cleaner.pc = "inbox"
  /\ cleaner' = [pc |-> "outbox", at |-> 0]
  /\ UNCHANGED <<plan, now, outbox, inbox, cursor, job, relay, ears, faults, replays, seen>>

-----------------------------------------------------------------------------
Relays(w) ==
  \/ LockUnpublished(w) \/ PublishBatch(w) \/ BatchFails(w)
  \/ Wake(w) \/ Poll(w) \/ Listen(w) \/ ListenBreaks(w)
Attempt(p) ==
  \/ InsertInbox(p) \/ LockCursor(p) \/ DropStale(p) \/ Handle(p) \/ HandleFails(p)
Queue(p) == Complete(p) \/ Rescue(p) \/ JobDeleted(p)
Fetch(w, p) == GetEvent(w, p) \/ NoSubscription(w, p) \/ NoEvent(w, p)
Cleanup == DeleteOldPublished \/ DeleteOldInbox \/ CleanupFails

Next ==
  \/ Tick \/ Cleanup
  \/ \E e \in Events : Publish(e)
  \/ \E w \in Workers : Relays(w) \/ Crash(w) \/ Restart(w)
  \/ \E p \in Pairs : Attempt(p) \/ Queue(p) \/ \E w \in Workers : Fetch(w, p)
  \/ \E w \in Workers, s \in Subscribers, t \in Types, since \in 1..now : Replay(w, s, t, since)

Spec == Init /\ [][Next]_vars

(* A running process drains, polls and works; a dead one is started again; *)
(* River gives every job to someone and rescues it.  Nothing is assumed of *)
(* NOTIFY, of the clock or of the clean-up.                                *)
RelayRuns(w) == LockUnpublished(w) \/ PublishBatch(w) \/ Poll(w) \/ Restart(w)
JobRuns(p) == Attempt(p) \/ Complete(p) \/ Rescue(p) \/ \E w \in Workers : Fetch(w, p)
Fairness ==
  /\ \A w \in Workers : WF_vars(RelayRuns(w))
  /\ \A p \in Pairs : WF_vars(JobRuns(p))
FairSpec == Spec /\ Fairness

-----------------------------------------------------------------------------
(* No job is forgotten between outbox and inbox: an event that was laid    *)
(* out has, for every subscriber it was laid out to, a job under way, or   *)
(* was applied, dropped as stale or given up after its attempts; only the  *)
(* clean-up by age cuts this short.                                        *)
NothingLost ==
  \A e \in Events, s \in Subscribers :
    outbox[e].state = "published" /\ s \in sent[e] =>
      \/ fate[<<s, e>>] # "open"
      \/ job[<<s, e>>].state \in {"available", "stuck"} \cup Flight

(* An unpublished event is never left to the poll alone, unless a batch    *)
(* failed or a process died: someone drains, is about to, or will be       *)
(* signalled when it listens again.                                        *)
NoMissedWake ==
  faults \subseteq {"ear"} /\ Unpublished \ LockedRows # {} =>
    \E w \in plan.workers : relay[w].pc # "wait" \/ ears[w].wake \/ ~ears[w].listening

(* The promise to subscribers (DeliveryContract): effects are at least the *)
(* retention apart, and a LatestState subscriber never goes back.          *)
Contract == INSTANCE DeliveryContract
KeepsContract == Contract!Spec

(* Every event that was committed is laid out, and every delivery ends: it *)
(* is applied, dropped as stale, or given up where the operator sees it,   *)
(* unless the event is so old that it was deleted.  A behaviour publishes  *)
(* finitely many events, so the workers always catch up.                   *)
CaughtUp ==
  \A e \in Events :
    /\ outbox[e].state # "new"
    /\ outbox[e].state = "published" => \A s \in sent[e] : fate[s, e] # "open"
Delivered == []<>CaughtUp
=============================================================================

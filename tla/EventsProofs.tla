---------------------------- MODULE EventsProofs ----------------------------
(***************************************************************************)
(* Theorems about Events for every number of workers, subscribers and      *)
(* events, every batch, retention and number of attempts, and whatever     *)
(* each release knows.                                                     *)
(*                                                                         *)
(* NothingLost holds because a job that is no longer under way left a mark *)
(* or a verdict (Accounted).  NoMissedWake holds because of every relay    *)
(* that is about to sleep, not of some relay: what it left unlocked when   *)
(* it read has been published since, or it will be signalled (Attentive).  *)
(* The contract with subscribers holds because an attempt that inserted    *)
(* its mark found none, and the mark of an earlier effect went only by age *)
(* (Due), and because cursors are locked while they are compared (Ahead).  *)
(***************************************************************************)
EXTENDS Events, FiniteSetTheorems, SequenceTheorems, TLAPS

(* The rows a batch holds are unpublished and its own.                     *)
Holding ==
  /\ \A w \in Workers : relay[w].rows # {} => relay[w].pc = "batch"
  /\ \A w \in Workers : relay[w].rows \subseteq Unpublished
  /\ \A v, w \in Workers : v # w => relay[v].rows \cap relay[w].rows = {}

(* What is behind a delivery is known: a mark or a finished job have a     *)
(* fate, a job given up is dead, a job is cancelled for want of its event. *)
(* Under way is what NothingLost says of one delivery.                     *)
UnderWay(p) ==
  outbox[p[2]].state = "published" /\ p[1] \in sent[p[2]] =>
    fate[p] # "open" \/ job[p].state \in {"available", "stuck"} \cup Flight
Accounted ==
  \A p \in Pairs :
    /\ UnderWay(p)
    /\ inbox[p] # 0 => fate[p] # "open"
    /\ job[p].state \in {"done", "completed", "discarded"} => fate[p] # "open"
    /\ job[p].state = "cancelled" => outbox[p[2]].state = "deleted"

(* A relay that listens and is about to wait has left no row behind.       *)
AboutToWait(w) ==
  relay[w].pc = "wait" \/ (relay[w].pc = "batch" /\ Cardinality(relay[w].rows) # Batch)
Attentive ==
  faults \subseteq {"ear"} =>
    \A w \in plan.workers :
      /\ relay[w].pc # "down"
      /\ AboutToWait(w) /\ ears[w].listening /\ ~ears[w].wake => Unpublished \subseteq LockedRows

(* The last effect is marked, or older than the retention of marks.        *)
Effect(p) == applied[p][Len(applied[p])]
DueAt(p) ==
  /\ applied[p] # <<>> =>
       Effect(p) >= 1 /\ (Effect(p) <= inbox[p] \/ Effect(p) + Retention < now)
  /\ job[p].state \in {"marked", "locked"} =>
       /\ inbox[p] = 0 /\ 1 <= job[p].at /\ job[p].at <= now
       /\ applied[p] # <<>> => Effect(p) + Retention < job[p].at
Due == now >= 1 /\ \A p \in Pairs : DueAt(p)

(* The cursor is not behind what was applied; whoever compared it holds it. *)
Ahead ==
  /\ \A k \in Latest \X Aggregates : latest[k] <= cursor[k]
  /\ \A p \in Pairs : job[p].state = "locked" =>
       /\ p[1] \in Latest /\ cursor[Key(p)] <= VersionOf[p[2]]
       /\ \A q \in Pairs \ {p} : Key(q) = Key(p) => job[q].state # "locked"

Inv == TypeOK /\ Holding /\ Accounted /\ Attentive /\ Due /\ Ahead

----------------------------------------------------------------------------
(* The records of the model have their types.                              *)
LEMMA JobTypes ==
  /\ NoJob \in Job /\ Queued \in Job
  /\ [NoJob EXCEPT !.state = "cancelled"] \in Job
  /\ [NoJob EXCEPT !.state = "completed"] \in Job
BY DEF NoJob, Queued, Job, Flight

LEMMA InsertedType ==
  ASSUME TypeOK, NEW P
  PROVE  Inserted(P) \in [Pairs -> Job]
BY JobTypes DEF TypeOK, Inserted

LEMMA ErroredType ==
  ASSUME TypeOK, NEW p \in Pairs, NEW n \in Nat, Errored(p, n), UNCHANGED faults
  PROVE  TypeOK'
<1>0. job[p] \in Job
  BY DEF TypeOK
<1>1. [job[p] EXCEPT !.state = IF n >= MaxAttempts THEN "discarded" ELSE "available",
                     !.tries = n, !.by = NoWorker, !.at = 0] \in Job
  BY <1>0 DEF Job
<1>2. job' \in [Pairs -> Job]
  BY <1>1 DEF TypeOK, Errored
<1>3. fate' \in [Pairs -> {"open", "applied", "stale", "dead"}]
  BY DEF TypeOK, Errored
<1> QED BY <1>2, <1>3 DEF TypeOK, Errored

LEMMA TypeInit == Init => TypeOK
<1> SUFFICES ASSUME Init PROVE TypeOK
  OBVIOUS
<1> USE EventsAssumption
<1>1. relay \in [Workers -> Relay]
  BY DEF Init, Relay, Drains, Down
<1>2. job \in [Pairs -> Job]
  BY JobTypes DEF Init
<1>3. outbox \in [Events -> Row] /\ ears \in [Workers -> Ears]
  BY DEF Init, Row, Ears
<1>4. applied \in [Pairs -> Seq(Nat)]
  BY DEF Init
<1> QED BY <1>1, <1>2, <1>3, <1>4 DEF Init, TypeOK

(* A batch holds events, and what it does to the relay keeps its type.     *)
LEMMA BatchType ==
  ASSUME TypeOK, NEW w \in Workers, NEW B \in SUBSET Events
  PROVE  /\ Drains \in Relay /\ Waits \in Relay /\ Down \in Relay
         /\ [pc |-> "batch", rows |-> B, at |-> now] \in Relay
BY DEF TypeOK, Relay, Drains, Waits, Down

LEMMA TypeStep ==
  ASSUME TypeOK, [Next]_vars
  PROVE  TypeOK'
<1> USE EventsAssumption
<1>1. CASE Tick
  BY <1>1 DEF TypeOK, Tick, seen
<1>2. CASE Cleanup
  <2>1. CASE DeleteOldPublished
    <3>1. outbox' \in [Events -> Row]
      BY <2>1 DEF DeleteOldPublished, TypeOK, Deleted, Row
    <3> QED BY <2>1, <3>1 DEF DeleteOldPublished, TypeOK, seen
  <2>2. CASE DeleteOldInbox
    BY <2>2 DEF DeleteOldInbox, TypeOK, seen
  <2>3. CASE CleanupFails
    BY <2>3 DEF CleanupFails, TypeOK, seen
  <2> QED BY <1>2, <2>1, <2>2, <2>3 DEF Cleanup
<1>3. ASSUME NEW e \in Events, Publish(e) PROVE TypeOK'
  <2>1. outbox' \in [Events -> Row]
    BY <1>3 DEF Publish, TypeOK, Row
  <2>2. ears' \in [Workers -> Ears]
    BY <1>3 DEF Publish, Signal, TypeOK, Ears
  <2> QED BY <1>3, <2>1, <2>2 DEF Publish, TypeOK, seen
<1>4. ASSUME NEW w \in Workers, Relays(w) PROVE TypeOK'
  <2>1. CASE LockUnpublished(w)
    <3>1. relay' \in [Workers -> Relay]
      BY <2>1, BatchType DEF LockUnpublished, Reads, Oldest, Unpublished, TypeOK
    <3> QED BY <2>1, <3>1 DEF LockUnpublished, TypeOK, seen
  <2>2. CASE PublishBatch(w)
    <3>0. ASSUME NEW e \in Events
          PROVE  [outbox[e] EXCEPT !.state = "published", !.pub = relay[w].at] \in Row
      <4>1. outbox[e] \in Row /\ relay[w].at \in Nat
        BY DEF TypeOK, Relay
      <4> QED BY <4>1 DEF Row
    <3>1. outbox' \in [Events -> Row]
      BY <2>2, <3>0 DEF PublishBatch, TypeOK
    <3>2. job' \in [Pairs -> Job]
      BY <2>2, InsertedType DEF PublishBatch
    <3>3. sent' \in [Events -> SUBSET Subscribers]
      BY <2>2 DEF PublishBatch, TypeOK, For
    <3>4. relay' \in [Workers -> Relay]
      BY <2>2, BatchType DEF PublishBatch, TypeOK
    <3> QED BY <2>2, <3>1, <3>2, <3>3, <3>4 DEF PublishBatch, TypeOK
  <2>3. CASE BatchFails(w)
    <3>1. relay' \in [Workers -> Relay]
      BY <2>3, BatchType DEF BatchFails, TypeOK
    <3> QED BY <2>3, <3>1 DEF BatchFails, Fault, TypeOK, seen
  <2>4. CASE Wake(w) \/ Poll(w)
    <3>1. relay' \in [Workers -> Relay]
      BY <2>4, BatchType DEF Wake, Poll, TypeOK
    <3>2. ears' \in [Workers -> Ears]
      <4>1. ears[w] \in Ears
        BY DEF TypeOK
      <4>2. [ears[w] EXCEPT !.wake = FALSE] \in Ears
        BY <4>1 DEF Ears
      <4> QED BY <2>4, <4>2 DEF Wake, Poll, TypeOK
    <3> QED BY <2>4, <3>1, <3>2 DEF Wake, Poll, TypeOK, seen
  <2>5. CASE Listen(w) \/ ListenBreaks(w)
    <3>1. ears' \in [Workers -> Ears]
      <4>1. ears[w] \in Ears
        BY DEF TypeOK
      <4>2. [ears[w] EXCEPT !.listening = FALSE] \in Ears /\ [listening |-> TRUE, wake |-> TRUE] \in Ears
        BY <4>1 DEF Ears
      <4> QED BY <2>5, <4>2 DEF Listen, ListenBreaks, TypeOK
    <3> QED BY <2>5, <3>1 DEF Listen, ListenBreaks, Fault, TypeOK, seen
  <2> QED BY <1>4, <2>1, <2>2, <2>3, <2>4, <2>5 DEF Relays
<1>5. ASSUME NEW w \in Workers, Crash(w) PROVE TypeOK'
  <2>1. relay' \in [Workers -> Relay]
    BY <1>5, BatchType DEF Crash, TypeOK
  <2>2. job' \in [Pairs -> Job]
    <3>1. ASSUME NEW p \in Pairs
          PROVE  [job[p] EXCEPT !.state = "stuck", !.by = NoWorker, !.at = 0] \in Job
      <4>1. job[p] \in Job
        BY DEF TypeOK
      <4> QED BY <4>1 DEF Job
    <3> QED BY <1>5, <3>1 DEF Crash, TypeOK
  <2>3. ears' \in [Workers -> Ears]
    BY <1>5 DEF Crash, TypeOK, Ears
  <2> QED BY <1>5, <2>1, <2>2, <2>3 DEF Crash, Fault, TypeOK, seen
<1>6. ASSUME NEW w \in Workers, Restart(w) PROVE TypeOK'
  <2>1. relay' \in [Workers -> Relay]
    BY <1>6, BatchType DEF Restart, TypeOK
  <2> QED BY <1>6, <2>1 DEF Restart, TypeOK, seen
<1>7. ASSUME NEW p \in Pairs, Attempt(p) PROVE TypeOK'
  <2>0. job[p] \in Job /\ job[p].tries \in Nat /\ job[p].at \in Nat
    BY DEF TypeOK, Job
  <2>1. CASE InsertInbox(p)
    <3>1. job' \in [Pairs -> Job]
      BY <2>0, <2>1 DEF InsertInbox, TypeOK, Job, Flight
    <3> QED BY <2>1, <3>1 DEF InsertInbox, TypeOK, seen
  <2>2. CASE LockCursor(p)
    <3>1. job' \in [Pairs -> Job]
      BY <2>0, <2>2 DEF LockCursor, TypeOK, Job, Flight
    <3> QED BY <2>2, <3>1 DEF LockCursor, TypeOK, seen
  <2>3. CASE DropStale(p)
    <3>1. job' \in [Pairs -> Job]
      BY <2>0, <2>3 DEF DropStale, TypeOK, Job, Flight
    <3> QED BY <2>0, <2>3, <3>1 DEF DropStale, TypeOK
  <2>4. CASE Handle(p)
    <3>1. job' \in [Pairs -> Job]
      BY <2>0, <2>4 DEF Handle, TypeOK, Job, Flight
    <3>2. p[1] \in Subscribers /\ AggregateOf[p[2]] \in Aggregates /\ VersionOf[p[2]] \in Nat
      BY DEF Pairs
    <3>3. cursor' \in [Latest \X Aggregates -> Nat]
      BY <2>4, <3>2 DEF Handle, AdvanceCursor, Key, TypeOK
    <3>4. latest' \in [Subscribers \X Aggregates -> Nat]
      BY <2>4, <3>2 DEF Handle, Key, TypeOK
    <3>5. applied' \in [Pairs -> Seq(Nat)]
      BY <2>0, <2>4 DEF Handle, TypeOK
    <3> QED BY <2>0, <2>4, <3>1, <3>3, <3>4, <3>5 DEF Handle, TypeOK
  <2>5. CASE HandleFails(p)
    BY <2>0, <2>5, ErroredType DEF HandleFails
  <2> QED BY <1>7, <2>1, <2>2, <2>3, <2>4, <2>5 DEF Attempt
<1>8. ASSUME NEW p \in Pairs, Queue(p) PROVE TypeOK'
  <2>1. CASE Complete(p) \/ JobDeleted(p)
    <3>1. job' \in [Pairs -> Job]
      BY <2>1, JobTypes DEF Complete, JobDeleted, TypeOK
    <3> QED BY <2>1, <3>1 DEF Complete, JobDeleted, TypeOK, seen
  <2>2. CASE Rescue(p)
    <3>1. job[p].tries \in Nat
      BY DEF TypeOK, Job
    <3> QED BY <2>2, <3>1, ErroredType DEF Rescue
  <2> QED BY <1>8, <2>1, <2>2 DEF Queue
<1>9. ASSUME NEW p \in Pairs, NEW w \in Workers, Fetch(w, p) PROVE TypeOK'
  <2>0. job[p].tries + 1 \in Nat
    BY DEF TypeOK, Job
  <2>1. CASE GetEvent(w, p) \/ NoEvent(w, p)
    <3>1. job' \in [Pairs -> Job]
      <4>1. [state |-> "read", tries |-> job[p].tries + 1, by |-> w, at |-> now] \in Job
        BY <2>0 DEF TypeOK, Job, Flight
      <4> QED BY <2>1, <4>1, JobTypes DEF GetEvent, NoEvent, TypeOK
    <3> QED BY <2>1, <3>1 DEF GetEvent, NoEvent, TypeOK, seen
  <2>2. CASE NoSubscription(w, p)
    BY <2>0, <2>2, ErroredType DEF NoSubscription
  <2> QED BY <1>9, <2>1, <2>2 DEF Fetch
<1>10. ASSUME NEW w \in Workers, NEW s \in Subscribers, NEW t \in Types, NEW since \in 1..now,
              Replay(w, s, t, since)
       PROVE  TypeOK'
  <2>1. job' \in [Pairs -> Job]
    BY <1>10, InsertedType DEF Replay
  <2>2. replays' \in Nat
    BY <1>10 DEF Replay, TypeOK
  <2> QED BY <1>10, <2>1, <2>2 DEF Replay, TypeOK, seen
<1>11. CASE UNCHANGED vars
  BY <1>11 DEF TypeOK, vars
<1> QED BY <1>1, <1>2, <1>3, <1>4, <1>5, <1>6, <1>7, <1>8, <1>9, <1>10, <1>11 DEF Next

----------------------------------------------------------------------------
(* Which steps concern the relays, and which the deliveries.               *)
LEMMA RelaySteps ==
  ASSUME [Next]_vars
  PROVE  \/ UNCHANGED <<plan, outbox, relay, ears, faults>>
         \/ DeleteOldPublished \/ \E e \in Events : Publish(e)
         \/ \E w \in Workers : Relays(w) \/ Crash(w) \/ Restart(w)
<1>1. CASE Tick \/ DeleteOldInbox \/ CleanupFails
  BY <1>1 DEF Tick, DeleteOldInbox, CleanupFails
<1>2. ASSUME NEW p \in Pairs, Attempt(p) \/ Queue(p)
      PROVE  UNCHANGED <<plan, outbox, relay, ears, faults>>
  BY <1>2 DEF Attempt, Queue, InsertInbox, LockCursor, DropStale, Handle, HandleFails, Complete, Rescue,
              JobDeleted, Errored
<1>3. ASSUME NEW p \in Pairs, NEW w \in Workers, Fetch(w, p)
      PROVE  UNCHANGED <<plan, outbox, relay, ears, faults>>
  BY <1>3 DEF Fetch, GetEvent, NoSubscription, NoEvent, Errored
<1>4. ASSUME NEW w \in Workers, NEW s \in Subscribers, NEW t \in Types, NEW since \in 1..now,
             Replay(w, s, t, since)
      PROVE  UNCHANGED <<plan, outbox, relay, ears, faults>>
  BY <1>4 DEF Replay
<1>5. CASE UNCHANGED vars
  BY <1>5 DEF vars
<1> QED BY <1>1, <1>2, <1>3, <1>4, <1>5 DEF Next, Cleanup

(* The rows a batch takes.  As many as the limit, or all there are.        *)
LEMMA OldestTakes ==
  ASSUME NEW S \in SUBSET Events, NEW B \in Oldest(Batch, S)
  PROVE  /\ B \in SUBSET S
         /\ Cardinality(B) # Batch => B = S
<1> USE EventsAssumption
<1>1. B \in SUBSET S /\ Cardinality(B) = IF Cardinality(S) < Batch THEN Cardinality(S) ELSE Batch
  BY DEF Oldest
<1>2. IsFiniteSet(S)
  BY FS_Subset
<1>3. ASSUME Cardinality(B) # Batch PROVE B = S
  BY <1>1, <1>2, <1>3, FS_Subset
<1> QED BY <1>1, <1>3

LEMMA HoldingStep ==
  ASSUME TypeOK, Holding, [Next]_vars
  PROVE  Holding'
<1> USE DEF Holding, Unpublished
<1>1. CASE UNCHANGED <<plan, outbox, relay, ears, faults>>
  BY <1>1
<1>2. CASE DeleteOldPublished
  <2>1. ASSUME NEW e \in Events, outbox[e].state = "new" PROVE outbox'[e].state = "new"
    BY <1>2, <2>1 DEF DeleteOldPublished, SomeOf, OldPublished
  <2> QED BY <1>2, <2>1 DEF DeleteOldPublished
<1>3. ASSUME NEW e \in Events, Publish(e) PROVE Holding'
  <2>1. ASSUME NEW f \in Events, outbox[f].state = "new" PROVE outbox'[f].state = "new"
    BY <1>3, <2>1 DEF Publish, TypeOK
  <2> QED BY <1>3, <2>1 DEF Publish
<1>4. ASSUME NEW w \in Workers, Relays(w) PROVE Holding'
  <2>1. CASE LockUnpublished(w)
    <3>1. PICK B \in Oldest(Batch, Unpublished \ LockedRows) :
            relay' = [relay EXCEPT ![w] = IF B = {} THEN Waits
                                          ELSE [pc |-> "batch", rows |-> B, at |-> now]]
      BY <2>1 DEF LockUnpublished, Reads
    <3>2. B \subseteq Unpublished \ LockedRows
      BY DEF Oldest
    <3>3. relay'[w].rows = B /\ (B # {} => relay'[w].pc = "batch")
      BY <3>1 DEF Waits, TypeOK
    <3>4. \A v \in Workers \ {w} : relay'[v] = relay[v] /\ relay[v].rows \subseteq LockedRows
      BY <3>1 DEF LockedRows, TypeOK
    <3>5. UNCHANGED outbox
      BY <2>1 DEF LockUnpublished
    <3> QED BY <3>2, <3>3, <3>4, <3>5
  <2>2. CASE PublishBatch(w)
    <3>1. relay'[w].rows = {} /\ \A v \in Workers \ {w} : relay'[v] = relay[v]
      BY <2>2 DEF PublishBatch, Waits, Drains, TypeOK
    <3>2. \A e \in Events \ relay[w].rows : outbox'[e] = outbox[e]
      BY <2>2 DEF PublishBatch
    <3> QED BY <3>1, <3>2
  <2>3. CASE BatchFails(w) \/ Wake(w) \/ Poll(w) \/ Listen(w) \/ ListenBreaks(w)
    <3>1. \A v \in Workers : relay'[v] = relay[v] \/ relay'[v].rows = {}
      BY <2>3 DEF BatchFails, Wake, Poll, Listen, ListenBreaks, Waits, Drains, TypeOK
    <3>2. UNCHANGED outbox
      BY <2>3 DEF BatchFails, Wake, Poll, Listen, ListenBreaks
    <3> QED BY <3>1, <3>2
  <2> QED BY <1>4, <2>1, <2>2, <2>3 DEF Relays
<1>5. ASSUME NEW w \in Workers, Crash(w) \/ Restart(w) PROVE Holding'
  <2>1. \A v \in Workers : relay'[v] = relay[v] \/ relay'[v].rows = {}
    <3>1. relay' = [relay EXCEPT ![w] = Down] \/ relay' = [relay EXCEPT ![w] = Drains]
      BY <1>5 DEF Crash, Restart
    <3> QED BY <3>1 DEF Down, Drains, TypeOK
  <2>2. UNCHANGED outbox
    BY <1>5 DEF Crash, Restart
  <2> QED BY <2>1, <2>2
<1> QED BY <1>1, <1>2, <1>3, <1>4, <1>5, RelaySteps

(* Nobody goes to sleep over a row, as long as no batch failed and no       *)
(* process died.                                                           *)
LEMMA AttentiveStep ==
  ASSUME TypeOK, Holding, Attentive, [Next]_vars
  PROVE  Attentive'
<1> SUFFICES ASSUME faults' \subseteq {"ear"}, NEW v \in plan'.workers
             PROVE  /\ relay'[v].pc # "down"
                    /\ AboutToWait(v)' /\ ears'[v].listening /\ ~ears'[v].wake =>
                          Unpublished' \subseteq LockedRows'
  BY DEF Attentive
<1> USE EventsAssumption DEF Unpublished
<1>0. faults \subseteq {"ear"} /\ v \in plan.workers /\ v \in Workers
  <2>1. plan' = plan /\ faults \subseteq faults'
    BY RelaySteps DEF DeleteOldPublished, Publish, Relays, LockUnpublished, PublishBatch, BatchFails, Wake,
                      Poll, Listen, ListenBreaks, Fault, Crash, Restart
  <2> QED BY <2>1 DEF TypeOK
<1>1. /\ relay[v].pc # "down"
      /\ AboutToWait(v) /\ ears[v].listening /\ ~ears[v].wake => Unpublished \subseteq LockedRows
  BY <1>0 DEF Attentive
<1>2. CASE UNCHANGED <<plan, outbox, relay, ears, faults>>
  BY <1>1, <1>2 DEF AboutToWait, LockedRows
<1>3. CASE DeleteOldPublished
  <2>1. Unpublished' \subseteq Unpublished
    BY <1>3 DEF DeleteOldPublished, Deleted
  <2> QED BY <1>1, <1>3, <2>1 DEF DeleteOldPublished, AboutToWait, LockedRows
<1>4. ASSUME NEW e \in Events, Publish(e)
      PROVE  relay'[v].pc # "down" /\ (ears'[v].listening => ears'[v].wake)
  <2>1. ears[v] \in Ears
    BY <1>0 DEF TypeOK
  <2>2. ears'[v] = IF ears[v].listening THEN [ears[v] EXCEPT !.wake = TRUE] ELSE ears[v]
    BY <1>0, <1>4 DEF Publish, Signal
  <2> QED BY <1>1, <1>4, <2>1, <2>2 DEF Publish, Ears
<1>5. ASSUME NEW w \in Workers, LockUnpublished(w)
      PROVE  /\ relay'[v].pc # "down"
             /\ AboutToWait(v)' /\ ears'[v].listening /\ ~ears'[v].wake => Unpublished' \subseteq LockedRows'
  <2>1. PICK B \in Oldest(Batch, Unpublished \ LockedRows) :
          relay' = [relay EXCEPT ![w] = IF B = {} THEN Waits
                                        ELSE [pc |-> "batch", rows |-> B, at |-> now]]
    BY <1>5 DEF LockUnpublished, Reads
  <2>2. /\ B \subseteq Unpublished \ LockedRows
        /\ Cardinality(B) # Batch => B = Unpublished \ LockedRows
    BY OldestTakes
  <2>3. relay'[w].rows = B /\ relay[w].rows = {} /\ relay'[w].pc = IF B = {} THEN "wait" ELSE "batch"
    BY <1>5, <2>1 DEF LockUnpublished, Holding, Waits, TypeOK
  <2>4. \A u \in Workers \ {w} : relay'[u] = relay[u]
    BY <2>1 DEF TypeOK
  <2>5. LockedRows' = LockedRows \cup B
    BY <2>3, <2>4 DEF LockedRows
  <2>6. UNCHANGED <<outbox, ears>>
    BY <1>5 DEF LockUnpublished
  <2>7. CASE v = w
    <3>1. AboutToWait(v)' => Cardinality(B) # Batch
      BY <2>3, <2>7, FS_EmptySet DEF AboutToWait
    <3> QED BY <2>2, <2>3, <2>5, <2>6, <2>7, <3>1
  <2>8. CASE v # w
    BY <1>0, <1>1, <2>4, <2>5, <2>6, <2>8 DEF AboutToWait
  <2> QED BY <2>7, <2>8
<1>6. ASSUME NEW w \in Workers, PublishBatch(w)
      PROVE  /\ relay'[v].pc # "down"
             /\ AboutToWait(v)' /\ ears'[v].listening /\ ~ears'[v].wake => Unpublished' \subseteq LockedRows'
  <2>1. /\ relay'[w] = IF Cardinality(relay[w].rows) = Batch THEN Drains ELSE Waits
        /\ \A u \in Workers \ {w} : relay'[u] = relay[u]
        /\ relay[w].pc = "batch" /\ UNCHANGED ears
    BY <1>6 DEF PublishBatch, TypeOK
  <2>2. Unpublished' = Unpublished \ relay[w].rows
    BY <1>6 DEF PublishBatch, TypeOK, Row
  <2>3. LockedRows \ relay[w].rows \subseteq LockedRows'
    BY <2>1 DEF LockedRows
  <2>4. AboutToWait(v)' => AboutToWait(v)
    BY <1>0, <2>1 DEF AboutToWait, Drains
  <2> QED BY <1>0, <1>1, <2>1, <2>2, <2>3, <2>4 DEF Drains, Waits
<1>7. ASSUME NEW w \in Workers, Wake(w) \/ Poll(w)
      PROVE  /\ relay'[v].pc # "down"
             /\ AboutToWait(v)' /\ ears'[v].listening /\ ~ears'[v].wake => Unpublished' \subseteq LockedRows'
  <2>1. relay'[w] = Drains /\ relay[w].pc = "wait" /\ UNCHANGED outbox
        /\ \A u \in Workers \ {w} : relay'[u] = relay[u] /\ ears'[u] = ears[u]
    BY <1>7 DEF Wake, Poll, TypeOK
  <2>2. LockedRows' = LockedRows
    BY <2>1 DEF LockedRows, Holding, Drains
  <2> QED BY <1>0, <1>1, <2>1, <2>2 DEF AboutToWait, Drains
<1>8. ASSUME NEW w \in Workers, Listen(w) \/ ListenBreaks(w)
      PROVE  /\ relay'[v].pc # "down"
             /\ AboutToWait(v)' /\ ears'[v].listening /\ ~ears'[v].wake => Unpublished' \subseteq LockedRows'
  <2>1. UNCHANGED <<outbox, relay>> /\ \A u \in Workers \ {w} : ears'[u] = ears[u]
    BY <1>8 DEF Listen, ListenBreaks, TypeOK
  <2>2. ears[w] \in Ears
    BY DEF TypeOK
  <2>3. ears'[w].listening => ears'[w].wake
    BY <1>8, <2>2 DEF Listen, ListenBreaks, TypeOK, Ears
  <2> QED BY <1>0, <1>1, <2>1, <2>3 DEF AboutToWait, LockedRows
<1>9. ASSUME NEW w \in Workers, Restart(w)
      PROVE  /\ relay'[v].pc # "down"
             /\ AboutToWait(v)' /\ ears'[v].listening /\ ~ears'[v].wake => Unpublished' \subseteq LockedRows'
  <2>1. relay'[w] = Drains /\ relay[w].pc = "down" /\ UNCHANGED <<outbox, ears>>
        /\ \A u \in Workers \ {w} : relay'[u] = relay[u]
    BY <1>9 DEF Restart, Alive, TypeOK
  <2>2. LockedRows' = LockedRows
    BY <2>1 DEF LockedRows, Holding, Drains
  <2> QED BY <1>0, <1>1, <2>1, <2>2 DEF AboutToWait, Drains
<1>10. ASSUME NEW w \in Workers PROVE ~BatchFails(w) /\ ~Crash(w)
  BY DEF BatchFails, Crash, Fault
<1> QED BY <1>2, <1>3, <1>4, <1>5, <1>6, <1>7, <1>8, <1>9, <1>10, RelaySteps DEF Relays

----------------------------------------------------------------------------
deliveries == <<outbox, inbox, cursor, job, sent, applied, latest, fate>>

LEMMA DeliverySteps ==
  ASSUME [Next]_vars
  PROVE  \/ UNCHANGED deliveries /\ UNCHANGED now
         \/ Tick \/ DeleteOldPublished \/ DeleteOldInbox \/ \E e \in Events : Publish(e)
         \/ \E w \in Workers : PublishBatch(w) \/ Crash(w)
         \/ \E p \in Pairs : Attempt(p) \/ Queue(p) \/ \E w \in Workers : Fetch(w, p)
         \/ \E w \in Workers, s \in Subscribers, t \in Types, since \in 1..now : Replay(w, s, t, since)
<1>1. ASSUME NEW w \in Workers, Relays(w), ~PublishBatch(w)
      PROVE  UNCHANGED deliveries /\ UNCHANGED now
  BY <1>1 DEF Relays, LockUnpublished, BatchFails, Wake, Poll, Listen, ListenBreaks, deliveries, seen
<1>2. ASSUME NEW w \in Workers, Restart(w)
      PROVE  UNCHANGED deliveries /\ UNCHANGED now
  BY <1>2 DEF Restart, deliveries, seen
<1>3. CASE CleanupFails \/ UNCHANGED vars
  BY <1>3 DEF CleanupFails, vars, deliveries, seen
<1> QED BY <1>1, <1>2, <1>3 DEF Next, Cleanup

(* A job that fails is retried, or given up with its fate.                 *)
LEMMA ErroredEnds ==
  ASSUME TypeOK, NEW p \in Pairs, NEW n \in Nat, Errored(p, n)
  PROVE  /\ job'[p].state = "available" \/ (job'[p].state = "discarded" /\ fate'[p] # "open")
         /\ fate[p] # "open" => fate'[p] # "open"
         /\ \A q \in Pairs \ {p} : job'[q] = job[q] /\ fate'[q] = fate[q]
         /\ UNCHANGED <<now, outbox, inbox, cursor, sent, applied, latest>>
<1>1. job[p] \in Job
  BY DEF TypeOK
<1>2. job'[p] = [job[p] EXCEPT !.state = IF n >= MaxAttempts THEN "discarded" ELSE "available",
                               !.tries = n, !.by = NoWorker, !.at = 0]
  BY DEF TypeOK, Errored
<1>3. job'[p].state = IF n >= MaxAttempts THEN "discarded" ELSE "available"
  BY <1>1, <1>2 DEF Job
<1>4. fate'[p] = IF n >= MaxAttempts /\ fate[p] = "open" THEN "dead" ELSE fate[p]
  BY DEF TypeOK, Errored
<1> QED BY <1>3, <1>4 DEF TypeOK, Errored

(* Laying out never takes a job away.                                      *)
LEMMA InsertedKeeps ==
  ASSUME TypeOK, NEW P, job' = Inserted(P), NEW q \in Pairs
  PROVE  /\ job'[q] # job[q] => Insertable(job[q]) /\ job'[q].state = "available"
         /\ q \in P => ~Insertable(job'[q])
<1>1. job'[q] = IF q \in P /\ Insertable(job[q]) THEN Queued ELSE job[q]
  BY DEF Inserted
<1>2. Queued.state = "available"
  BY DEF Queued, NoJob
<1> QED BY <1>1, <1>2 DEF Insertable

(* Whatever changes one job, one mark, one fate.                           *)
AccountedAt(q) ==
  /\ UnderWay(q)
  /\ inbox[q] # 0 => fate[q] # "open"
  /\ job[q].state \in {"done", "completed", "discarded"} => fate[q] # "open"
  /\ job[q].state = "cancelled" => outbox[q[2]].state = "deleted"

LEMMA AccountedFrame ==
  ASSUME Accounted, NEW p \in Pairs, UNCHANGED <<outbox, sent>>, AccountedAt(p)',
         \A q \in Pairs \ {p} : job'[q] = job[q] /\ inbox'[q] = inbox[q] /\ fate'[q] = fate[q]
  PROVE  Accounted'
BY DEF Accounted, AccountedAt, UnderWay

LEMMA AccountedStep ==
  ASSUME TypeOK, Holding, Accounted, [Next]_vars
  PROVE  Accounted'
<1>0. \A p \in Pairs : AccountedAt(p)
  BY DEF Accounted, AccountedAt
<1>1. CASE UNCHANGED deliveries \/ Tick
  BY <1>1 DEF Tick, seen, deliveries, Accounted, UnderWay
<1>2. CASE DeleteOldPublished
  <2>1. \A e \in Events : outbox'[e] = outbox[e] \/ outbox'[e].state = "deleted"
    BY <1>2 DEF DeleteOldPublished, Deleted
  <2>2. \A p \in Pairs : p[2] \in Events
    BY DEF Pairs
  <2> QED BY <1>2, <2>1, <2>2 DEF DeleteOldPublished, seen, Accounted, UnderWay
<1>3. CASE DeleteOldInbox
  <2>1. \A p \in Pairs : inbox'[p] = inbox[p] \/ inbox'[p] = 0
    BY <1>3 DEF DeleteOldInbox
  <2> QED BY <1>3, <2>1 DEF DeleteOldInbox, seen, Accounted, UnderWay
<1>4. ASSUME NEW e \in Events, Publish(e) PROVE Accounted'
  <2>1. \A f \in Events : outbox'[f] = outbox[f] \/ (outbox'[f].state = "new" /\ outbox[f].state = "absent")
    BY <1>4 DEF Publish, TypeOK
  <2>2. \A p \in Pairs : p[2] \in Events
    BY DEF Pairs
  <2> QED BY <1>4, <2>1, <2>2 DEF Publish, seen, Accounted, UnderWay
<1>5. ASSUME NEW w \in Workers, PublishBatch(w) PROVE Accounted'
  <2> DEFINE P == {p \in Pairs : p[2] \in relay[w].rows /\ p[1] \in For(w, p[2])}
  <2>1. job' = Inserted(P) /\ UNCHANGED <<inbox, fate>>
    BY <1>5 DEF PublishBatch
  <2>2. \A e \in Events : /\ e \in relay[w].rows => outbox[e].state = "new" /\ sent'[e] = For(w, e)
                          /\ e \notin relay[w].rows => outbox'[e] = outbox[e] /\ sent'[e] = sent[e]
    BY <1>5 DEF PublishBatch, Holding, Unpublished
  <2>3. ASSUME NEW q \in Pairs PROVE AccountedAt(q)'
    <3>1. q[2] \in Events /\ job'[q] \in Job /\ outbox[q[2]] \in Row
      BY <2>1, InsertedType DEF Pairs, TypeOK
    <3>2. /\ job'[q] # job[q] => Insertable(job[q]) /\ job'[q].state = "available"
          /\ q \in P => ~Insertable(job'[q])
      BY <2>1, InsertedKeeps
    <3>3. q[2] \in relay[w].rows => outbox[q[2]].state = "new" /\ (q[1] \in sent'[q[2]] => q \in P)
      BY <2>2, <3>1
    <3>4. job[q].state # "cancelled" \/ q[2] \notin relay[w].rows
      BY <1>0, <3>3 DEF AccountedAt
    <3>5. job'[q].state \in {"none", "available", "done", "stuck", "completed", "discarded", "cancelled"} \cup Flight
      BY <3>1 DEF Job
    <3>6. UnderWay(q)'
      BY <1>0, <2>1, <2>2, <3>1, <3>2, <3>3, <3>5 DEF AccountedAt, UnderWay, Insertable
    <3> QED BY <1>0, <2>1, <2>2, <3>1, <3>2, <3>4, <3>6 DEF AccountedAt
  <2> QED BY <2>3 DEF Accounted, AccountedAt
<1>6. ASSUME NEW w \in Workers, Crash(w) PROVE Accounted'
  <2>1. ASSUME NEW q \in Pairs PROVE job'[q] = job[q] \/ job'[q].state = "stuck"
    <3>1. job[q] \in Job
      BY DEF TypeOK
    <3> QED BY <1>6, <3>1 DEF Crash, Job
  <2> QED BY <1>6, <2>1 DEF Crash, seen, Accounted, UnderWay
<1>7. ASSUME NEW p \in Pairs, Attempt(p) PROVE Accounted'
  <2>0. job[p] \in Job /\ AccountedAt(p)
    BY <1>0 DEF TypeOK
  <2>1. CASE InsertInbox(p) \/ LockCursor(p)
    <3>1. job'[p].state \in {"marked", "locked"} \/ (job'[p].state = "done" /\ inbox[p] # 0)
      BY <2>0, <2>1 DEF InsertInbox, LockCursor, TypeOK, Job
    <3>2. AccountedAt(p)'
      BY <2>0, <2>1, <3>1 DEF InsertInbox, LockCursor, AccountedAt, UnderWay, Flight, seen
    <3> QED BY <2>1, <3>2, AccountedFrame DEF InsertInbox, LockCursor, TypeOK, seen
  <2>2. CASE DropStale(p) \/ Handle(p)
    <3>1. fate'[p] # "open" /\ job'[p].state = "done"
      BY <2>0, <2>2 DEF DropStale, Handle, TypeOK, Job
    <3>2. AccountedAt(p)'
      BY <3>1 DEF AccountedAt, UnderWay
    <3> QED BY <2>2, <3>2, AccountedFrame DEF DropStale, Handle, TypeOK
  <2>3. CASE HandleFails(p)
    <3>1. job[p].tries \in Nat /\ Errored(p, job[p].tries)
      BY <2>0, <2>3 DEF HandleFails, Job
    <3>2. AccountedAt(p)'
      BY <2>0, <3>1, ErroredEnds DEF AccountedAt, UnderWay
    <3> QED BY <3>1, <3>2, ErroredEnds, AccountedFrame
  <2> QED BY <1>7, <2>1, <2>2, <2>3 DEF Attempt
<1>8. ASSUME NEW p \in Pairs, Queue(p) PROVE Accounted'
  <2>0. job[p] \in Job /\ AccountedAt(p)
    BY <1>0 DEF TypeOK
  <2>1. CASE Complete(p) \/ JobDeleted(p)
    <3>1. job'[p].state \in {"completed", "none"} /\ fate[p] # "open"
      BY <2>0, <2>1 DEF Complete, JobDeleted, TypeOK, NoJob, AccountedAt
    <3>2. AccountedAt(p)'
      BY <2>0, <2>1, <3>1 DEF Complete, JobDeleted, AccountedAt, UnderWay, seen
    <3> QED BY <2>1, <3>2, AccountedFrame DEF Complete, JobDeleted, TypeOK, seen
  <2>2. CASE Rescue(p)
    <3>1. job[p].tries \in Nat /\ Errored(p, job[p].tries)
      BY <2>0, <2>2 DEF Rescue, Job
    <3>2. AccountedAt(p)'
      BY <2>0, <3>1, ErroredEnds DEF AccountedAt, UnderWay
    <3> QED BY <3>1, <3>2, ErroredEnds, AccountedFrame
  <2> QED BY <1>8, <2>1, <2>2 DEF Queue
<1>9. ASSUME NEW p \in Pairs, NEW w \in Workers, Fetch(w, p) PROVE Accounted'
  <2>0. job[p].tries + 1 \in Nat /\ AccountedAt(p)
    BY <1>0 DEF TypeOK, Job
  <2>1. CASE GetEvent(w, p) \/ NoEvent(w, p)
    <3>1. job'[p].state = "read" \/ (job'[p].state = "cancelled" /\ outbox[p[2]].state = "deleted")
      BY <2>1 DEF GetEvent, NoEvent, TypeOK, NoJob
    <3>2. AccountedAt(p)'
      BY <2>0, <2>1, <3>1 DEF GetEvent, NoEvent, AccountedAt, UnderWay, Flight, seen
    <3> QED BY <2>1, <3>2, AccountedFrame DEF GetEvent, NoEvent, TypeOK, seen
  <2>2. CASE NoSubscription(w, p)
    <3>1. Errored(p, job[p].tries + 1)
      BY <2>2 DEF NoSubscription
    <3>2. AccountedAt(p)'
      BY <2>0, <3>1, ErroredEnds DEF AccountedAt, UnderWay
    <3> QED BY <2>0, <3>1, <3>2, ErroredEnds, AccountedFrame
  <2> QED BY <1>9, <2>1, <2>2 DEF Fetch
<1>10. ASSUME NEW w \in Workers, NEW s \in Subscribers, NEW t \in Types, NEW since \in 1..now,
              Replay(w, s, t, since)
       PROVE  Accounted'
  <2>1. ASSUME NEW q \in Pairs PROVE job'[q] = job[q] \/ job'[q].state = "available"
    BY <1>10, InsertedKeeps DEF Replay
  <2> QED BY <1>10, <2>1 DEF Replay, seen, Accounted, UnderWay
<1> QED BY <1>1, <1>2, <1>3, <1>4, <1>5, <1>6, <1>7, <1>8, <1>9, <1>10, DeliverySteps

----------------------------------------------------------------------------
(* No job enters its transaction: every one in it was there as it is.      *)
Calm == \A q \in Pairs : job'[q].state \in {"marked", "locked"} => job'[q] = job[q]
effects == <<now, inbox, cursor, applied, latest>>

LEMMA EffectSteps ==
  ASSUME TypeOK, [Next]_vars
  PROVE  \/ Calm /\ UNCHANGED effects
         \/ Tick \/ DeleteOldInbox
         \/ \E p \in Pairs : InsertInbox(p) \/ LockCursor(p) \/ DropStale(p) \/ Handle(p)
<1> USE DEF effects
<1>1. CASE UNCHANGED deliveries /\ UNCHANGED now
  BY <1>1 DEF deliveries, Calm
<1>2. CASE DeleteOldPublished
  BY <1>2 DEF DeleteOldPublished, seen, Calm
<1>3. ASSUME NEW e \in Events, Publish(e) PROVE Calm /\ UNCHANGED effects
  BY <1>3 DEF Publish, seen, Calm
<1>4. ASSUME NEW w \in Workers, PublishBatch(w) PROVE Calm /\ UNCHANGED effects
  BY <1>4, InsertedKeeps DEF PublishBatch, Calm
<1>5. ASSUME NEW w \in Workers, Crash(w) PROVE Calm /\ UNCHANGED effects
  <2>1. ASSUME NEW q \in Pairs PROVE job'[q] = job[q] \/ job'[q].state = "stuck"
    <3>1. job[q] \in Job
      BY DEF TypeOK
    <3> QED BY <1>5, <3>1 DEF Crash, Job
  <2> QED BY <1>5, <2>1 DEF Crash, seen, Calm
<1>6. ASSUME NEW p \in Pairs, HandleFails(p) \/ Rescue(p) PROVE Calm /\ UNCHANGED effects
  <2>1. job[p].tries \in Nat
    BY DEF TypeOK, Job
  <2>2. Errored(p, job[p].tries)
    BY <1>6 DEF HandleFails, Rescue
  <2> QED BY <2>1, <2>2, ErroredEnds DEF Calm
<1>7. ASSUME NEW p \in Pairs, Complete(p) \/ JobDeleted(p) PROVE Calm /\ UNCHANGED effects
  BY <1>7 DEF Complete, JobDeleted, TypeOK, NoJob, seen, Calm
<1>8. ASSUME NEW p \in Pairs, NEW w \in Workers, Fetch(w, p) PROVE Calm /\ UNCHANGED effects
  <2>1. CASE GetEvent(w, p) \/ NoEvent(w, p)
    BY <2>1 DEF GetEvent, NoEvent, TypeOK, NoJob, seen, Calm
  <2>2. CASE NoSubscription(w, p)
    <3>1. job[p].tries + 1 \in Nat
      BY DEF TypeOK, Job
    <3>2. Errored(p, job[p].tries + 1)
      BY <2>2 DEF NoSubscription
    <3> QED BY <3>1, <3>2, ErroredEnds DEF Calm
  <2> QED BY <1>8, <2>1, <2>2 DEF Fetch
<1>9. ASSUME NEW w \in Workers, NEW s \in Subscribers, NEW t \in Types, NEW since \in 1..now,
             Replay(w, s, t, since)
      PROVE  Calm /\ UNCHANGED effects
  BY <1>9, InsertedKeeps DEF Replay, seen, Calm
<1> QED BY <1>1, <1>2, <1>3, <1>4, <1>5, <1>6, <1>7, <1>8, <1>9, DeliverySteps DEF Attempt, Queue

(* The last effect of p is due to be repeated only after the retention.    *)
LEMMA DueStep ==
  ASSUME TypeOK, Due, [Next]_vars
  PROVE  Due'
<1> USE EventsAssumption DEF Effect
<1>0. /\ now \in Nat
      /\ \A p \in Pairs : /\ inbox[p] \in Nat /\ job[p] \in Job /\ job[p].at \in Nat /\ applied[p] \in Seq(Nat)
                          /\ applied[p] # <<>> => Effect(p) \in Nat
  BY DEF TypeOK, Job
<1>1. CASE Calm /\ UNCHANGED effects
  BY <1>1 DEF Due, DueAt, Calm, effects
<1>2. CASE Tick
  <2>1. now' = now + 1 /\ UNCHANGED <<inbox, job, applied>>
    BY <1>2 DEF Tick, seen
  <2> QED BY <1>0, <2>1 DEF Due, DueAt
<1>3. CASE DeleteOldInbox
  <2>1. \A p \in Pairs : inbox'[p] = inbox[p] \/ (inbox'[p] = 0 /\ inbox[p] + Retention < now)
    BY <1>3 DEF DeleteOldInbox, SomeOf, OldInbox, Aged
  <2>2. UNCHANGED <<now, job, applied>>
    BY <1>3 DEF DeleteOldInbox, seen
  <2>3. ASSUME NEW q \in Pairs PROVE DueAt(q)'
    <3>1. DueAt(q) /\ now \in Nat /\ inbox[q] \in Nat /\ (applied[q] # <<>> => Effect(q) \in Nat)
      BY <1>0 DEF Due
    <3>2. applied[q] # <<>> => Effect(q) >= 1 /\ (Effect(q) <= inbox'[q] \/ Effect(q) + Retention < now)
      BY <2>1, <3>1 DEF DueAt
    <3> QED BY <2>1, <2>2, <3>1, <3>2 DEF DueAt
  <2> QED BY <2>2, <2>3 DEF Due
<1>4. ASSUME NEW p \in Pairs, InsertInbox(p) PROVE Due'
  <2>1. UNCHANGED <<now, inbox, applied>> /\ \A q \in Pairs \ {p} : job'[q] = job[q]
    BY <1>4 DEF InsertInbox, TypeOK, seen
  <2>2. job'[p].state \in {"marked", "locked"} => inbox[p] = 0 /\ job'[p].at = now
    BY <1>0, <1>4 DEF InsertInbox, TypeOK, Job
  <2>3. DueAt(p)'
    BY <1>0, <2>1, <2>2 DEF Due, DueAt
  <2>4. ASSUME NEW q \in Pairs \ {p} PROVE DueAt(q)'
    BY <2>1, <2>4 DEF Due, DueAt
  <2> QED BY <2>1, <2>3, <2>4 DEF Due
<1>5. ASSUME NEW p \in Pairs, LockCursor(p) PROVE Due'
  <2>1. UNCHANGED <<now, inbox, applied>> /\ \A q \in Pairs \ {p} : job'[q] = job[q]
    BY <1>5 DEF LockCursor, TypeOK, seen
  <2>2. job[p].state = "marked" /\ job'[p].at = job[p].at
    BY <1>0, <1>5 DEF LockCursor, TypeOK, Job
  <2> QED BY <2>1, <2>2 DEF Due, DueAt
<1>6. ASSUME NEW p \in Pairs, DropStale(p) \/ Handle(p) PROVE Due'
  <2>1. /\ UNCHANGED now
        /\ \A q \in Pairs \ {p} : job'[q] = job[q] /\ inbox'[q] = inbox[q] /\ applied'[q] = applied[q]
    BY <1>6 DEF DropStale, Handle, TypeOK
  <2>2. job[p].state \in {"marked", "locked"} /\ job'[p].state = "done" /\ inbox'[p] = job[p].at
    BY <1>0, <1>6 DEF DropStale, Handle, TypeOK, Job
  <2>3. applied'[p] = applied[p] \/ applied'[p] = Append(applied[p], job[p].at)
    BY <1>6 DEF DropStale, Handle, TypeOK
  <2>4. applied'[p] # applied[p] => applied'[p][Len(applied'[p])] = job[p].at
    <3>1. ASSUME applied'[p] = Append(applied[p], job[p].at)
          PROVE  applied'[p][Len(applied'[p])] = job[p].at
      BY <1>0, <3>1, AppendProperties
    <3> QED BY <2>3, <3>1
  <2>5. 1 <= job[p].at /\ job[p].at <= now /\ inbox[p] = 0
    BY <2>2 DEF Due, DueAt
  <2>6. applied'[p] # <<>> => applied'[p][Len(applied'[p])] >= 1 /\ applied'[p][Len(applied'[p])] <= inbox'[p]
    <3>1. CASE applied'[p] = applied[p]
      BY <1>0, <2>2, <2>5, <3>1 DEF Due, DueAt
    <3>2. CASE applied'[p] # applied[p]
      BY <1>0, <2>2, <2>4, <2>5, <3>2
    <3> QED BY <3>1, <3>2
  <2>7. DueAt(p)'
    BY <1>0, <2>2, <2>6 DEF DueAt
  <2>8. ASSUME NEW q \in Pairs \ {p} PROVE DueAt(q)'
    BY <2>1, <2>8 DEF Due, DueAt
  <2> QED BY <2>1, <2>7, <2>8 DEF Due
<1> QED BY <1>1, <1>2, <1>3, <1>4, <1>5, <1>6, EffectSteps

LEMMA AheadStep ==
  ASSUME TypeOK, Ahead, [Next]_vars
  PROVE  Ahead'
<1> USE EventsAssumption
<1>0. /\ \A p \in Pairs : /\ job[p] \in Job /\ VersionOf[p[2]] \in Nat
                          /\ Key(p) \in Subscribers \X Aggregates
                          /\ p[1] \in Latest <=> Key(p) \in Latest \X Aggregates
      /\ \A k \in Latest \X Aggregates : cursor[k] \in Nat /\ latest[k] \in Nat
  BY DEF TypeOK, Pairs, Key
<1>1. CASE Calm /\ UNCHANGED effects
  BY <1>1 DEF Ahead, Calm, effects
<1>2. CASE Tick \/ DeleteOldInbox
  BY <1>2 DEF Tick, DeleteOldInbox, seen, Ahead
<1>3. ASSUME NEW p \in Pairs, InsertInbox(p) PROVE Ahead'
  <2>1. UNCHANGED <<cursor, latest>> /\ \A q \in Pairs \ {p} : job'[q] = job[q]
    BY <1>3 DEF InsertInbox, TypeOK, seen
  <2>2. job'[p].state # "locked"
    BY <1>0, <1>3 DEF InsertInbox, TypeOK, Job
  <2> QED BY <2>1, <2>2 DEF Ahead
<1>4. ASSUME NEW p \in Pairs, LockCursor(p) PROVE Ahead'
  <2>1. UNCHANGED <<cursor, latest>> /\ \A q \in Pairs \ {p} : job'[q] = job[q]
    BY <1>4 DEF LockCursor, TypeOK, seen
  <2>2. /\ p[1] \in Latest /\ cursor[Key(p)] <= VersionOf[p[2]]
        /\ \A q \in Pairs \ {p} : Key(q) = Key(p) => job[q].state # "locked"
    BY <1>0, <1>4 DEF LockCursor, Stale, CursorFree
  <2> QED BY <2>1, <2>2 DEF Ahead
<1>5. ASSUME NEW p \in Pairs, DropStale(p) PROVE Ahead'
  <2>1. UNCHANGED <<cursor, latest>> /\ \A q \in Pairs \ {p} : job'[q] = job[q]
    BY <1>5 DEF DropStale, TypeOK
  <2>2. job'[p].state # "locked"
    BY <1>0, <1>5 DEF DropStale, TypeOK, Job
  <2> QED BY <2>1, <2>2 DEF Ahead
<1>6. ASSUME NEW p \in Pairs, Handle(p) PROVE Ahead'
  <2>1. \A q \in Pairs \ {p} : job'[q] = job[q]
    BY <1>6 DEF Handle, TypeOK
  <2>2. job'[p].state # "locked"
    BY <1>0, <1>6 DEF Handle, TypeOK, Job
  <2>3. latest' = [latest EXCEPT ![Key(p)] = VersionOf[p[2]]] /\ cursor' = AdvanceCursor(p)
    BY <1>6 DEF Handle
  <2>4. CASE p[1] \in Latest
    <3>1. job[p].state = "locked"
      BY <1>6, <2>4 DEF Handle
    <3>2. /\ cursor[Key(p)] <= VersionOf[p[2]]
          /\ \A q \in Pairs \ {p} : Key(q) = Key(p) => job[q].state # "locked"
      BY <3>1 DEF Ahead
    <3>3. cursor'[Key(p)] = VersionOf[p[2]] /\ latest'[Key(p)] = VersionOf[p[2]]
      BY <1>0, <2>3, <2>4, <3>2 DEF AdvanceCursor, TypeOK
    <3>4. \A k \in (Latest \X Aggregates) \ {Key(p)} : cursor'[k] = cursor[k] /\ latest'[k] = latest[k]
      BY <1>0, <2>3 DEF AdvanceCursor, TypeOK
    <3>5. \A k \in Latest \X Aggregates : latest'[k] <= cursor'[k]
      BY <1>0, <3>3, <3>4 DEF Ahead
    <3>6. \A q \in Pairs : job'[q].state = "locked" =>
            q # p /\ q[1] \in Latest /\ Key(q) \in (Latest \X Aggregates) \ {Key(p)} /\ cursor'[Key(q)] = cursor[Key(q)]
      BY <1>0, <2>1, <2>2, <3>2, <3>4 DEF Ahead
    <3> QED BY <2>1, <2>2, <3>5, <3>6 DEF Ahead
  <2>5. CASE p[1] \notin Latest
    <3>1. UNCHANGED cursor /\ Key(p) \notin Latest \X Aggregates
      BY <1>0, <2>3, <2>5 DEF AdvanceCursor
    <3>2. \A k \in Latest \X Aggregates : latest'[k] = latest[k]
      BY <2>3, <3>1 DEF TypeOK
    <3> QED BY <2>1, <2>2, <3>1, <3>2 DEF Ahead
  <2> QED BY <2>4, <2>5
<1> QED BY <1>1, <1>2, <1>3, <1>4, <1>5, <1>6, EffectSteps

----------------------------------------------------------------------------
LEMMA InitInv == Init => Inv
<1> SUFFICES ASSUME Init PROVE Inv
  OBVIOUS
<1> USE EventsAssumption
<1>1. TypeOK
  BY TypeInit
<1>2. \A w \in Workers : relay[w] = IF w \in plan.workers THEN Drains ELSE Down
  BY DEF Init
<1>3. Holding /\ Attentive
  <2>1. plan.workers \subseteq Workers
    BY <1>1 DEF TypeOK
  <2> QED BY <1>2, <2>1 DEF Holding, Attentive, AboutToWait, Drains, Down
<1>4. Accounted
  <2>1. \A p \in Pairs : p[2] \in Events
    BY DEF Pairs
  <2> QED BY <2>1 DEF Init, Accounted, UnderWay, NoJob
<1>5. Due /\ Ahead
  BY DEF Init, Due, DueAt, Ahead, NoJob
<1> QED BY <1>1, <1>3, <1>4, <1>5 DEF Inv

LEMMA InvStep == Inv /\ [Next]_vars => Inv'
BY TypeStep, HoldingStep, AccountedStep, AttentiveStep, DueStep, AheadStep DEF Inv

THEOREM Invariance == Spec => []Inv
BY InitInv, InvStep, PTL DEF Spec

(* Every variable keeps its type, whatever releases run side by side.      *)
THEOREM TypeCorrect == Spec => []TypeOK
BY Invariance, PTL DEF Inv

(* No delivery is lost between the outbox and the inbox (publishBatch,     *)
(* DeliverWorker.Work): crashes, failed batches, replays, cancelled jobs   *)
(* and the clean-ups of River and of the inbox leave none open unattended. *)
THEOREM NothingLostEver == Spec => []NothingLost
<1>1. Inv => NothingLost
  BY DEF Inv, Accounted, UnderWay, NothingLost, Pairs
<1> QED BY <1>1, Invariance, PTL

(* No relay sleeps over a row it could have heard of (Run, listenOnce).    *)
THEOREM NoWakeMissed == Spec => []NoMissedWake
<1>1. Inv => NoMissedWake
  <2> SUFFICES ASSUME Inv, faults \subseteq {"ear"}, Unpublished \ LockedRows # {}
               PROVE  \E w \in plan.workers : relay[w].pc # "wait" \/ ears[w].wake \/ ~ears[w].listening
    BY DEF NoMissedWake
  <2>1. PICK w \in plan.workers : TRUE
    BY EventsAssumption DEF Inv, TypeOK
  <2> QED BY <2>1 DEF Inv, Attentive, AboutToWait
<1> QED BY <1>1, Invariance, PTL

----------------------------------------------------------------------------
(* Handle is the step of the contract; no other step has an effect.        *)
LEMMA HandleApplies ==
  ASSUME Inv, NEW p \in Pairs, Handle(p)
  PROVE  Contract!Apply(p[1], p[2])
<1> USE EventsAssumption DEF Contract!Last
<1>0. p = <<p[1], p[2]>> /\ p[1] \in Subscribers /\ Key(p) \in Subscribers \X Aggregates
  BY DEF Pairs, Key
<1>1. job[p].at \in Nat /\ applied[p] \in Seq(Nat) /\ job[p].state \in {"marked", "locked"}
  BY DEF Inv, TypeOK, Job, Handle
<1>2. applied' = [applied EXCEPT ![p] = Append(@, job[p].at)] /\ applied'[p] = Append(applied[p], job[p].at)
  BY DEF Handle, Inv, TypeOK
<1>3. applied'[p] # <<>> /\ applied'[p][Len(applied'[p])] = job[p].at
  <2>1. ASSUME NEW h \in Seq(Nat), NEW t \in Nat
        PROVE  Append(h, t) # <<>> /\ Append(h, t)[Len(Append(h, t))] = t
    <3>1. Len(h) \in Nat /\ Len(Append(h, t)) = Len(h) + 1 /\ Append(h, t)[Len(h) + 1] = t
      BY AppendProperties, LenProperties
    <3>2. Len(<<>>) = 0
      OBVIOUS
    <3>3. Len(Append(h, t)) # 0
      BY <3>1
    <3>4. Append(h, t) # <<>>
      BY <3>2, <3>3, Zenon
    <3> QED BY <3>1, <3>4
  <2>2. Append(applied[p], job[p].at) # <<>>
        /\ Append(applied[p], job[p].at)[Len(Append(applied[p], job[p].at))] = job[p].at
    BY <1>1, <2>1, Zenon
  <2> QED BY <1>2, <2>2, Zenon
<1>4. applied[p] # <<>> => applied[p][Len(applied[p])] + Retention < job[p].at
  BY <1>1 DEF Inv, Due, DueAt, Effect
<1>5. p[1] \in Latest => latest[Key(p)] <= VersionOf[p[2]]
  <2> SUFFICES ASSUME p[1] \in Latest PROVE latest[Key(p)] <= VersionOf[p[2]]
    OBVIOUS
  <2>1. job[p].state = "locked" /\ Key(p) \in Latest \X Aggregates
    BY <1>0 DEF Handle, Key
  <2>2. latest[Key(p)] <= cursor[Key(p)] /\ cursor[Key(p)] <= VersionOf[p[2]]
    BY <2>1 DEF Inv, Ahead
  <2>3. latest[Key(p)] \in Nat /\ cursor[Key(p)] \in Nat /\ VersionOf[p[2]] \in Nat
    BY <1>0, <2>1 DEF Inv, TypeOK, Pairs
  <2> QED BY <2>2, <2>3
<1>6. latest' = [latest EXCEPT ![Key(p)] = VersionOf[p[2]]]
  BY DEF Handle
<1> QED BY <1>0, <1>2, <1>3, <1>4, <1>5, <1>6 DEF Contract!Apply, Key

LEMMA StepMaps ==
  ASSUME Inv, [Next]_vars
  PROVE  [Contract!Next]_(Contract!vars)
<1> USE DEF Contract!vars
<1>1. CASE UNCHANGED effects
  BY <1>1 DEF effects
<1>2. CASE Tick \/ DeleteOldInbox
  BY <1>2 DEF Tick, DeleteOldInbox, seen
<1>3. ASSUME NEW p \in Pairs, InsertInbox(p) \/ LockCursor(p) \/ DropStale(p)
      PROVE  UNCHANGED <<applied, latest>>
  BY <1>3 DEF InsertInbox, LockCursor, DropStale, seen
<1>4. ASSUME NEW p \in Pairs, Handle(p) PROVE Contract!Next
  BY <1>4, HandleApplies DEF Contract!Next, Pairs
<1> QED BY <1>1, <1>2, <1>3, <1>4, EffectSteps DEF Inv

(* The delivery of events implements its contract with subscribers: a      *)
(* repeated effect comes after the retention of marks, and a LatestState    *)
(* subscriber never goes back, whatever crashes, retries and replays do.   *)
THEOREM Implementation == Spec => KeepsContract
<1>1. Init => Contract!Init
  BY DEF Init, Contract!Init, Pairs
<1> QED BY <1>1, StepMaps, Invariance, PTL DEF Spec, KeepsContract, Contract!Spec

=============================================================================

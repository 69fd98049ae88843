---------------------------- MODULE Idempotency ----------------------------
(***************************************************************************)
(* Idempotency keys (backend/internal/platform/idempotency): a mutating    *)
(* request that carries a key looks it up, and if the key is free inserts  *)
(* it as the first statement of its business transaction (the hook of      *)
(* db.InTx).  The key commits with the action; the answer is saved under   *)
(* it afterwards, and a repeat gets that answer.  Keys expire and are      *)
(* cleaned up while requests go on.                                        *)
(*                                                                         *)
(* now() of a statement is the time its transaction began: a transaction   *)
(* that waited judges expiry by an old clock.  A repeat of a request is    *)
(* another member of Requests with the same key and hash.                  *)
(***************************************************************************)
EXTENDS Naturals, FiniteSets

CONSTANTS
  Requests,  \* HTTP requests of one subject, repeats included
  Keys,      \* values of Idempotency-Key
  Hashes,    \* RequestHash: method, path and body
  NoStore,   \* hashes of operations with x-idempotency: no-store
  Cleaner,   \* DeleteExpired
  NoKey,     \* no row
  Unsaved,   \* response_status IS NULL
  NoOne,     \* no lock
  TTL,       \* 24 hours
  Patience,  \* bound: how long a request takes, its answer saved
  MaxTries,  \* bound: transactions one request begins
  MaxTime    \* bound: the clock stops here

ASSUME IdempotencyAssumption ==
  /\ NoOne \notin Requests \cup {Cleaner} /\ Cleaner \notin Requests
  /\ NoStore \subseteq Hashes
  /\ TTL \in Nat /\ Patience \in Nat /\ Patience < TTL
  /\ MaxTries \in Nat /\ MaxTime \in Nat
  /\ NoKey \notin [hash : Hashes, expires : Nat, resp : {Unsaved} \cup
                     [by : Requests, code : {"ok", "refused", "error"}]]
  /\ Unsaved \notin [by : Requests, code : {"ok", "refused", "error"}]

VARIABLES
  now,    \* the clock of the database
  row,    \* row[k]: committed row of the key
  lock,   \* lock[k]: who holds the row, or its place in the unique index
  call,   \* call[q]: the request and its claim
  told,   \* told[q]: what the client was answered
  done,   \* done[k]: the actions committed under the key
  sweep   \* the statement of DeleteExpired that is running

vars == <<now, row, lock, call, told, done, sweep>>

Codes   == {"ok", "refused", "error"}  \* below 400, below 500, the rest
Saved   == [by : Requests, code : Codes]
Row     == [hash : Hashes, expires : Nat, resp : Saved \cup {Unsaved}]
Call    == [pc : {"new", "handler", "claim", "work", "conflict", "save", "ended"},
            key : Keys, hash : Hashes, since : Nat, start : Nat, tries : Nat,
            committed : BOOLEAN, code : Codes]
Answers == {"nothing", "own", "replay", "key_reused", "in_progress",
            "replay_unavailable", "internal"}
Told    == [kind : Answers, code : Codes, by : Requests]
Action  == [by : Requests, hash : Hashes, start : Nat]
Resting == [running |-> FALSE, at |-> 0, todo |-> {}, gone |-> {}]

TypeOK ==
  /\ now \in Nat
  /\ row \in [Keys -> Row \cup {NoKey}]
  /\ lock \in [Keys -> Requests \cup {Cleaner, NoOne}]
  /\ call \in [Requests -> Call]
  /\ told \in [Requests -> Told]
  /\ done \in [Keys -> SUBSET Action]
  /\ sweep \in [running : BOOLEAN, at : Nat, todo : SUBSET Keys, gone : SUBSET Keys]

Init ==
  /\ now = 0
  /\ row = [k \in Keys |-> NoKey]
  /\ lock = [k \in Keys |-> NoOne]
  /\ call \in [Requests -> [pc : {"new"}, key : Keys, hash : Hashes, since : {0}, start : {0},
                            tries : {0}, committed : {FALSE}, code : {"error"}]]
  /\ told = [q \in Requests |-> [kind |-> "nothing", code |-> "error", by |-> q]]
  /\ done = [k \in Keys |-> {}]
  /\ sweep = Resting

----------------------------------------------------------------------------
Key(q)  == call[q].key
Hash(q) == call[q].hash
Active(q) == call[q].pc \notin {"new", "ended"}
(* WHERE expires_at > t, and its opposite in Claim and DeleteExpired.      *)
Live(k, t)    == row[k] # NoKey /\ row[k].expires > t
Expired(k, t) == row[k] # NoKey /\ row[k].expires <= t

Step(q, pc) == call' = [call EXCEPT ![q].pc = pc]
(* The request is over: of its claim nothing remains.                      *)
Over(c) == [c EXCEPT !.pc = "ended", !.since = 0, !.start = 0, !.tries = 0, !.committed = FALSE]
End(q) == call' = [call EXCEPT ![q] = Over(@)]
Tell(q, kind, code, by) == told' = [told EXCEPT ![q] = [kind |-> kind, code |-> code, by |-> by]]
(* The end of q's transaction, whichever way: its lock is gone.            *)
Unlock(q) == lock' = [k \in Keys |-> IF lock[k] = q THEN NoOne ELSE lock[k]]

(* Time passes, and no request is older than Patience.                     *)
Tick ==
  /\ now < MaxTime
  /\ \A q \in Requests : Active(q) => now < call[q].since + Patience
  /\ now' = now + 1
  /\ UNCHANGED <<row, lock, call, told, done, sweep>>

----------------------------------------------------------------------------
(* A request arrives and looks its key up (Get): a live key answers.       *)

Replay(q) ==
  LET r == row[Key(q)] IN
  CASE r.hash # Hash(q) -> Tell(q, "key_reused", "refused", q)
    [] r.hash = Hash(q) /\ (r.resp = Unsaved \/ Hash(q) \in NoStore) ->
         Tell(q, "replay_unavailable", "refused", q)
    [] OTHER -> Tell(q, "replay", r.resp.code, r.resp.by)

Look(q) ==
  /\ call[q].pc = "new"
  /\ IF Live(Key(q), now)
       THEN Replay(q) /\ End(q)
       ELSE UNCHANGED told /\ call' = [call EXCEPT ![q].pc = "handler", ![q].since = now]
  /\ UNCHANGED <<now, row, lock, done, sweep>>

----------------------------------------------------------------------------
(* The transactions of the handler: after a rollback it may try again,     *)
(* after a commit the hook refuses another (errSecondTx).                  *)

BeginTx(q) ==
  /\ call[q].pc = "handler" /\ ~call[q].committed /\ call[q].tries < MaxTries
  /\ call' = [call EXCEPT ![q].pc = "claim", ![q].start = now, ![q].tries = @ + 1]
  /\ UNCHANGED <<now, row, lock, told, done, sweep>>

(* INSERT ... ON CONFLICT DO UPDATE ... WHERE expires_at <= now(): without *)
(* a row it inserts, an expired row it takes over, and a live one gives no *)
(* row back but stays locked until the rollback; whether the key was used  *)
(* for something else is looked up then, and may remain unknown.           *)
ClaimableIgnoresExpiry(q) == TRUE
Claimable(q) == row[Key(q)] = NoKey \/ Expired(Key(q), call[q].start)

Claim(q) ==
  /\ call[q].pc = "claim" /\ lock[Key(q)] = NoOne
  /\ lock' = [lock EXCEPT ![Key(q)] = q]
  /\ IF Claimable(q)
       THEN Step(q, "work") /\ UNCHANGED told
       ELSE /\ Step(q, "conflict")
            /\ \/ Tell(q, "in_progress", "refused", q)
               \/ row[Key(q)].hash # Hash(q) /\ Tell(q, "key_reused", "refused", q)
  /\ UNCHANGED <<now, row, done, sweep>>

(* lock_timeout: the holder of the key took too long.                      *)
LockTimeout(q) ==
  /\ call[q].pc = "claim" /\ lock[Key(q)] \notin {NoOne, q}
  /\ Tell(q, "in_progress", "refused", q)
  /\ End(q)
  /\ UNCHANGED <<now, row, lock, done, sweep>>

ConflictEnds(q) ==
  /\ call[q].pc = "conflict"
  /\ Unlock(q) /\ End(q)
  /\ UNCHANGED <<now, row, told, done, sweep>>

(* The key and the action are committed together; settle may not hear of   *)
(* it, when the connection is lost in the middle of the commit.            *)
LandsNoExpiry(q) ==
  /\ row' = [row EXCEPT ![Key(q)] = [hash |-> Hash(q), expires |-> NoKey, resp |-> Unsaved]]
  /\ done' = [done EXCEPT ![Key(q)] =
               @ \cup {[by |-> q, hash |-> Hash(q), start |-> call[q].start]}]
Lands(q) ==
  /\ row' = [row EXCEPT ![Key(q)] =
               [hash |-> Hash(q), expires |-> call[q].start + TTL, resp |-> Unsaved]]
  /\ done' = [done EXCEPT ![Key(q)] =
               @ \cup {[by |-> q, hash |-> Hash(q), start |-> call[q].start]}]

Commit(q) ==
  /\ call[q].pc = "work"
  /\ Lands(q) /\ Unlock(q)
  /\ \E heard \in BOOLEAN :
       call' = [call EXCEPT ![q].pc = "handler", ![q].committed = heard]
  /\ UNCHANGED <<now, told, sweep>>

(* An error of the hook or of the handler's function, or a panic.          *)
RollbackKeepsClaim(q) ==
  /\ call[q].pc \in {"claim", "work"}
  /\ Unlock(q)
  /\ call' = [call EXCEPT ![q].pc = "handler", ![q].committed = (call[q].pc = "work")]
  /\ UNCHANGED <<now, row, told, done, sweep>>
Rollback(q) ==
  /\ call[q].pc \in {"claim", "work"}
  /\ Unlock(q) /\ Step(q, "handler")
  /\ UNCHANGED <<now, row, told, done, sweep>>

----------------------------------------------------------------------------
(* The handler answered: success without a commit is an error, an answer   *)
(* below 500 to a committed action is saved first, the others just go out. *)

RespondAnyway(q, code) ==
  LET c == call[q] IN
  /\ c.pc = "handler"
  /\ IF c.committed /\ code # "error"
       THEN UNCHANGED told /\ call' = [call EXCEPT ![q].pc = "save", ![q].code = code]
       ELSE Tell(q, "own", code, q) /\ End(q)
  /\ UNCHANGED <<now, row, lock, done, sweep>>
Respond(q, code) ==
  LET c == call[q] IN
  /\ c.pc = "handler"
  /\ IF c.committed /\ code # "error"
       THEN UNCHANGED told /\ call' = [call EXCEPT ![q].pc = "save", ![q].code = code]
       ELSE /\ IF code = "ok" THEN Tell(q, "internal", "error", q) ELSE Tell(q, "own", code, q)
            /\ End(q)
  /\ UNCHANGED <<now, row, lock, done, sweep>>

(* SaveResponse in a transaction of its own, waiting for a row's lock.     *)
Saves(q) ==
  row[Key(q)] # NoKey /\ row[Key(q)].hash = Hash(q) /\ row[Key(q)].resp = Unsaved

Save(q) ==
  /\ call[q].pc = "save" /\ lock[Key(q)] = NoOne
  /\ row' = IF Saves(q)
              THEN [row EXCEPT ![Key(q)].resp = [by |-> q, code |-> call[q].code]] ELSE row
  /\ Tell(q, "own", call[q].code, q)
  /\ End(q)
  /\ UNCHANGED <<now, lock, done, sweep>>

(* Not JSON, or an error of the database: logged, and the answer goes out. *)
SaveFails(q) ==
  /\ call[q].pc = "save"
  /\ Tell(q, "own", call[q].code, q)
  /\ End(q)
  /\ UNCHANGED <<now, row, lock, done, sweep>>

(* The process dies: an open transaction is rolled back, nobody answers.   *)
Die(q) ==
  /\ Active(q)
  /\ Unlock(q) /\ End(q)
  /\ told' = [told EXCEPT ![q].kind = "nothing"]
  /\ UNCHANGED <<now, row, done, sweep>>

----------------------------------------------------------------------------
(* One statement of DeleteExpired: its subquery picks rows in the snapshot *)
(* (at most a batch), the outer condition is checked again under the lock. *)

Sweep ==
  /\ ~sweep.running
  /\ \E B \in (SUBSET {k \in Keys : Expired(k, now)}) \ {{}} :
       sweep' = [running |-> TRUE, at |-> now, todo |-> B, gone |-> {}]
  /\ UNCHANGED <<now, row, lock, call, told, done>>

DeletableOnce(k) == row[k] # NoKey
Deletable(k) == Expired(k, sweep.at)

SweepKey(k) ==
  /\ sweep.running /\ k \in sweep.todo /\ lock[k] = NoOne
  /\ lock' = [lock EXCEPT ![k] = Cleaner]
  /\ sweep' = [sweep EXCEPT !.todo = @ \ {k},
                            !.gone = IF Deletable(k) THEN @ \cup {k} ELSE @]
  /\ UNCHANGED <<now, row, call, told, done>>

SweepEnds ==
  /\ sweep.running /\ sweep.todo = {}
  /\ row' = [k \in Keys |-> IF k \in sweep.gone THEN NoKey ELSE row[k]]
  /\ Unlock(Cleaner) /\ sweep' = Resting
  /\ UNCHANGED <<now, call, told, done>>

SweepDies ==
  /\ sweep.running
  /\ Unlock(Cleaner) /\ sweep' = Resting
  /\ UNCHANGED <<now, row, call, told, done>>

----------------------------------------------------------------------------
(* What a request does once it has arrived.                                *)
Progress(q) ==
  \/ BeginTx(q) \/ Claim(q) \/ LockTimeout(q) \/ ConflictEnds(q)
  \/ Commit(q) \/ Rollback(q)
  \/ \E code \in Codes : Respond(q, code)
  \/ Save(q) \/ SaveFails(q)

Next ==
  \/ Tick
  \/ \E q \in Requests : Look(q) \/ Progress(q) \/ Die(q)
  \/ Sweep \/ SweepEnds \/ SweepDies
  \/ \E k \in Keys : SweepKey(k)

Spec == Init /\ [][Next]_vars
----------------------------------------------------------------------------
(* Properties.                                                             *)

(* A repeat does not act again: when an action commits under a key, TTL    *)
(* has passed since the transaction of every earlier action under that     *)
(* key began, whatever was cleaned up, taken over, rolled back or lost     *)
(* in between (package comment; DeleteExpired's second look).              *)
OncePerLifetime ==
  [][\A k \in Keys : done'[k] # done[k] =>
       \A d \in done[k] : d.start + TTL <= now]_vars

(* The answer kept under a key is the one its own execution gave: it was   *)
(* saved by the request whose transaction committed the key in its present *)
(* life, never by one that was rolled back or by an earlier one            *)
(* (save only when committed, SaveResponse only over NULL).                *)
AnswerOfExecution ==
  \A k \in Keys : row[k] # NoKey /\ row[k].resp # Unsaved =>
    LET w == row[k].resp.by IN
    /\ \E d \in done[k] : d.by = w /\ d.hash = row[k].hash /\ d.start + TTL = row[k].expires
    /\ row[k].resp.code = call[w].code

(* A live key is never removed or taken over, and an answer saved under it *)
(* stays as it is (Claim's and DeleteExpired's conditions against rows     *)
(* that changed while they waited).                                        *)
LiveKeyStays ==
  [][\A k \in Keys : Live(k, now) =>
       /\ row'[k] # NoKey
       /\ row'[k].hash = row[k].hash /\ row'[k].expires = row[k].expires
       /\ row[k].resp # Unsaved => row'[k].resp = row[k].resp]_vars

(* Who is told that it is done can rely on it: a success, one's own or a   *)
(* repeated one, and "the action is done but its answer is lost" (codes)   *)
(* stand for an action committed under that key for that very request.     *)
ToldTrue ==
  \A q \in Requests :
    \/ told[q].kind \in {"own", "replay"} /\ told[q].code = "ok"
    \/ told[q].kind = "replay_unavailable"
    => \E d \in done[Key(q)] :
         d.hash = Hash(q) /\ (told[q].kind # "replay_unavailable" => d.by = told[q].by)
=============================================================================

------------------------- MODULE IdempotencyProofs -------------------------
(***************************************************************************)
(* Theorems about Idempotency for any number of requests, keys and hashes. *)
(*                                                                         *)
(* That a repeat does not act again rests on three facts: a claim holds    *)
(* the lock of its key, so what it saw of the row stays so until it        *)
(* commits (Claiming); what the clean-up is about to delete is locked and  *)
(* expired (Sweeping); and an action whose lifetime lasts has a row that   *)
(* says so (Remembered).  What a saved answer says rests on the request    *)
(* being faster than its key expires (Mine, by Patience < TTL).            *)
(***************************************************************************)
EXTENDS Idempotency, TLAPS

(* A transaction whose statement on the key is over holds the key, and if  *)
(* it goes on, the key was free and still is.                              *)
Holds(q) ==
  /\ call[q].pc \in {"work", "conflict"} => lock[Key(q)] = q
  /\ call[q].pc = "work" => Claimable(q)
Claiming == \A q \in Requests : Holds(q)

Sweeping ==
  /\ sweep.running => sweep.at <= now
  /\ ~sweep.running => sweep.gone = {}
  /\ \A k \in sweep.gone : lock[k] = Cleaner /\ Expired(k, sweep.at)

(* An active request is within its patience, and its transaction began     *)
(* while it was active.                                                    *)
InTime(q) == Active(q) =>
  /\ call[q].since <= now /\ now <= call[q].since + Patience
  /\ call[q].pc \in {"claim", "work", "conflict"} \/ call[q].committed =>
       call[q].since <= call[q].start /\ call[q].start <= now
Timely == \A q \in Requests : InTime(q)

Remembered ==
  \A k \in Keys : \A d \in done[k] :
    d.start + TTL <= now \/ (row[k] # NoKey /\ d.start + TTL <= row[k].expires)

(* Every row was committed with an action.                                 *)
Backed ==
  \A k \in Keys : row[k] # NoKey =>
    \E d \in done[k] : d.hash = row[k].hash /\ d.start + TTL = row[k].expires

(* Who knows of its commit has the row under its key.                      *)
Mine ==
  \A q \in Requests :
    /\ call[q].pc = "save" => call[q].committed
    /\ call[q].committed =>
         /\ call[q].pc \in {"handler", "save"}
         /\ [by |-> q, hash |-> Hash(q), start |-> call[q].start] \in done[Key(q)]
         /\ row[Key(q)] # NoKey /\ row[Key(q)].hash = Hash(q)
         /\ row[Key(q)].expires = call[q].start + TTL

(* Who has saved an answer has ended.                                      *)
SaverEnded ==
  \A k \in Keys : row[k] # NoKey /\ row[k].resp # Unsaved => call[row[k].resp.by].pc = "ended"

Inv == TypeOK /\ Claiming /\ Sweeping /\ Timely /\ Remembered /\ Backed /\ Mine
       /\ SaverEnded /\ AnswerOfExecution /\ ToldTrue

----------------------------------------------------------------------------
(* Types.                                                                  *)

LEMMA ClaimsType ==
  ASSUME TypeOK, NEW q \in Requests
  PROVE  /\ call[q] \in Call /\ Key(q) \in Keys /\ Hash(q) \in Hashes
         /\ call[q].start \in Nat /\ call[q].since \in Nat /\ call[q].tries \in Nat
         /\ call[q].code \in Codes
BY DEF TypeOK, Call, Key, Hash

LEMMA StepType ==
  ASSUME TypeOK, NEW q \in Requests, NEW pc \in {"handler", "claim", "work", "conflict", "save"},
         Step(q, pc)
  PROVE  call' \in [Requests -> Call]
<1>1. [call[q] EXCEPT !.pc = pc] \in Call
  BY ClaimsType DEF Call
<1> QED
  BY <1>1 DEF Step, TypeOK

LEMMA EndType ==
  ASSUME TypeOK, NEW q \in Requests, End(q)
  PROVE  call' \in [Requests -> Call]
<1>1. Over(call[q]) \in Call
  BY ClaimsType DEF Call, Over
<1> QED
  BY <1>1 DEF End, TypeOK

LEMMA TellType ==
  ASSUME TypeOK, NEW q \in Requests, NEW kind \in Answers, NEW code \in Codes,
         NEW by \in Requests, Tell(q, kind, code, by)
  PROVE  told' \in [Requests -> Told]
BY DEF TypeOK, Tell, Told

LEMMA UnlockType ==
  ASSUME TypeOK, NEW q \in Requests \cup {Cleaner}, Unlock(q)
  PROVE  lock' \in [Keys -> Requests \cup {Cleaner, NoOne}]
BY DEF TypeOK, Unlock

(* What a request is told comes from its own claim or from a saved answer. *)
LEMMA RowType ==
  ASSUME TypeOK, NEW k \in Keys, row[k] # NoKey
  PROVE  /\ row[k] \in Row /\ row[k].hash \in Hashes /\ row[k].expires \in Nat
         /\ row[k].resp # Unsaved => row[k].resp.by \in Requests /\ row[k].resp.code \in Codes
BY DEF TypeOK, Row, Saved

LEMMA TypeStep == TypeOK /\ [Next]_vars => TypeOK'
<1> SUFFICES ASSUME TypeOK, [Next]_vars PROVE TypeOK'
  OBVIOUS
<1>1. CASE Tick
  BY <1>1 DEF Tick, TypeOK
<1>2. ASSUME NEW q \in Requests, Look(q) PROVE TypeOK'
  <2>1. CASE Live(Key(q), now)
    <3>1. End(q) /\ Replay(q)
      BY <1>2, <2>1 DEF Look
    <3>2. told' \in [Requests -> Told]
      BY <2>1, <3>1, TellType, RowType, ClaimsType DEF Replay, Live, Answers, Codes
    <3> QED
      BY <1>2, <3>1, <3>2, EndType DEF Look, TypeOK
  <2>2. CASE ~Live(Key(q), now)
    <3>1. [call[q] EXCEPT !.pc = "handler", !.since = now] \in Call
      BY ClaimsType DEF Call, TypeOK
    <3> QED
      BY <1>2, <2>2, <3>1 DEF Look, TypeOK
  <2> QED
    BY <2>1, <2>2
<1>3. ASSUME NEW q \in Requests, BeginTx(q) PROVE TypeOK'
  <2>1. [call[q] EXCEPT !.pc = "claim", !.start = now, !.tries = call[q].tries + 1] \in Call
    <3>1. now \in Nat /\ call[q].tries + 1 \in Nat
      BY ClaimsType DEF TypeOK
    <3> QED
      BY <3>1, ClaimsType DEF Call
  <2> QED
    BY <1>3, <2>1 DEF BeginTx, TypeOK
<1>4. ASSUME NEW q \in Requests, Claim(q) PROVE TypeOK'
  <2>1. lock' \in [Keys -> Requests \cup {Cleaner, NoOne}]
    BY <1>4, ClaimsType DEF Claim, TypeOK
  <2>2. call' \in [Requests -> Call]
    BY <1>4, StepType DEF Claim
  <2>3. told' \in [Requests -> Told]
    BY <1>4, TellType DEF Claim, Answers, Codes, TypeOK
  <2> QED
    BY <1>4, <2>1, <2>2, <2>3 DEF Claim, TypeOK
<1>5. ASSUME NEW q \in Requests, LockTimeout(q) PROVE TypeOK'
  BY <1>5, EndType, TellType DEF LockTimeout, TypeOK, Answers, Codes
<1>6. ASSUME NEW q \in Requests, ConflictEnds(q) PROVE TypeOK'
  BY <1>6, EndType, UnlockType DEF ConflictEnds, TypeOK
<1>7. ASSUME NEW q \in Requests, Commit(q) PROVE TypeOK'
  <2>1. PICK heard \in BOOLEAN :
          call' = [call EXCEPT ![q].pc = "handler", ![q].committed = heard]
    BY <1>7 DEF Commit
  <2>2. [call[q] EXCEPT !.pc = "handler", !.committed = heard] \in Call
    BY ClaimsType DEF Call
  <2>3. call' \in [Requests -> Call]
    BY <2>1, <2>2 DEF TypeOK
  <2>4. [hash |-> Hash(q), expires |-> call[q].start + TTL, resp |-> Unsaved] \in Row
    BY ClaimsType, IdempotencyAssumption DEF Row
  <2>5. [by |-> q, hash |-> Hash(q), start |-> call[q].start] \in Action
    BY ClaimsType DEF Action
  <2> QED
    BY <1>7, <2>3, <2>4, <2>5, ClaimsType, UnlockType DEF Commit, Lands, TypeOK
<1>8. ASSUME NEW q \in Requests, Rollback(q) PROVE TypeOK'
  BY <1>8, StepType, UnlockType DEF Rollback, TypeOK
<1>9. ASSUME NEW q \in Requests, NEW code \in Codes, Respond(q, code) PROVE TypeOK'
  <2>1. CASE call[q].committed /\ code # "error"
    <3>1. [call[q] EXCEPT !.pc = "save", !.code = code] \in Call
      BY ClaimsType DEF Call
    <3> QED
      BY <1>9, <2>1, <3>1 DEF Respond, TypeOK
  <2>2. CASE ~(call[q].committed /\ code # "error")
    <3>1. told' \in [Requests -> Told]
      BY <1>9, <2>2, TellType DEF Respond, Answers, Codes
    <3> QED
      BY <1>9, <2>2, <3>1, EndType DEF Respond, TypeOK
  <2> QED
    BY <2>1, <2>2
<1>10. ASSUME NEW q \in Requests, Save(q) PROVE TypeOK'
  <2>1. CASE Saves(q)
    <3>1. [row[Key(q)] EXCEPT !.resp = [by |-> q, code |-> call[q].code]] \in Row
      BY <2>1, RowType, ClaimsType DEF Row, Saved, Saves
    <3>2. row' \in [Keys -> Row \cup {NoKey}]
      BY <1>10, <2>1, <3>1, ClaimsType DEF Save, TypeOK
    <3> QED
      BY <1>10, <3>2, EndType, TellType, ClaimsType DEF Save, TypeOK, Answers
  <2>2. CASE ~Saves(q)
    BY <1>10, <2>2, EndType, TellType, ClaimsType DEF Save, TypeOK, Answers
  <2> QED
    BY <2>1, <2>2
<1>11. ASSUME NEW q \in Requests, SaveFails(q) PROVE TypeOK'
  BY <1>11, EndType, TellType, ClaimsType DEF SaveFails, TypeOK, Answers
<1>12. ASSUME NEW q \in Requests, Die(q) PROVE TypeOK'
  <2>1. told' \in [Requests -> Told]
    BY <1>12 DEF Die, TypeOK, Told, Answers
  <2> QED
    BY <1>12, <2>1, EndType, UnlockType DEF Die, TypeOK
<1>13. CASE Sweep
  BY <1>13 DEF Sweep, TypeOK
<1>14. ASSUME NEW k \in Keys, SweepKey(k) PROVE TypeOK'
  BY <1>14 DEF SweepKey, TypeOK
<1>15. CASE SweepEnds
  BY <1>15, UnlockType DEF SweepEnds, TypeOK, Resting
<1>16. CASE SweepDies
  BY <1>16, UnlockType DEF SweepDies, TypeOK, Resting
<1>17. CASE UNCHANGED vars
  BY <1>17 DEF vars, TypeOK
<1> QED
  BY <1>1, <1>2, <1>3, <1>4, <1>5, <1>6, <1>7, <1>8, <1>9, <1>10, <1>11, <1>12, <1>13, <1>14,
     <1>15, <1>16, <1>17 DEF Next, Progress

----------------------------------------------------------------------------
(* How the steps of a request change its claim.                            *)

(* Only q's claim changes, and neither its key nor its hash.               *)
Other(q) ==
  /\ \A p \in Requests \ {q} : call'[p] = call[p]
  /\ call'[q].key = call[q].key /\ call'[q].hash = call[q].hash

LEMMA Others ==
  ASSUME TypeOK, NEW q \in Requests, NEW x, call' = [call EXCEPT ![q] = x],
         x.key = call[q].key, x.hash = call[q].hash
  PROVE  /\ Other(q) /\ call'[q] = x
BY DEF Other, TypeOK

LEMMA StepCall ==
  ASSUME TypeOK, NEW q \in Requests, NEW pc, Step(q, pc)
  PROVE  /\ Other(q) /\ call'[q].pc = pc
         /\ call'[q].since = call[q].since /\ call'[q].start = call[q].start
         /\ call'[q].committed = call[q].committed /\ call'[q].code = call[q].code
<1>1. call[q] \in Call
  BY DEF TypeOK
<1> QED
  BY <1>1 DEF Step, Other, TypeOK, Call

LEMMA EndCall ==
  ASSUME TypeOK, NEW q \in Requests, End(q)
  PROVE  /\ Other(q) /\ call'[q].pc = "ended" /\ ~call'[q].committed
         /\ call'[q].code = call[q].code
<1>1. call[q] \in Call
  BY DEF TypeOK
<1> QED
  BY <1>1 DEF End, Over, Other, TypeOK, Call

LEMMA LookCall ==
  ASSUME TypeOK, NEW q \in Requests, Look(q)
  PROVE  /\ Other(q) /\ call'[q].code = call[q].code
         /\ (call'[q].committed => call[q].committed)
         /\ \/ Live(Key(q), now) /\ Replay(q) /\ call'[q].pc = "ended"
            \/ call'[q].pc = "handler" /\ call'[q].since = now /\ UNCHANGED told
<1>1. CASE Live(Key(q), now)
  BY <1>1, EndCall DEF Look
<1>2. CASE ~Live(Key(q), now)
  <2>1. call' = [call EXCEPT ![q] = [call[q] EXCEPT !.pc = "handler", !.since = now]]
    BY <1>2 DEF Look
  <2>2. call[q] \in Call
    BY DEF TypeOK
  <2> QED
    BY <1>2, <2>1, <2>2 DEF Look, Other, TypeOK, Call
<1> QED
  BY <1>1, <1>2

LEMMA RespondCall ==
  ASSUME TypeOK, NEW q \in Requests, NEW code \in Codes, Respond(q, code)
  PROVE  /\ Other(q) /\ call[q].pc = "handler"
         /\ \/ /\ call[q].committed /\ call'[q].committed /\ call'[q].pc = "save"
               /\ call'[q].start = call[q].start /\ call'[q].since = call[q].since
               /\ UNCHANGED told
            \/ /\ call'[q].pc = "ended" /\ ~call'[q].committed
               /\ \/ Tell(q, "internal", "error", q)
                  \/ code # "ok" /\ Tell(q, "own", code, q)
<1>1. CASE call[q].committed /\ code # "error"
  <2>1. call' = [call EXCEPT ![q] = [call[q] EXCEPT !.pc = "save", !.code = code]]
    BY <1>1 DEF Respond
  <2>2. call[q] \in Call
    BY DEF TypeOK
  <2> QED
    BY <1>1, <2>1, <2>2 DEF Respond, Other, TypeOK, Call
<1>2. CASE ~(call[q].committed /\ code # "error")
  BY <1>2, EndCall DEF Respond
<1> QED
  BY <1>1, <1>2

(* What every step of q alone keeps of the locks and the rows.             *)
LEMMA KeyKept ==
  ASSUME NEW q \in Requests, Other(q), NEW p \in Requests
  PROVE  Key(p)' = Key(p) /\ Hash(p)' = Hash(p)
BY DEF Other, Key, Hash

----------------------------------------------------------------------------
(* A claim keeps its key.                                                  *)

(* What p holds is not touched by steps that respect its lock.             *)
LEMMA HoldsKept ==
  ASSUME TypeOK, NEW p \in Requests, Holds(p), call'[p] = call[p],
         lock[Key(p)] = p => lock'[Key(p)] = p /\ row'[Key(p)] = row[Key(p)]
  PROVE  Holds(p)'
BY DEF Holds, Claimable, Expired, Key

LEMMA UnlockKeeps ==
  ASSUME TypeOK, NEW q, Unlock(q), NEW k \in Keys, lock[k] # q
  PROVE  lock'[k] = lock[k]
BY DEF Unlock, TypeOK

LEMMA ClaimingStep == TypeOK /\ Claiming /\ Sweeping /\ [Next]_vars => Claiming'
<1> SUFFICES ASSUME TypeOK, Claiming, Sweeping, [Next]_vars, NEW p \in Requests PROVE Holds(p)'
  BY DEF Claiming
<1>0. Holds(p) /\ Key(p) \in Keys /\ p \notin {NoOne, Cleaner}
  BY ClaimsType, IdempotencyAssumption DEF Claiming
<1>1. CASE Tick \/ Sweep
  BY <1>0, <1>1, HoldsKept DEF Tick, Sweep
<1>2. ASSUME NEW q \in Requests, Look(q) PROVE Holds(p)'
  <2>1. call'[q].pc \in {"ended", "handler"} /\ (p # q => call'[p] = call[p])
    BY <1>2, LookCall DEF Other
  <2> QED
    BY <1>0, <1>2, <2>1, HoldsKept DEF Look, Holds
<1>3. ASSUME NEW q \in Requests, BeginTx(q) PROVE Holds(p)'
  <2>1. call'[q].pc = "claim" /\ (p # q => call'[p] = call[p])
    BY <1>3 DEF BeginTx, TypeOK, Call
  <2> QED
    BY <1>0, <1>3, <2>1, HoldsKept DEF BeginTx, Holds
<1>4. ASSUME NEW q \in Requests, Claim(q) PROVE Holds(p)'
  <2>1. CASE p = q
    <3>1. Key(q)' = Key(q) /\ call'[q].start = call[q].start
          /\ (call'[q].pc = "work" => Claimable(q))
      BY <1>4, StepCall, KeyKept DEF Claim
    <3> QED
      BY <1>0, <1>4, <2>1, <3>1 DEF Claim, Holds, Claimable, Expired, TypeOK
  <2>2. CASE p # q
    <3>1. call'[p] = call[p]
      BY <1>4, <2>2, StepCall DEF Claim, Other
    <3> QED
      BY <1>0, <1>4, <2>2, <3>1, HoldsKept DEF Claim, TypeOK
  <2> QED
    BY <2>1, <2>2
<1>5. ASSUME NEW q \in Requests, LockTimeout(q) PROVE Holds(p)'
  <2>1. call'[q].pc = "ended" /\ (p # q => call'[p] = call[p])
    BY <1>5, EndCall DEF LockTimeout, Other
  <2> QED
    BY <1>0, <1>5, <2>1, HoldsKept DEF LockTimeout, Holds
<1>6. ASSUME NEW q \in Requests, ConflictEnds(q) \/ Die(q) PROVE Holds(p)'
  <2>1. call'[q].pc = "ended" /\ (p # q => call'[p] = call[p]) /\ Unlock(q) /\ UNCHANGED row
    BY <1>6, EndCall DEF ConflictEnds, Die, Other
  <2> QED
    BY <1>0, <2>1, UnlockKeeps, HoldsKept DEF Holds
<1>7. ASSUME NEW q \in Requests, Commit(q) PROVE Holds(p)'
  <2>1. call'[q].pc = "handler" /\ (p # q => call'[p] = call[p])
    BY <1>7 DEF Commit, TypeOK, Call
  <2>2. lock[Key(q)] = q /\ \A k \in Keys \ {Key(q)} : row'[k] = row[k]
    BY <1>7 DEF Commit, Lands, Claiming, Holds, TypeOK
  <2> QED
    BY <1>0, <1>7, <2>1, <2>2, UnlockKeeps, HoldsKept DEF Commit, Holds
<1>8. ASSUME NEW q \in Requests, Rollback(q) PROVE Holds(p)'
  <2>1. call'[q].pc = "handler" /\ (p # q => call'[p] = call[p])
    BY <1>8, StepCall DEF Rollback, Other
  <2> QED
    BY <1>0, <1>8, <2>1, UnlockKeeps, HoldsKept DEF Rollback, Holds
<1>9. ASSUME NEW q \in Requests, NEW code \in Codes, Respond(q, code) PROVE Holds(p)'
  <2>1. call'[q].pc \in {"save", "ended"} /\ (p # q => call'[p] = call[p])
    BY <1>9, RespondCall DEF Other
  <2> QED
    BY <1>0, <1>9, <2>1, HoldsKept DEF Respond, Holds
<1>10. ASSUME NEW q \in Requests, Save(q) \/ SaveFails(q) PROVE Holds(p)'
  <2>1. call'[q].pc = "ended" /\ (p # q => call'[p] = call[p]) /\ UNCHANGED lock
    BY <1>10, EndCall DEF Save, SaveFails, Other
  <2>2. \A k \in Keys : lock[k] # NoOne => row'[k] = row[k]
    BY <1>10, ClaimsType DEF Save, SaveFails, TypeOK
  <2> QED
    BY <1>0, <2>1, <2>2, HoldsKept DEF Holds
<1>11. ASSUME NEW k \in Keys, SweepKey(k) PROVE Holds(p)'
  BY <1>0, <1>11, HoldsKept DEF SweepKey, TypeOK
<1>12. CASE SweepEnds
  <2>1. lock[Key(p)] = p => row'[Key(p)] = row[Key(p)]
    BY <1>0, <1>12 DEF SweepEnds, Sweeping
  <2> QED
    BY <1>0, <1>12, <2>1, UnlockKeeps, HoldsKept DEF SweepEnds
<1>13. CASE SweepDies
  BY <1>0, <1>13, UnlockKeeps, HoldsKept DEF SweepDies
<1>14. CASE UNCHANGED vars
  BY <1>0, <1>14, HoldsKept DEF vars
<1> QED
  BY <1>1, <1>2, <1>3, <1>4, <1>5, <1>6, <1>7, <1>8, <1>9, <1>10, <1>11, <1>12, <1>13, <1>14
     DEF Next, Progress

----------------------------------------------------------------------------
(* The clean-up deletes only what is locked and expired.                   *)

LEMMA SweepingStep == TypeOK /\ Claiming /\ Sweeping /\ [Next]_vars => Sweeping'
<1> SUFFICES ASSUME TypeOK, Claiming, Sweeping, [Next]_vars PROVE Sweeping'
  OBVIOUS
<1>0. sweep.gone \subseteq Keys /\ sweep.at \in Nat /\ now \in Nat
      /\ \A k \in sweep.gone : lock[k] = Cleaner /\ Expired(k, sweep.at)
  BY DEF Sweeping, TypeOK
<1>a. ASSUME UNCHANGED sweep, now' \in {now, now + 1},
             \A k \in sweep.gone : lock'[k] = lock[k] /\ row'[k] = row[k]
      PROVE  Sweeping'
  BY <1>0, <1>a DEF Sweeping, Expired
<1>1. CASE Tick
  BY <1>1, <1>a DEF Tick
<1>2. ASSUME NEW q \in Requests,
             Look(q) \/ BeginTx(q) \/ LockTimeout(q) \/ SaveFails(q)
             \/ (\E code \in Codes : Respond(q, code))
      PROVE  Sweeping'
  BY <1>2, <1>a DEF Look, BeginTx, LockTimeout, SaveFails, Respond
<1>3. ASSUME NEW q \in Requests, Claim(q) PROVE Sweeping'
  BY <1>0, <1>3, <1>a, IdempotencyAssumption DEF Claim, TypeOK
<1>4. ASSUME NEW q \in Requests, ConflictEnds(q) \/ Rollback(q) \/ Die(q) PROVE Sweeping'
  <2>1. Unlock(q) /\ UNCHANGED <<now, row, sweep>>
    BY <1>4 DEF ConflictEnds, Rollback, Die
  <2> QED
    BY <1>0, <2>1, <1>a, UnlockKeeps, IdempotencyAssumption
<1>5. ASSUME NEW q \in Requests, Commit(q) PROVE Sweeping'
  <2>1. lock[Key(q)] = q /\ \A k \in Keys \ {Key(q)} : row'[k] = row[k]
    BY <1>5 DEF Commit, Lands, Claiming, Holds, TypeOK
  <2> QED
    BY <1>0, <1>5, <2>1, <1>a, UnlockKeeps, IdempotencyAssumption DEF Commit
<1>6. ASSUME NEW q \in Requests, Save(q) PROVE Sweeping'
  <2>1. \A k \in Keys : lock[k] # NoOne => row'[k] = row[k]
    BY <1>6, ClaimsType DEF Save, TypeOK
  <2> QED
    BY <1>0, <1>6, <2>1, <1>a, IdempotencyAssumption DEF Save
<1>7. CASE Sweep
  BY <1>0, <1>7 DEF Sweep, Sweeping
<1>8. ASSUME NEW k \in Keys, SweepKey(k) PROVE Sweeping'
  <2>1. /\ sweep.running /\ sweep'.running /\ sweep'.at = sweep.at /\ lock'[k] = Cleaner
        /\ \A c \in Keys \ {k} : lock'[c] = lock[c]
        /\ \A c \in sweep'.gone : c \in sweep.gone \/ (c = k /\ Expired(k, sweep.at))
    BY <1>8 DEF SweepKey, TypeOK, Deletable
  <2> QED
    BY <1>0, <1>8, <2>1 DEF SweepKey, Sweeping, Expired, TypeOK
<1>9. CASE SweepEnds \/ SweepDies
  BY <1>9 DEF SweepEnds, SweepDies, Resting, Sweeping
<1>10. CASE UNCHANGED vars
  BY <1>10, <1>a DEF vars
<1> QED
  BY <1>1, <1>2, <1>3, <1>4, <1>5, <1>6, <1>7, <1>8, <1>9, <1>10 DEF Next, Progress

----------------------------------------------------------------------------
(* Requests are in time.                                                   *)

LEMMA TimelyStep == TypeOK /\ Timely /\ Mine /\ [Next]_vars => Timely'
<1> SUFFICES ASSUME TypeOK, Timely, Mine, [Next]_vars, NEW p \in Requests PROVE InTime(p)'
  BY DEF Timely
<1>0. InTime(p) /\ now \in Nat /\ call[p] \in Call /\ Patience \in Nat
      /\ call[p].since \in Nat /\ call[p].start \in Nat
  BY ClaimsType, IdempotencyAssumption DEF Timely, TypeOK
<1>1. CASE Tick
  BY <1>0, <1>1 DEF Tick, InTime, Active
<1>2. CASE now' = now /\ call'[p] = call[p]
  BY <1>0, <1>2 DEF InTime, Active
<1>3. CASE now' = now /\ call'[p].pc = "ended"
  BY <1>3 DEF InTime, Active
<1>4. CASE Look(p)
  <2>1. call[p].pc = "new" /\ ~call[p].committed
    BY <1>4 DEF Look, Mine
  <2>2. call'[p].pc = "ended" \/ (call'[p].pc = "handler" /\ call'[p].since = now)
    BY <1>4, LookCall
  <2>3. ~call'[p].committed /\ now' = now
    BY <1>4, <2>1, LookCall DEF Look
  <2> QED
    BY <1>0, <2>2, <2>3 DEF InTime, Active
<1>5. CASE BeginTx(p)
  <2>1. call'[p].since = call[p].since /\ call'[p].start = now /\ call[p].pc = "handler" /\ now' = now
    BY <1>0, <1>5 DEF BeginTx, TypeOK, Call
  <2> QED
    BY <1>0, <2>1 DEF InTime, Active
<1>6. CASE Claim(p)
  <2>1. call[p].pc = "claim" /\ now' = now /\ call'[p].since = call[p].since
        /\ call'[p].start = call[p].start
    BY <1>6, StepCall DEF Claim
  <2> QED
    BY <1>0, <2>1 DEF InTime, Active
<1>7. CASE Commit(p)
  <2>1. call[p].pc = "work" /\ now' = now /\ call'[p].since = call[p].since
        /\ call'[p].start = call[p].start
    BY <1>0, <1>7 DEF Commit, TypeOK, Call
  <2> QED
    BY <1>0, <2>1 DEF InTime, Active
<1>8. CASE Rollback(p)
  <2>1. call[p].pc \in {"claim", "work"} /\ now' = now /\ call'[p].since = call[p].since
        /\ call'[p].start = call[p].start
    BY <1>8, StepCall DEF Rollback
  <2> QED
    BY <1>0, <2>1 DEF InTime, Active
<1>9. ASSUME NEW code \in Codes, Respond(p, code) PROVE InTime(p)'
  <2>1. now' = now /\ call[p].pc = "handler"
        /\ (call'[p].pc = "ended" \/
            (call[p].committed /\ call'[p].start = call[p].start /\ call'[p].since = call[p].since))
    BY <1>9, RespondCall DEF Respond
  <2> QED
    BY <1>0, <2>1 DEF InTime, Active
<1>10. ASSUME NEW q \in Requests,
              LockTimeout(q) \/ ConflictEnds(q) \/ Save(q) \/ SaveFails(q) \/ Die(q)
       PROVE  InTime(p)'
  <2>1. now' = now /\ End(q)
    BY <1>10 DEF LockTimeout, ConflictEnds, Save, SaveFails, Die
  <2> QED
    BY <2>1, <1>2, <1>3, EndCall DEF Other
<1>11. ASSUME NEW q \in Requests, q # p,
              Look(q) \/ BeginTx(q) \/ Claim(q) \/ Commit(q) \/ Rollback(q)
              \/ (\E code \in Codes : Respond(q, code))
       PROVE  InTime(p)'
  <2>1. call'[p] = call[p]
    BY <1>11, LookCall, RespondCall, StepCall
       DEF BeginTx, Claim, Commit, Rollback, Other, TypeOK
  <2>2. now' = now
    BY <1>11 DEF Look, BeginTx, Claim, Commit, Rollback, Respond
  <2> QED
    BY <2>1, <2>2, <1>2
<1>12. CASE Sweep \/ SweepEnds \/ SweepDies \/ (\E k \in Keys : SweepKey(k)) \/ UNCHANGED vars
  BY <1>12, <1>2 DEF Sweep, SweepEnds, SweepDies, SweepKey, vars
<1> QED
  BY <1>1, <1>4, <1>5, <1>6, <1>7, <1>8, <1>9, <1>10, <1>11, <1>12 DEF Next, Progress

----------------------------------------------------------------------------
(* What may happen to a key and its actions.                               *)

ActionOf(q) == [by |-> q, hash |-> Hash(q), start |-> call[q].start]

Untouched(k) == row'[k] = row[k] /\ done'[k] = done[k]
Committed(q, k) ==
  /\ call[q].pc = "work" /\ Key(q) = k /\ Claimable(q) /\ call[q].start <= now
  /\ row'[k] = [hash |-> Hash(q), expires |-> call[q].start + TTL, resp |-> Unsaved]
  /\ done'[k] = done[k] \cup {ActionOf(q)}
Answered(q, k) ==
  /\ call[q].pc = "save" /\ Key(q) = k /\ Saves(q)
  /\ row'[k] = [row[k] EXCEPT !.resp = [by |-> q, code |-> call[q].code]]
  /\ done'[k] = done[k]
  /\ call'[q].pc = "ended" /\ call'[q].code = call[q].code
Removed(k) == Expired(k, now) /\ row'[k] = NoKey /\ done'[k] = done[k]

Changed(k) ==
  \/ Untouched(k) \/ Removed(k)
  \/ \E q \in Requests : Committed(q, k) \/ Answered(q, k)

LEMMA RowStep ==
  ASSUME TypeOK, Claiming, Sweeping, Timely, [Next]_vars, NEW k \in Keys
  PROVE  Changed(k) /\ now' \in {now, now + 1}
<1>1. CASE Tick \/ Sweep \/ SweepDies \/ (\E c \in Keys : SweepKey(c)) \/ UNCHANGED vars
  BY <1>1 DEF Tick, Sweep, SweepDies, SweepKey, vars, Changed, Untouched
<1>2. ASSUME NEW q \in Requests,
             Look(q) \/ BeginTx(q) \/ Claim(q) \/ LockTimeout(q) \/ ConflictEnds(q)
             \/ Rollback(q) \/ SaveFails(q) \/ Die(q) \/ (\E code \in Codes : Respond(q, code))
      PROVE  Changed(k) /\ now' = now
  BY <1>2 DEF Look, BeginTx, Claim, LockTimeout, ConflictEnds, Rollback, SaveFails, Die, Respond,
     Changed, Untouched
<1>3. ASSUME NEW q \in Requests, Commit(q) PROVE Changed(k) /\ now' = now
  <2>1. call[q].pc = "work" /\ Claimable(q) /\ call[q].start <= now /\ Key(q) \in Keys
    BY <1>3, ClaimsType DEF Commit, Claiming, Holds, Timely, InTime, Active
  <2>2. CASE Key(q) = k
    BY <1>3, <2>1, <2>2 DEF Commit, Lands, TypeOK, Changed, Committed, ActionOf
  <2>3. CASE Key(q) # k
    BY <1>3, <2>1, <2>3 DEF Commit, Lands, TypeOK, Changed, Untouched
  <2> QED
    BY <1>3, <2>2, <2>3 DEF Commit
<1>4. ASSUME NEW q \in Requests, Save(q) PROVE Changed(k) /\ now' = now
  <2>1. CASE Key(q) = k /\ Saves(q)
    <3>1. Answered(q, k)
      BY <1>4, <2>1, EndCall DEF Save, TypeOK, Answered
    <3> QED
      BY <1>4, <3>1 DEF Save, Changed
  <2>2. CASE ~(Key(q) = k /\ Saves(q))
    <3>1. Untouched(k)
      BY <1>4, <2>2, ClaimsType DEF Save, TypeOK, Untouched
    <3> QED
      BY <1>4, <3>1 DEF Save, Changed
  <2> QED
    BY <2>1, <2>2
<1>5. CASE SweepEnds
  <2>1. CASE k \in sweep.gone
    <3>1. Expired(k, now)
      BY <1>5, <2>1 DEF SweepEnds, Sweeping, Expired, TypeOK, Row
    <3> QED
      BY <1>5, <2>1, <3>1 DEF SweepEnds, Changed, Removed
  <2>2. CASE k \notin sweep.gone
    BY <1>5, <2>2 DEF SweepEnds, Changed, Untouched
  <2> QED
    BY <1>5, <2>1, <2>2 DEF SweepEnds
<1> QED
  BY <1>1, <1>2, <1>3, <1>4, <1>5 DEF Next, Progress

(* A key that is free for a claim has no action whose lifetime lasts.      *)
LEMMA FreeKey ==
  ASSUME TypeOK, Remembered, NEW q \in Requests, Claimable(q), call[q].start <= now,
         NEW d \in done[Key(q)]
  PROVE  d.start + TTL <= now
<1>1. Key(q) \in Keys /\ call[q].start \in Nat /\ d.start \in Nat /\ TTL \in Nat /\ now \in Nat
  BY ClaimsType, IdempotencyAssumption DEF TypeOK, Action
<1>2. row[Key(q)] # NoKey => row[Key(q)].expires \in Nat
  BY <1>1, RowType
<1> QED
  BY <1>1, <1>2 DEF Remembered, Claimable, Expired

LEMMA RememberedStep ==
  TypeOK /\ Claiming /\ Sweeping /\ Timely /\ Remembered /\ [Next]_vars => Remembered'
<1> SUFFICES ASSUME TypeOK, Claiming, Sweeping, Timely, Remembered, [Next]_vars,
                    NEW k \in Keys, NEW d \in done'[k]
             PROVE  \/ d.start + TTL <= now'
                    \/ row'[k] # NoKey /\ d.start + TTL <= row'[k].expires
  BY DEF Remembered
<1>1. now \in Nat /\ TTL \in Nat /\ now' \in Nat /\ now <= now'
  BY RowStep, IdempotencyAssumption DEF TypeOK
<1>2. d \in done[k] => /\ d.start \in Nat
                       /\ \/ d.start + TTL <= now
                          \/ row[k] # NoKey /\ d.start + TTL <= row[k].expires
  BY DEF Remembered, TypeOK, Action
<1>3. row[k] # NoKey => row[k].expires \in Nat
  BY RowType
<1>4. CASE Untouched(k)
  BY <1>1, <1>2, <1>4 DEF Untouched
<1>5. CASE Removed(k)
  BY <1>1, <1>2, <1>3, <1>5 DEF Removed, Expired
<1>6. ASSUME NEW q \in Requests, Committed(q, k)
      PROVE  \/ d.start + TTL <= now'
             \/ row'[k] # NoKey /\ d.start + TTL <= row'[k].expires
  <2>1. CASE d \in done[k]
    BY <1>1, <1>2, <1>6, <2>1, FreeKey DEF Committed
  <2>2. CASE d \notin done[k]
    <3>1. d = ActionOf(q) /\ call[q].start + TTL \in Nat
      BY <1>6, <2>2, ClaimsType, IdempotencyAssumption DEF Committed
    <3>2. row'[k] \in Row
      BY <1>6, <3>1, ClaimsType DEF Committed, Row
    <3>3. row'[k] # NoKey
      BY <3>2, IdempotencyAssumption DEF Row, Saved, Codes
    <3> QED
      BY <1>6, <3>1, <3>3 DEF Committed, ActionOf
  <2> QED
    BY <2>1, <2>2
<1>7. ASSUME NEW q \in Requests, Answered(q, k)
      PROVE  \/ d.start + TTL <= now'
             \/ row'[k] # NoKey /\ d.start + TTL <= row'[k].expires
  <2>1. row[k] \in Row /\ row[k] # NoKey
    BY <1>7, RowType DEF Answered, Saves
  <2>2. row'[k] \in Row /\ row'[k].expires = row[k].expires
    BY <1>7, <2>1, ClaimsType DEF Answered, Row, Saved
  <2>3. row'[k] # NoKey
    BY <2>2, IdempotencyAssumption DEF Row, Saved, Codes
  <2> QED
    BY <1>1, <1>2, <1>7, <2>1, <2>2, <2>3 DEF Answered
<1> QED
  BY <1>4, <1>5, <1>6, <1>7, RowStep DEF Changed

LEMMA ActionsKept ==
  ASSUME TypeOK, Claiming, Sweeping, Timely, [Next]_vars, NEW k \in Keys
  PROVE  done[k] \subseteq done'[k]
BY RowStep DEF Changed, Untouched, Removed, Committed, Answered

(* A live key is safe from claims and from the clean-up.                   *)
LEMMA LiveStays ==
  ASSUME TypeOK, Claiming, Sweeping, Timely, [Next]_vars, NEW k \in Keys, Live(k, now)
  PROVE  /\ row'[k] # NoKey
         /\ row'[k].hash = row[k].hash /\ row'[k].expires = row[k].expires
         /\ row[k].resp # Unsaved => row'[k].resp = row[k].resp
<1>1. row[k] # NoKey /\ row[k] \in Row /\ row[k].expires \in Nat /\ now \in Nat
      /\ row[k].expires > now
  BY RowType DEF Live, TypeOK
<1>2. ~Removed(k)
  BY <1>1 DEF Removed, Expired
<1>3. ASSUME NEW q \in Requests, Committed(q, k) PROVE FALSE
  <2>1. call[q].start \in Nat
    BY ClaimsType
  <2> QED
    BY <1>1, <1>3, <2>1 DEF Committed, Claimable, Expired
<1>4. ASSUME NEW q \in Requests, Answered(q, k)
      PROVE  /\ row'[k] # NoKey /\ row[k].resp = Unsaved
             /\ row'[k].hash = row[k].hash /\ row'[k].expires = row[k].expires
  <2>1. row'[k] \in Row /\ row'[k].hash = row[k].hash /\ row'[k].expires = row[k].expires
    BY <1>1, <1>4, ClaimsType DEF Answered, Row, Saved
  <2>2. row'[k] # NoKey
    BY <2>1, IdempotencyAssumption DEF Row, Saved, Codes
  <2> QED
    BY <1>4, <2>1, <2>2 DEF Answered, Saves
<1> QED
  BY <1>1, <1>2, <1>3, <1>4, RowStep DEF Changed, Untouched

LEMMA BackedStep == TypeOK /\ Claiming /\ Sweeping /\ Timely /\ Backed /\ [Next]_vars => Backed'
<1> SUFFICES ASSUME TypeOK, Claiming, Sweeping, Timely, Backed, [Next]_vars,
                    NEW k \in Keys, row'[k] # NoKey
             PROVE  \E d \in done'[k] : d.hash = row'[k].hash /\ d.start + TTL = row'[k].expires
  BY DEF Backed
<1>1. CASE Untouched(k)
  BY <1>1 DEF Untouched, Backed
<1>2. CASE Removed(k)
  BY <1>2 DEF Removed
<1>3. ASSUME NEW q \in Requests, Committed(q, k)
      PROVE  \E d \in done'[k] : d.hash = row'[k].hash /\ d.start + TTL = row'[k].expires
  <2>1. ActionOf(q) \in done'[k] /\ ActionOf(q).hash = row'[k].hash
        /\ ActionOf(q).start + TTL = row'[k].expires
    BY <1>3 DEF Committed, ActionOf
  <2> QED
    BY <2>1
<1>4. ASSUME NEW q \in Requests, Answered(q, k)
      PROVE  \E d \in done'[k] : d.hash = row'[k].hash /\ d.start + TTL = row'[k].expires
  <2>1. row[k] # NoKey /\ row[k] \in Row
    BY <1>4, RowType DEF Answered, Saves
  <2>2. row'[k].hash = row[k].hash /\ row'[k].expires = row[k].expires
    BY <1>4, <2>1 DEF Answered, Row
  <2> QED
    BY <1>4, <2>1, <2>2 DEF Backed, Answered
<1> QED
  BY <1>1, <1>2, <1>3, <1>4, RowStep DEF Changed

----------------------------------------------------------------------------
(* Who knows of its commit still has its row: it is faster than TTL.       *)

LEMMA CommittedCall ==
  ASSUME TypeOK, Mine, [Next]_vars, NEW p \in Requests
  PROVE  /\ Key(p)' = Key(p) /\ Hash(p)' = Hash(p)
         /\ call'[p].pc = "save" => call'[p].committed
         /\ call'[p].committed =>
              /\ call'[p].pc \in {"handler", "save"} /\ call'[p].start = call[p].start
              /\ call[p].committed \/ Commit(p)
<1>0. call[p] \in Call /\ (call[p].pc = "save" => call[p].committed)
      /\ (call[p].committed => call[p].pc \in {"handler", "save"})
  BY DEF TypeOK, Mine
<1>1. CASE call'[p] = call[p]
  BY <1>0, <1>1 DEF Key, Hash
<1>2. ASSUME NEW q \in Requests, Other(q), call'[q].pc = "ended" /\ ~call'[q].committed
      PROVE  p = q => /\ Key(p)' = Key(p) /\ Hash(p)' = Hash(p)
                      /\ call'[p].pc # "save" /\ ~call'[p].committed
  BY <1>2, KeyKept
<1>3. CASE Look(p)
  BY <1>0, <1>3, LookCall, KeyKept DEF Look
<1>4. CASE BeginTx(p)
  <2>1. Other(p) /\ call'[p].pc = "claim" /\ ~call'[p].committed
    BY <1>0, <1>4 DEF BeginTx, Other, TypeOK, Call
  <2> QED
    BY <2>1, KeyKept
<1>5. CASE Claim(p) \/ Rollback(p)
  <2>1. ~call[p].committed /\ Other(p) /\ call'[p].pc # "save" /\ call'[p].committed = call[p].committed
    BY <1>0, <1>5, StepCall DEF Claim, Rollback
  <2> QED
    BY <2>1, KeyKept
<1>6. CASE Commit(p)
  <2>1. Other(p) /\ call'[p].pc = "handler" /\ call'[p].start = call[p].start
    BY <1>0, <1>6 DEF Commit, Other, TypeOK, Call
  <2> QED
    BY <1>6, <2>1, KeyKept
<1>7. ASSUME NEW code \in Codes, Respond(p, code)
      PROVE  /\ Key(p)' = Key(p) /\ Hash(p)' = Hash(p)
             /\ call'[p].pc = "save" => call'[p].committed
             /\ call'[p].committed =>
                  /\ call'[p].pc \in {"handler", "save"} /\ call'[p].start = call[p].start
                  /\ call[p].committed
  BY <1>7, RespondCall, KeyKept
<1>8. ASSUME NEW q \in Requests,
             LockTimeout(q) \/ ConflictEnds(q) \/ Save(q) \/ SaveFails(q) \/ Die(q)
      PROVE  Other(q) /\ call'[q].pc = "ended" /\ ~call'[q].committed
  BY <1>8, EndCall DEF LockTimeout, ConflictEnds, Save, SaveFails, Die
<1>9. ASSUME NEW q \in Requests, q # p,
             Look(q) \/ Progress(q) \/ Die(q)
      PROVE  call'[p] = call[p]
  BY <1>9, <1>8, LookCall, RespondCall, StepCall
     DEF Progress, BeginTx, Claim, Commit, Rollback, Other, TypeOK
<1>10. CASE Tick \/ Sweep \/ SweepEnds \/ SweepDies \/ (\E k \in Keys : SweepKey(k)) \/ UNCHANGED vars
  BY <1>10, <1>1 DEF Tick, Sweep, SweepEnds, SweepDies, SweepKey, vars
<1> QED
  BY <1>1, <1>2, <1>3, <1>4, <1>5, <1>6, <1>7, <1>8, <1>9, <1>10 DEF Next, Progress

LEMMA MineStep == TypeOK /\ Claiming /\ Sweeping /\ Timely /\ Mine /\ [Next]_vars => Mine'
<1> SUFFICES ASSUME TypeOK, Claiming, Sweeping, Timely, Mine, [Next]_vars,
                    NEW p \in Requests, call'[p].committed
             PROVE  /\ [by |-> p, hash |-> Hash(p), start |-> call[p].start] \in done'[Key(p)]
                    /\ row'[Key(p)] # NoKey /\ row'[Key(p)].hash = Hash(p)
                    /\ row'[Key(p)].expires = call[p].start + TTL
  BY CommittedCall DEF Mine
<1>1. Key(p) \in Keys /\ call[p].start \in Nat /\ call[p].since \in Nat /\ now \in Nat
      /\ Patience \in Nat /\ TTL \in Nat /\ Patience < TTL /\ Hash(p) \in Hashes
  BY ClaimsType, IdempotencyAssumption DEF TypeOK
<1>2. CASE call[p].committed
  <2>1. /\ call[p].pc \in {"handler", "save"}
        /\ [by |-> p, hash |-> Hash(p), start |-> call[p].start] \in done[Key(p)]
        /\ row[Key(p)] # NoKey /\ row[Key(p)].hash = Hash(p)
        /\ row[Key(p)].expires = call[p].start + TTL
    BY <1>2 DEF Mine
  <2>2. call[p].since <= call[p].start /\ now <= call[p].since + Patience
    BY <1>2, <2>1 DEF Timely, InTime, Active
  <2>3. Live(Key(p), now)
    BY <1>1, <2>1, <2>2 DEF Live
  <2> QED
    BY <1>1, <2>1, <2>3, LiveStays, ActionsKept
<1>3. CASE Commit(p)
  <2>1. row' = [row EXCEPT ![Key(p)] =
               [hash |-> Hash(p), expires |-> call[p].start + TTL, resp |-> Unsaved]]
    BY <1>3 DEF Commit, Lands
  <2>2. row'[Key(p)] = [hash |-> Hash(p), expires |-> call[p].start + TTL, resp |-> Unsaved]
    BY <1>1, <2>1 DEF TypeOK
  <2>3. row'[Key(p)] \in Row
    BY <1>1, <2>2 DEF Row
  <2>4. row'[Key(p)] # NoKey
    BY <2>3, IdempotencyAssumption DEF Row, Saved, Codes
  <2> QED
    BY <1>1, <1>3, <2>2, <2>4 DEF Commit, Lands, TypeOK
<1> QED
  BY <1>2, <1>3, CommittedCall

----------------------------------------------------------------------------
(* The answer under a key is its execution's.                              *)

LEMMA EndedStays ==
  ASSUME TypeOK, [Next]_vars, NEW p \in Requests, call[p].pc = "ended"
  PROVE  call'[p] = call[p]
<1>1. ASSUME NEW q \in Requests, Look(q) \/ Progress(q) \/ Die(q)
      PROVE  q # p /\ Other(q)
  <2>1. call[q].pc # "ended"
    BY <1>1 DEF Look, Progress, BeginTx, Claim, LockTimeout, ConflictEnds, Commit, Rollback,
       Respond, Save, SaveFails, Die, Active
  <2>2. CASE BeginTx(q) \/ Commit(q)
    BY <2>1, <2>2 DEF BeginTx, Commit, Other, TypeOK, Call
  <2>3. CASE Look(q) \/ (\E code \in Codes : Respond(q, code)) \/ Claim(q) \/ Rollback(q)
    BY <2>1, <2>3, LookCall, RespondCall, StepCall DEF Claim, Rollback
  <2>4. CASE LockTimeout(q) \/ ConflictEnds(q) \/ Save(q) \/ SaveFails(q) \/ Die(q)
    BY <2>1, <2>4, EndCall DEF LockTimeout, ConflictEnds, Save, SaveFails, Die
  <2> QED
    BY <1>1, <2>1, <2>2, <2>3, <2>4 DEF Progress
<1>2. CASE Tick \/ Sweep \/ SweepEnds \/ SweepDies \/ (\E k \in Keys : SweepKey(k)) \/ UNCHANGED vars
  BY <1>2 DEF Tick, Sweep, SweepEnds, SweepDies, SweepKey, vars
<1> QED
  BY <1>1, <1>2 DEF Next, Other

LEMMA AnswerStep ==
  TypeOK /\ Claiming /\ Sweeping /\ Timely /\ Mine /\ SaverEnded /\ AnswerOfExecution /\ [Next]_vars
    => SaverEnded' /\ AnswerOfExecution'
<1> SUFFICES ASSUME TypeOK, Claiming, Sweeping, Timely, Mine, SaverEnded, AnswerOfExecution,
                    [Next]_vars, NEW k \in Keys, row'[k] # NoKey, row'[k].resp # Unsaved
             PROVE  /\ call'[row'[k].resp.by].pc = "ended"
                    /\ \E d \in done'[k] : /\ d.by = row'[k].resp.by /\ d.hash = row'[k].hash
                                           /\ d.start + TTL = row'[k].expires
                    /\ row'[k].resp.code = call'[row'[k].resp.by].code
  BY DEF SaverEnded, AnswerOfExecution
<1>1. CASE Untouched(k)
  <2>1. row[k].resp.by \in Requests /\ call[row[k].resp.by].pc = "ended"
    BY <1>1, RowType DEF Untouched, SaverEnded
  <2> QED
    BY <1>1, <2>1, EndedStays DEF Untouched, AnswerOfExecution
<1>2. CASE Removed(k)
  BY <1>2 DEF Removed
<1>3. ASSUME NEW q \in Requests, Committed(q, k) PROVE FALSE
  BY <1>3 DEF Committed
<1>4. ASSUME NEW q \in Requests, Answered(q, k)
      PROVE  /\ call'[row'[k].resp.by].pc = "ended"
             /\ \E d \in done'[k] : /\ d.by = row'[k].resp.by /\ d.hash = row'[k].hash
                                    /\ d.start + TTL = row'[k].expires
             /\ row'[k].resp.code = call'[row'[k].resp.by].code
  <2>1. row[k] # NoKey /\ row[k] \in Row
    BY <1>4, RowType DEF Answered, Saves
  <2>2. row'[k].resp = [by |-> q, code |-> call[q].code] /\ row'[k].hash = row[k].hash
        /\ row'[k].expires = row[k].expires
    BY <1>4, <2>1 DEF Answered, Row
  <2>3. ActionOf(q) \in done'[k] /\ ActionOf(q).by = q /\ ActionOf(q).hash = row[k].hash
        /\ ActionOf(q).start + TTL = row[k].expires
    BY <1>4 DEF Answered, Mine, ActionOf
  <2> QED
    BY <1>4, <2>2, <2>3 DEF Answered
<1> QED
  BY <1>1, <1>2, <1>3, <1>4, RowStep DEF Changed

(* Who relies on what.                                                     *)
Trusts(t, q) ==
  \/ t.kind \in {"own", "replay"} /\ t.code = "ok"
  \/ t.kind = "replay_unavailable"
Relies(t, q, D) ==
  Trusts(t, q) => \E d \in D : d.hash = Hash(q) /\ (t.kind # "replay_unavailable" => d.by = t.by)

LEMMA ToldStep ==
  TypeOK /\ Claiming /\ Sweeping /\ Timely /\ Mine /\ Backed /\ AnswerOfExecution /\ ToldTrue
  /\ [Next]_vars => ToldTrue'
<1> SUFFICES ASSUME TypeOK, Claiming, Sweeping, Timely, Mine, Backed, AnswerOfExecution, ToldTrue,
                    [Next]_vars, NEW p \in Requests
             PROVE  Relies(told'[p], p, done'[Key(p)])
  BY CommittedCall DEF ToldTrue, Relies, Trusts
<1>0. Key(p) \in Keys /\ done[Key(p)] \subseteq done'[Key(p)]
      /\ Relies(told[p], p, done[Key(p)])
  BY ClaimsType, ActionsKept DEF ToldTrue, Relies, Trusts
<1>1. CASE told'[p] = told[p]
  BY <1>0, <1>1 DEF Relies
<1>2. ASSUME NEW t, Relies(t, p, done[Key(p)]), told'[p] = t PROVE Relies(told'[p], p, done'[Key(p)])
  BY <1>0, <1>2 DEF Relies
<1>3. ASSUME NEW kind, NEW code, kind \notin {"replay_unavailable"},
             ~(kind \in {"own", "replay"} /\ code = "ok"), Tell(p, kind, code, p)
      PROVE  Relies(told'[p], p, done'[Key(p)])
  BY <1>3 DEF Tell, TypeOK, Relies, Trusts
<1>4. ASSUME NEW q \in Requests, q # p, NEW kind, NEW code, NEW by, Tell(q, kind, code, by)
      PROVE  told'[p] = told[p]
  BY <1>4 DEF Tell, TypeOK
<1>5. ASSUME Live(Key(p), now), Replay(p) PROVE Relies(told'[p], p, done'[Key(p)])
  <2> DEFINE r == row[Key(p)]
  <2>1. r # NoKey
    BY <1>5 DEF Live
  <2>2. CASE r.hash # Hash(p)
    BY <1>3, <1>5, <2>2 DEF Replay
  <2>3. CASE r.hash = Hash(p) /\ (r.resp = Unsaved \/ Hash(p) \in NoStore)
    <3>1. told'[p] = [kind |-> "replay_unavailable", code |-> "refused", by |-> p]
      BY <1>5, <2>3 DEF Replay, Tell, TypeOK
    <3>2. \E d \in done[Key(p)] : d.hash = Hash(p)
      BY <1>0, <2>1, <2>3 DEF Backed
    <3> QED
      BY <1>0, <3>1, <3>2 DEF Relies
  <2>4. CASE r.hash = Hash(p) /\ r.resp # Unsaved /\ Hash(p) \notin NoStore
    <3>1. told'[p] = [kind |-> "replay", code |-> r.resp.code, by |-> r.resp.by]
      BY <1>5, <2>4 DEF Replay, Tell, TypeOK
    <3>2. \E d \in done[Key(p)] : d.by = r.resp.by /\ d.hash = Hash(p)
      BY <1>0, <2>1, <2>4 DEF AnswerOfExecution
    <3> QED
      BY <1>0, <3>1, <3>2 DEF Relies
  <2> QED
    BY <2>2, <2>3, <2>4
<1>6. ASSUME NEW q \in Requests, Look(q) PROVE Relies(told'[p], p, done'[Key(p)])
  <2>1. q # p => told'[p] = told[p]
    BY <1>6, <1>4, LookCall DEF Replay
  <2> QED
    BY <1>1, <1>5, <1>6, <2>1, LookCall
<1>7. ASSUME NEW q \in Requests, Claim(q) \/ LockTimeout(q)
      PROVE  Relies(told'[p], p, done'[Key(p)])
  <2>1. \/ UNCHANGED told
        \/ \E kind \in {"in_progress", "key_reused"} : Tell(q, kind, "refused", q)
    BY <1>7 DEF Claim, LockTimeout
  <2> QED
    BY <2>1, <1>1, <1>3, <1>4
<1>8. ASSUME NEW q \in Requests, NEW code \in Codes, Respond(q, code)
      PROVE  Relies(told'[p], p, done'[Key(p)])
  <2>1. \/ UNCHANGED told \/ Tell(q, "internal", "error", q)
        \/ code # "ok" /\ Tell(q, "own", code, q)
    BY <1>8, RespondCall
  <2> QED
    BY <2>1, <1>1, <1>3, <1>4
<1>9. ASSUME NEW q \in Requests, Save(q) \/ SaveFails(q) PROVE Relies(told'[p], p, done'[Key(p)])
  <2>1. CASE q = p
    <3>1. told'[p] = [kind |-> "own", code |-> call[p].code, by |-> p]
      BY <1>9, <2>1 DEF Save, SaveFails, Tell, TypeOK
    <3>2. ActionOf(p) \in done[Key(p)] /\ ActionOf(p).hash = Hash(p) /\ ActionOf(p).by = p
      BY <1>9, <2>1 DEF Save, SaveFails, Mine, ActionOf
    <3> QED
      BY <1>0, <3>1, <3>2 DEF Relies
  <2>2. CASE q # p
    BY <1>1, <1>4, <1>9, <2>2 DEF Save, SaveFails
  <2> QED
    BY <2>1, <2>2
<1>10. ASSUME NEW q \in Requests, Die(q) PROVE Relies(told'[p], p, done'[Key(p)])
  BY <1>1, <1>10 DEF Die, TypeOK, Told, Relies, Trusts
<1>11. CASE UNCHANGED told
  BY <1>1, <1>11
<1>12. ASSUME NEW q \in Requests, BeginTx(q) \/ ConflictEnds(q) \/ Commit(q) \/ Rollback(q)
       PROVE  UNCHANGED told
  BY <1>12 DEF BeginTx, ConflictEnds, Commit, Rollback
<1>13. CASE Tick \/ Sweep \/ SweepEnds \/ SweepDies \/ (\E k \in Keys : SweepKey(k)) \/ UNCHANGED vars
  BY <1>11, <1>13 DEF Tick, Sweep, SweepEnds, SweepDies, SweepKey, vars
<1> QED
  BY <1>6, <1>7, <1>8, <1>9, <1>10, <1>11, <1>12, <1>13 DEF Next, Progress

----------------------------------------------------------------------------
(* The theorems.                                                           *)

LEMMA InitInv == Init => Inv
<1> SUFFICES ASSUME Init PROVE Inv
  OBVIOUS
<1>1. TypeOK
  <2>1. call \in [Requests -> Call]
    <3> DEFINE First == [pc : {"new"}, key : Keys, hash : Hashes, since : {0}, start : {0},
                         tries : {0}, committed : {FALSE}, code : {"error"}]
    <3>1. ASSUME NEW c \in First PROVE c \in Call
      <4>1. c = [pc |-> c.pc, key |-> c.key, hash |-> c.hash, since |-> c.since, start |-> c.start,
                 tries |-> c.tries, committed |-> c.committed, code |-> c.code]
        OBVIOUS
      <4>2. /\ c.pc = "new" /\ c.key \in Keys /\ c.hash \in Hashes /\ c.since = 0 /\ c.start = 0
            /\ c.tries = 0 /\ c.committed \in BOOLEAN /\ c.code = "error"
        OBVIOUS
      <4> QED
        BY <4>1, <4>2 DEF Call, Codes
    <3>2. call \in [Requests -> First]
      BY DEF Init
    <3> QED
      BY <3>1, <3>2
  <2>2. told \in [Requests -> Told]
    BY DEF Init, Told, Answers, Codes
  <2>3. sweep \in [running : BOOLEAN, at : Nat, todo : SUBSET Keys, gone : SUBSET Keys]
    BY DEF Init, Resting
  <2> QED
    BY <2>1, <2>2, <2>3 DEF Init, TypeOK
<1>2. Claiming /\ Sweeping /\ Timely /\ Mine
  BY DEF Init, Claiming, Holds, Sweeping, Resting, Timely, InTime, Active, Mine
<1>3. Remembered /\ Backed /\ SaverEnded /\ AnswerOfExecution /\ ToldTrue
  BY DEF Init, Remembered, Backed, SaverEnded, AnswerOfExecution, ToldTrue
<1> QED
  BY <1>1, <1>2, <1>3 DEF Inv

LEMMA InvStep == Inv /\ [Next]_vars => Inv'
BY TypeStep, ClaimingStep, SweepingStep, TimelyStep, RememberedStep, BackedStep, MineStep,
   AnswerStep, ToldStep DEF Inv

THEOREM Invariance == Spec => []Inv
BY InitInv, InvStep, PTL DEF Spec

(* Every variable keeps its type.                                          *)
THEOREM TypeCorrect == Spec => []TypeOK
<1>1. Inv => TypeOK
  BY DEF Inv
<1> QED
  BY <1>1, Invariance, PTL

(* A repeat within TTL of the first transaction's start never acts again.  *)
THEOREM OncePerLifetimeAlways == Spec => OncePerLifetime
<1>1. ASSUME Inv, [Next]_vars
      PROVE  [\A k \in Keys : done'[k] # done[k] => \A d \in done[k] : d.start + TTL <= now]_vars
  <2> SUFFICES ASSUME NEW k \in Keys, done'[k] # done[k], NEW d \in done[k]
               PROVE  d.start + TTL <= now
    OBVIOUS
  <2>1. PICK q \in Requests : Committed(q, k)
    BY <1>1, RowStep DEF Inv, Changed, Untouched, Removed, Answered
  <2> QED
    BY <1>1, <2>1, FreeKey DEF Inv, Committed
<1> QED
  BY <1>1, Invariance, PTL DEF Spec, OncePerLifetime

(* A live key is neither removed nor taken over, nor its answer replaced.  *)
THEOREM LiveKeyStaysAlways == Spec => LiveKeyStays
<1>1. ASSUME Inv, [Next]_vars
      PROVE  [\A k \in Keys : Live(k, now) =>
                /\ row'[k] # NoKey
                /\ row'[k].hash = row[k].hash /\ row'[k].expires = row[k].expires
                /\ row[k].resp # Unsaved => row'[k].resp = row[k].resp]_vars
  BY <1>1, LiveStays DEF Inv
<1> QED
  BY <1>1, Invariance, PTL DEF Spec, LiveKeyStays

(* The answer under a key is that of the execution that committed it.      *)
THEOREM AnswerOfExecutionAlways == Spec => []AnswerOfExecution
<1>1. Inv => AnswerOfExecution
  BY DEF Inv
<1> QED
  BY <1>1, Invariance, PTL

(* Whoever is told that it is done can rely on it.                         *)
THEOREM ToldTrueAlways == Spec => []ToldTrue
<1>1. Inv => ToldTrue
  BY DEF Inv
<1> QED
  BY <1>1, Invariance, PTL

=============================================================================

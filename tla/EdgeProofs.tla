----------------------------- MODULE EdgeProofs -----------------------------
(***************************************************************************)
(* Theorems about Edge for any number of clients, processes, jobs, files   *)
(* and cookies, every TTL and budget, every sequence of calls.             *)
(*                                                                         *)
(* Each part has an invariant of its own, for no step of one part touches  *)
(* another; the letters alone lean on the programs, in whose processes     *)
(* they are sent.  What a part promises follows from what its rows, marks  *)
(* and caches say about the past: the mark of a solution stays while its   *)
(* challenge lives (MarksStay); each phase of a stop has a budget, and the *)
(* budgets add up to less than the host's (InBudget); a run of a job is    *)
(* over before the leader may rescue it (RunBy); the load that found a     *)
(* session began before it was revoked (Loaded); the ping that is kept     *)
(* came in its time (HealthInv); the queue of refusals is what was put     *)
(* last, and the map has of each cookie the last refusal (LatestOf); the   *)
(* two files of a key differ only while a writer is between them or where  *)
(* two writers met (Writing); a row promised to the reader of a list is    *)
(* shown or ahead of the cursor (Promised), a row shown is behind it unless *)
(* it moved (Behind); an answer that erases a cookie is to a request whose  *)
(* own session was over (HasErased, HasAnswered).                          *)
(***************************************************************************)
EXTENDS Edge, FiniteSetTheorems, SequenceTheorems, TLAPS

(* The steps of a part leave the plan and the clock as they are.            *)
LEMMA LimitsStill == LimitsNext => UNCHANGED <<plan, now>>
  BY DEF LimitsNext, Asked, Take, Refuse, GetTAT, StoreFails, Select, DeleteExpired, CrashLimits, Arrival, clock
LEMMA CookiesStill == CookiesNext => UNCHANGED <<plan, now>>
  BY DEF CookiesNext, Visit, TooMany, Has, Invalid, Put, Add, VisitFails, Arrival, clock
LEMMA HumanStill == HumanNext => UNCHANGED <<plan, now>>
  BY DEF HumanNext, NewChallenge, Verify, Spend, Repeated, SpendUnheard, SelectMarks, DeleteMarks, CrashMarks, Arrival, clock
LEMMA PlayersStill == PlayersNext => UNCHANGED <<plan, now>>
  BY DEF PlayersNext, Revoke, LoadSession, DoChan, Begin, Query, Done, LoadFails, Leaves, Arrival, clock
LEMMA PipelineStill == PipelineNext => UNCHANGED <<plan, now>>
  BY DEF PipelineNext, EndElsewhere, Send, Layers, RefuseCall, LostSession, Login, Accept, Rotate, Logout, Me, Own, Label,
         DecideApproval, Receive, LoseAnswer, Arrival, clock
LEMMA ListsStill == ListsNext => UNCHANGED <<plan, now>>
  BY DEF ListsNext, Insert, FirstPage, NextPage, Settle, Expire, Purge, Recount, Switch, Arrival, clock
LEMMA ProgramsStill == LettersNext => UNCHANGED <<plan, now>>
  BY DEF LettersNext, ProgramsNext, Start, RiverStarts, BackgroundFails, Terminate, Drained, LoopsEnd, Accepts, Replied,
         QueueStop, Exits, Ends, Dies, Stopped, CancelJobs, TakesJob, Rescue, Commits, Command, MovesOn, Turns,
         Compose, HandsOver, Completes, Errs, Arrival, clock
LEMMA HealthStill == HealthNext => UNCHANGED <<plan, now>>
  BY DEF HealthNext, Wavers, Probe, Joins, CheckAgain, Pinged, Leave, Arrival, clock
LEMMA CallersStill == CallersNext => UNCHANGED <<plan, now>>
  BY DEF CallersNext, Arrive, Allowance, Limited, Unavailable, Arrival, clock
LEMMA BlobsStill == BlobsNext => UNCHANGED <<plan, now>>
  BY DEF BlobsNext, PutFile, GetFile, DeleteFile, Begins, WriteBytes, WriteType, PutFails, NotFound, Open, ReadType,
         RemoveBytes, RemoveType, DeleteFails, ProcessDies, Arrival, clock

-----------------------------------------------------------------------------
(* The clock goes on in natural numbers, the plan is what it was.           *)
LEMMA NatNext == ASSUME Next, now \in Nat PROVE now' \in Nat /\ now <= now' /\ plan' = plan
<1>1. CASE Tick
  BY <1>1, ClockAssumption DEF Tick, Passes
<1>2. CASE ~Tick
  BY <1>2, LimitsStill, CookiesStill, HumanStill, PlayersStill, PipelineStill, ListsStill, ProgramsStill, HealthStill,
     CallersStill, BlobsStill DEF Next
<1> QED
  BY <1>1, <1>2

-----------------------------------------------------------------------------
(* The proof of work: while a challenge lives, the mark of its solution     *)
(* stays.                                                                  *)
MarksStay ==
  \A s \in Challenges :
    /\ accepted[s] # <<>> => s \in DOMAIN marks \/ expires[s] < now
    /\ s \in DOMAIN marks => marks[s] = expires[s]
    /\ expires[s] = 0 => accepted[s] = <<>> /\ s \notin DOMAIN marks
HumanInv ==
  /\ expires \in [Challenges -> Int] /\ accepted \in [Challenges -> Seq(Nat)] /\ now \in Nat
  /\ proof \in [Clients -> [pc : {"idle", "spend"}, of : Challenges \cup {None}, at : Nat]]
  /\ \A c \in Clients : proof[c].pc = "spend" => proof[c].of \in Challenges /\ expires[proof[c].of] # 0
  /\ sweep.pc = "delete" => sweep.at <= now /\ sweep.at \in Nat
  /\ MarksStay
  /\ SpentWhileLive

LEMMA HumanStarts == Init => HumanInv
  BY DEF Init, ClockInit, HumanInit, HumanInv, MarksStay, SpentWhileLive, NoProof, NoSweep

LEMMA HumanKeeps == ASSUME HumanInv, [Next]_edge PROVE HumanInv'
<1> USE DEF HumanInv
<1>1. CASE UNCHANGED edge
  BY <1>1 DEF edge, clock, human, MarksStay, SpentWhileLive
<1>2. CASE Next /\ UNCHANGED human
  <2>1. now' \in Nat /\ now <= now'
    BY <1>2, NatNext
  <2> QED
    BY <1>2, <2>1 DEF human, MarksStay, SpentWhileLive
<1>3. CASE HumanNext
  <2>0. now' = now
    BY <1>3, HumanStill
  <2>1. ASSUME NEW s \in Challenges, NewChallenge(s) PROVE HumanInv'
    <3>1. ((now + ChallengeTTL) \div Second) * Second \in Int
      BY HumanAssumption
    <3> QED
      BY <2>0, <2>1, <3>1 DEF NewChallenge, MarksStay, SpentWhileLive
  <2>2. ASSUME NEW s \in Challenges, NEW c \in Clients, Verify(c, s) PROVE HumanInv'
    <3>1. [pc |-> "spend", of |-> s, at |-> now] \in [pc : {"idle", "spend"}, of : Challenges \cup {None}, at : Nat]
      OBVIOUS
    <3>2. expires[s] # 0
      BY <2>2 DEF Verify
    <3> QED
      BY <2>0, <2>2, <3>1, <3>2 DEF Verify, MarksStay, SpentWhileLive
  <2>3. ASSUME NEW c \in Clients, proof' = [proof EXCEPT ![c] = NoProof]
        PROVE  /\ proof' \in [Clients -> [pc : {"idle", "spend"}, of : Challenges \cup {None}, at : Nat]]
               /\ \A d \in Clients : proof'[d].pc = "spend" => d # c
               /\ \A d \in Clients : d # c => proof'[d] = proof[d]
    <3>1. NoProof \in [pc : {"idle", "spend"}, of : Challenges \cup {None}, at : Nat]
      BY DEF NoProof
    <3> QED
      BY <2>3, <3>1 DEF NoProof
  <2>4. ASSUME NEW s \in Challenges, Mark(s)
        PROVE  /\ DOMAIN marks' = DOMAIN marks \cup {s} /\ marks'[s] = expires[s]
               /\ \A q \in DOMAIN marks \ {s} : marks'[q] = marks[q]
    BY <2>4 DEF Mark, MarkedUntil
  <2>5. ASSUME NEW c \in Clients, Spend(c) PROVE HumanInv'
    <3>1. PICK s \in Challenges : s = proof[c].of /\ expires[s] # 0
      BY <2>5 DEF Spend
    <3>2. s \notin DOMAIN marks /\ Mark(s) /\ accepted' = [accepted EXCEPT ![s] = Append(@, now)]
          /\ UNCHANGED <<expires, sweep>> /\ proof' = [proof EXCEPT ![c] = NoProof]
      BY <2>5, <3>1 DEF Spend
    <3>3. accepted' \in [Challenges -> Seq(Nat)]
      BY <3>2
    <3>4. MarksStay'
      BY <2>0, <2>4, <3>1, <3>2 DEF MarksStay
    <3>5. ASSUME NEW q \in Challenges, NEW i \in 2..Len(accepted'[q]) PROVE accepted'[q][i] > expires[q]
      <4>1. CASE q # s \/ i # Len(accepted[q]) + 1
        BY <3>2, <3>5, <4>1 DEF SpentWhileLive
      <4>2. CASE q = s /\ i = Len(accepted[q]) + 1
        BY <3>2, <3>5, <4>2 DEF MarksStay
      <4> QED
        BY <4>1, <4>2
    <3> QED
      BY <2>0, <2>3, <3>2, <3>3, <3>4, <3>5 DEF SpentWhileLive
  <2>6. ASSUME NEW c \in Clients, Repeated(c) \/ SpendUnheard(c) PROVE HumanInv'
    <3>1. proof' = [proof EXCEPT ![c] = NoProof] /\ UNCHANGED <<expires, sweep, accepted>>
      BY <2>6 DEF Repeated, SpendUnheard
    <3>2. CASE UNCHANGED marks
      BY <2>0, <2>3, <3>1, <3>2 DEF MarksStay, SpentWhileLive
    <3>3. CASE Mark(proof[c].of) /\ proof[c].pc = "spend"
      <4>1. PICK s \in Challenges : s = proof[c].of /\ expires[s] # 0
        BY <3>3
      <4>2. ASSUME NEW q \in Challenges
            PROVE  /\ q \in DOMAIN marks' <=> q \in DOMAIN marks \/ q = s
                   /\ q \in DOMAIN marks' => marks'[q] = expires[q]
        <5>1. Mark(s)
          BY <3>3, <4>1 DEF Mark, MarkedUntil
        <5>2. /\ DOMAIN marks' = DOMAIN marks \cup {s} /\ marks'[s] = expires[s]
              /\ \A p \in DOMAIN marks \ {s} : marks'[p] = marks[p]
          BY <2>4, <5>1
        <5>3. q \in DOMAIN marks => marks[q] = expires[q]
          BY DEF MarksStay
        <5> QED
          BY <5>2, <5>3
      <4>3. MarksStay'
        BY <2>0, <3>1, <4>1, <4>2 DEF MarksStay
      <4> QED
        BY <2>0, <2>3, <3>1, <4>3 DEF SpentWhileLive
    <3> QED
      BY <2>6, <3>2, <3>3 DEF Repeated, SpendUnheard
  <2>7. CASE SelectMarks
    BY <2>0, <2>7 DEF SelectMarks, MarksStay, SpentWhileLive
  <2>8. CASE DeleteMarks
    <3>1. MarksStay'
      BY <2>0, <2>8 DEF DeleteMarks, MarksStay, Restrict
    <3> QED
      BY <2>0, <2>8, <3>1 DEF DeleteMarks, NoSweep, SpentWhileLive
  <2>9. CASE CrashMarks
    BY <2>0, <2>9 DEF CrashMarks, NoSweep, MarksStay, SpentWhileLive
  <2> QED
    BY <1>3, <2>1, <2>2, <2>5, <2>6, <2>7, <2>8, <2>9 DEF HumanNext
<1> QED
  BY <1>1, <1>2, <1>3 DEF Next, Tick

-----------------------------------------------------------------------------
(* The stop of a process of admin-api: since when it may be in its phase,   *)
(* as long as nothing fails.                                               *)
ProcRow == [phase : {"down", "up", "drain", "loops", "soft", "hard", "closing"}, since : Nat,
            term : Nat \cup {NotYet}, river : {"off", "on", "failed"}]

InPhase(p) ==
  /\ proc[p].since <= now /\ (proc[p].term # NotYet => proc[p].term <= now)
  /\ proc[p].phase \in {"up", "down"} => proc[p].term = NotYet
  /\ proc[p].phase = "up" => proc[p].river # "failed"
  /\ proc[p].phase = "drain" => now <= proc[p].since + Drain
  /\ proc[p].phase = "loops" => now = proc[p].since
  /\ proc[p].phase = "soft" => now <= proc[p].since + SoftOfAdmin
  /\ proc[p].phase = "hard" => now <= proc[p].since + HardStop

InBudget(p) ==
  proc[p].term # NotYet =>
    /\ proc[p].phase = "drain" => proc[p].since <= proc[p].term
    /\ proc[p].phase \in {"loops", "soft"} => proc[p].since <= proc[p].term + Drain
    /\ proc[p].phase = "hard" => proc[p].since <= proc[p].term + Drain + SoftOfAdmin
    /\ proc[p].phase = "closing" => now < proc[p].term + KillAfter

Drains(p) ==
  /\ proc[p].phase \notin {"up", "down"} /\ proc[p].river # "failed" => proc[p].term # NotYet
  /\ serving[p] # NotYet =>
       /\ serving[p] <= now /\ now <= serving[p] + Patience
       /\ proc[p].term # NotYet =>
            /\ serving[p] <= proc[p].term
            /\ proc[p].river # "failed" =>
                 IF proc[p].phase = "drain" THEN proc[p].since = proc[p].term ELSE now >= proc[p].term + Drain

ProgramsInv ==
  /\ now \in Nat /\ proc \in [Processes -> ProcRow] /\ serving \in [Processes -> Nat \cup {NotYet}]
  /\ \A p \in Admins : InPhase(p) /\ InBudget(p) /\ Drains(p)

LEMMA ProgramsStart == Init => ProgramsInv
  BY DEF Init, ClockInit, ProgramsInit, ProgramsInv, InPhase, InBudget, Drains, Up, Down, ProcRow, NotYet, Processes

(* One process moves on.                                                   *)
LEMMA OneMoves ==
  ASSUME ProgramsInv, now' = now, NEW p \in Processes, NEW r \in ProcRow, proc' = [proc EXCEPT ![p] = r],
         serving' \in [Processes -> Nat \cup {NotYet}], \A q \in Processes : q # p => serving'[q] = serving[q],
         p \in Admins => (InPhase(p) /\ InBudget(p) /\ Drains(p))'
  PROVE  ProgramsInv'
<1>1. proc' \in [Processes -> ProcRow] /\ \A q \in Processes : q # p => proc'[q] = proc[q]
  BY DEF ProgramsInv
<1>2. ASSUME NEW q \in Admins, q # p PROVE (InPhase(q) /\ InBudget(q) /\ Drains(q))'
  BY <1>1, <1>2 DEF ProgramsInv, InPhase, InBudget, Drains, Processes
<1> QED
  BY <1>1, <1>2 DEF ProgramsInv

LEMMA ProgramsTick == ASSUME ProgramsInv, Tick PROVE ProgramsInv'
<1>1. now' = now + Micro /\ Micro \in Nat \ {0} /\ now \in Nat /\ ProgramsInTime /\ UNCHANGED <<proc, serving>>
  BY ClockAssumption DEF Tick, Passes, LettersInTime, ProgramsInv, programs
<1>2. ASSUME NEW p \in Admins PROVE (InPhase(p) /\ InBudget(p) /\ Drains(p))'
  <2>1. /\ p \in Processes /\ proc[p] \in ProcRow /\ serving[p] \in Nat \cup {NotYet} /\ SoftStop(p) = SoftOfAdmin
        /\ InPhase(p) /\ InBudget(p) /\ Drains(p)
    BY DEF ProgramsInv, Processes, SoftStop
  <2>2. /\ now' <= Deadline(p) /\ (proc[p].term # NotYet => now' <= proc[p].term + KillAfter)
        /\ serving[p] # NotYet => now' <= serving[p] + Patience
    BY <1>1, <2>1 DEF ProgramsInTime
  <2>3. InPhase(p)'
    BY <1>1, <2>1, <2>2, ProgramsAssumption DEF InPhase, Deadline, ProcRow, NotYet
  <2>4. InBudget(p)'
    BY <1>1, <2>1, <2>2, ProgramsAssumption, ClockAssumption DEF InPhase, InBudget, Drains, Deadline, ProcRow, NotYet
  <2>5. Drains(p)'
    BY <1>1, <2>1, <2>2, ProgramsAssumption DEF InPhase, Drains, Deadline, ProcRow, NotYet
  <2> QED
    BY <2>3, <2>4, <2>5
<1> QED
  BY <1>1, <1>2 DEF ProgramsInv

LEMMA ProgramsMove ==
  ASSUME ProgramsInv, now' = now, NEW p \in Processes,
         \/ Start(p) \/ RiverStarts(p) \/ BackgroundFails(p) \/ Terminate(p) \/ Drained(p)
         \/ LoopsEnd(p) \/ Accepts(p) \/ Replied(p) \/ Ends(p) \/ Dies(p)
         \/ \E running \in BOOLEAN : Stopped(p, running) \/ CancelJobs(p, running)
  PROVE  ProgramsInv'
<1> USE DEF NotYet
<1>1. /\ proc \in [Processes -> ProcRow] /\ proc[p] \in ProcRow /\ serving[p] \in Nat \cup {NotYet} /\ now \in Nat
      /\ serving \in [Processes -> Nat \cup {NotYet}]
      /\ p \in Admins => InPhase(p) /\ InBudget(p) /\ Drains(p) /\ SoftStop(p) = SoftOfAdmin
      /\ Processes = Admins \cup Workers
  BY DEF ProgramsInv, Processes, SoftStop
<1>2. /\ proc[p].phase \in {"down", "up", "drain", "loops", "soft", "hard", "closing"} /\ proc[p].since \in Nat
      /\ proc[p].term \in Nat \cup {NotYet} /\ proc[p].river \in {"off", "on", "failed"}
  BY <1>1 DEF ProcRow
<1>3. {Drain, SoftOfAdmin, HardStop, KillAfter, Patience} \subseteq Nat
      /\ Drain + SoftOfAdmin + HardStop < KillAfter /\ Patience < KillAfter
  BY ProgramsAssumption, ClockAssumption
<1>4. CASE Start(p)
  <2>1. Up \in ProcRow /\ proc' = [proc EXCEPT ![p] = Up] /\ serving' = serving
    BY <1>4 DEF Start, Up, ProcRow
  <2>2. p \in Admins => (InPhase(p) /\ InBudget(p) /\ Drains(p))'
    BY <1>1, <1>2, <1>3, <1>4, <2>1 DEF InPhase, InBudget, Drains, Up
  <2> QED
    BY <1>1, <2>1, <2>2, OneMoves
<1>5. CASE RiverStarts(p)
  <2> DEFINE r == [proc[p] EXCEPT !.river = "on"]
  <2>1. r \in ProcRow /\ proc' = [proc EXCEPT ![p] = r] /\ serving' = serving
    BY <1>1, <1>5 DEF RiverStarts, ProcRow
  <2>2. p \in Admins => (InPhase(p) /\ InBudget(p) /\ Drains(p))'
    BY <1>1, <1>2, <1>3, <1>5, <2>1 DEF InPhase, InBudget, Drains, RiverStarts
  <2> QED
    BY <1>1, <2>1, <2>2, OneMoves
<1>6. CASE BackgroundFails(p)
  <2>1. CASE p \in Workers
    <3>1. Down \in ProcRow /\ proc' = [proc EXCEPT ![p] = Down] /\ serving' = serving
      BY <1>6, <2>1 DEF BackgroundFails, Down, ProcRow
    <3>2. p \in Admins => (InPhase(p) /\ InBudget(p) /\ Drains(p))'
      BY <1>1, <1>2, <1>3, <3>1 DEF InPhase, InBudget, Drains, Down
    <3> QED
      BY <1>1, <3>1, <3>2, OneMoves
  <2>2. CASE p \notin Workers
    <3> DEFINE r == [proc[p] EXCEPT !.river = "failed", !.phase = IF @ = "up" THEN "drain" ELSE @,
                                    !.since = IF proc[p].phase = "up" THEN now ELSE @]
    <3>1. proc[p].phase \in {"up", "drain", "loops"} /\ serving' = serving
      BY <1>6 DEF BackgroundFails
    <3>2. r \in ProcRow
      BY <1>1 DEF ProcRow
    <3>3. proc' = [proc EXCEPT ![p] = r]
      BY <1>1, <1>6, <2>2 DEF BackgroundFails
    <3>4. p \in Admins => (InPhase(p) /\ InBudget(p) /\ Drains(p))'
      BY <1>1, <1>2, <1>3, <3>1, <3>2, <3>3 DEF InPhase, InBudget, Drains
    <3> QED
      BY <1>1, <3>1, <3>2, <3>3, <3>4, OneMoves
  <2> QED
    BY <2>1, <2>2
<1>7. CASE Terminate(p)
  <2> DEFINE r == [proc[p] EXCEPT !.term = now, !.phase = IF @ = "up" THEN Terminates(p) ELSE @,
                                  !.since = IF proc[p].phase = "up" THEN now ELSE @]
  <2>1. r \in ProcRow
    BY <1>1 DEF ProcRow, Terminates
  <2>2. proc' = [proc EXCEPT ![p] = r] /\ serving' = serving /\ proc[p].term = NotYet /\ proc[p].phase # "down"
    BY <1>1, <1>7 DEF Terminate, Alive
  <2>3. p \in Admins => (InPhase(p) /\ InBudget(p) /\ Drains(p))'
    BY <1>1, <1>2, <1>3, <2>1, <2>2 DEF InPhase, InBudget, Drains, Terminates
  <2> QED
    BY <1>1, <2>1, <2>2, <2>3, OneMoves
<1>8. ASSUME NEW phase \in {"loops", "soft", "hard", "closing"}, Goes(p, phase), serving' = serving,
             p \in Admins => /\ proc[p].term # NotYet \/ proc[p].river = "failed"
                             /\ proc[p].phase \notin {"up", "down"}
                             /\ \/ /\ proc[p].phase = "drain" /\ phase = "loops"
                                   /\ serving[p] = NotYet \/ now >= proc[p].since + Drain
                                \/ proc[p].phase = "loops" /\ phase \in {"soft", "closing"}
                                \/ proc[p].phase = "soft" /\ phase \in {"hard", "closing"}
                                \/ proc[p].phase = "hard" /\ phase = "closing"
      PROVE  ProgramsInv'
  <2> DEFINE r == [proc[p] EXCEPT !.phase = phase, !.since = now]
  <2>1. r \in ProcRow
    BY <1>1 DEF ProcRow
  <2>2. proc' = [proc EXCEPT ![p] = r]
    BY <1>1, <1>8 DEF Goes
  <2>3. p \in Admins => (InPhase(p) /\ InBudget(p) /\ Drains(p))'
    BY <1>1, <1>2, <1>3, <1>8, <2>1, <2>2 DEF InPhase, InBudget, Drains
  <2> QED
    BY <1>1, <1>8, <2>1, <2>2, <2>3, OneMoves
<1>9. CASE Drained(p)
  <2>1. Goes(p, "loops") /\ serving' = serving
    BY <1>9 DEF Drained
  <2>2. p \in Admins => /\ proc[p].term # NotYet \/ proc[p].river = "failed"
                        /\ proc[p].phase = "drain" /\ (serving[p] = NotYet \/ now >= proc[p].since + Drain)
    BY <1>1, <1>9 DEF Drained, Drains
  <2> QED
    BY <1>8, <2>1, <2>2
<1>10. CASE LoopsEnd(p)
  <2>1. PICK phase \in {"soft", "closing"} : Goes(p, phase) /\ serving' = serving
    BY <1>10 DEF LoopsEnd
  <2>2. p \in Admins => (proc[p].term # NotYet \/ proc[p].river = "failed") /\ proc[p].phase = "loops"
    BY <1>1, <1>10 DEF LoopsEnd, Drains
  <2> QED
    BY <1>8, <2>1, <2>2
<1>11. ASSUME NEW running \in BOOLEAN, Stopped(p, running) \/ CancelJobs(p, running) PROVE ProgramsInv'
  <2>1. PICK phase \in {"hard", "closing"} :
           /\ Goes(p, phase) /\ serving' = serving
           /\ proc[p].phase = "soft" \/ (proc[p].phase = "hard" /\ phase = "closing")
    BY <1>11 DEF Stopped, CancelJobs
  <2>2. p \in Admins => proc[p].term # NotYet \/ proc[p].river = "failed"
    BY <1>1, <2>1 DEF Drains
  <2> QED
    BY <1>8, <2>1, <2>2
<1>12. CASE Ends(p) \/ Dies(p)
  <2>1. Down \in ProcRow /\ proc' = [proc EXCEPT ![p] = Down]
        /\ (serving' = [serving EXCEPT ![p] = NotYet] \/ (serving' = serving /\ serving[p] = NotYet))
    BY <1>12 DEF Ends, Dies, Down, ProcRow
  <2>2. p \in Admins => (InPhase(p) /\ InBudget(p) /\ Drains(p))'
    BY <1>1, <1>2, <1>3, <2>1 DEF InPhase, InBudget, Drains, Down
  <2> QED
    BY <1>1, <2>1, <2>2, OneMoves
<1>13. CASE Accepts(p)
  <2>1. proc' = [proc EXCEPT ![p] = proc[p]] /\ serving' = [serving EXCEPT ![p] = now] /\ proc[p].phase = "up"
    BY <1>1, <1>13 DEF Accepts
  <2>2. p \in Admins => (InPhase(p) /\ InBudget(p) /\ Drains(p))'
    BY <1>1, <1>2, <1>3, <2>1 DEF InPhase, InBudget, Drains
  <2> QED
    BY <1>1, <2>1, <2>2, OneMoves
<1>14. CASE Replied(p)
  <2>1. proc' = [proc EXCEPT ![p] = proc[p]] /\ serving' = [serving EXCEPT ![p] = NotYet]
    BY <1>1, <1>14 DEF Replied
  <2>2. p \in Admins => (InPhase(p) /\ InBudget(p) /\ Drains(p))'
    BY <1>1, <1>2, <1>3, <2>1 DEF InPhase, InBudget, Drains
  <2> QED
    BY <1>1, <2>1, <2>2, OneMoves
<1> QED
  BY <1>4, <1>5, <1>6, <1>7, <1>9, <1>10, <1>11, <1>12, <1>13, <1>14

LEMMA ProgramsKeeps == ASSUME ProgramsInv, [Next]_edge PROVE ProgramsInv'
<1>1. CASE UNCHANGED edge \/ (Next /\ ~Tick /\ ~LettersNext)
  <2>1. UNCHANGED <<proc, serving, now>>
    BY <1>1, LimitsStill, CookiesStill, HumanStill, PlayersStill, PipelineStill, ListsStill, HealthStill, CallersStill, BlobsStill
    DEF Next, edge, clock, programs
  <2> QED
    BY <2>1 DEF ProgramsInv, InPhase, InBudget, Drains
<1>2. CASE LettersNext
  <2>0. now' = now
    BY <1>2, ProgramsStill
  <2>1. CASE UNCHANGED programs
    BY <2>0, <2>1 DEF programs, ProgramsInv, InPhase, InBudget, Drains
  <2>2. CASE ~UNCHANGED programs
    <3>1. PICK p \in Processes :
            \/ Start(p) \/ RiverStarts(p) \/ BackgroundFails(p) \/ Terminate(p) \/ Drained(p)
            \/ LoopsEnd(p) \/ Accepts(p) \/ Replied(p) \/ Ends(p) \/ Dies(p)
            \/ \E running \in BOOLEAN : Stopped(p, running) \/ CancelJobs(p, running)
      <4>1. \A p \in Processes : (RunsOf(p) # {}) \in BOOLEAN
        OBVIOUS
      <4>2. CASE ProgramsNext
        BY <4>2 DEF ProgramsNext
      <4>3. ASSUME NEW p \in Processes, QueueStop(p) \/ Exits(p) \/ \E L \in SUBSET Jobs, mail \in Mails : Commits(p, L, mail)
            PROVE  \/ Replied(p) \/ Ends(p) \/ Dies(p)
                   \/ \E running \in BOOLEAN : Stopped(p, running) \/ CancelJobs(p, running)
        BY <4>1, <4>3 DEF QueueStop, Exits, Commits
      <4> QED
        BY <1>2, <2>2, <4>2, <4>3 DEF LettersNext, TakesJob, Rescue, Command, MovesOn, Turns, Compose, HandsOver, Completes, Errs
    <3> QED
      BY <2>0, <3>1, ProgramsMove
  <2> QED
    BY <2>1, <2>2
<1> QED
  BY <1>1, <1>2, ProgramsTick

LEMMA ProgramsInOrder == ProgramsInv => StopsInOrder
<1> SUFFICES ASSUME ProgramsInv, NEW p \in Admins
             PROVE  /\ Alive(p) /\ proc[p].term # NotYet => now < proc[p].term + KillAfter
                    /\ serving[p] # NotYet /\ proc[p].term # NotYet /\ now < proc[p].term + Drain =>
                         proc[p].phase = "drain" \/ proc[p].river = "failed"
  BY DEF StopsInOrder
<1>1. proc[p] \in ProcRow /\ serving[p] \in Nat \cup {NotYet} /\ InPhase(p) /\ InBudget(p) /\ Drains(p)
  BY DEF ProgramsInv, Processes
<1>2. Alive(p) /\ proc[p].term # NotYet => now < proc[p].term + KillAfter
  BY <1>1, ProgramsAssumption DEF Alive, InPhase, InBudget, ProcRow, NotYet, ProgramsInv
<1>3. serving[p] # NotYet /\ proc[p].term # NotYet /\ now < proc[p].term + Drain =>
        proc[p].phase = "drain" \/ proc[p].river = "failed"
  BY <1>1, ProgramsAssumption DEF Drains, ProcRow, NotYet, ProgramsInv
<1> QED
  BY <1>2, <1>3

-----------------------------------------------------------------------------
(* Letters: what the row of a job says of itself, and a run of it in a      *)
(* process, as long as its deadline, which ends before the leader looks.    *)
JobRow == [state : {"none", "waiting", "running", "completed", "cancelled", "discarded"}, mail : Mails,
           by : Processes \cup {None}, since : Nat, attempt : Nat, sent : Nat, wanted : BOOLEAN]
RunRow == [by : Admins, of : Jobs, pc : {"compose", "send", "done"}, since : Nat]

Tried(j) ==
  /\ j.state = "completed" => j.sent > 0
  /\ j.state = "cancelled" => ~j.wanted
  /\ j.state = "discarded" => j.attempt = MaxAttempts
  /\ j.state = "waiting" => j.attempt < MaxAttempts
  /\ j.sent <= j.attempt /\ j.attempt <= MaxAttempts

RunBy(r, j, t) ==
  /\ j.state = "running" /\ j.by = r.by /\ j.since = r.since /\ t <= r.since + MailTimeout
  /\ IF r.pc = "done" THEN j.sent > 0 ELSE j.sent < j.attempt

LettersInv ==
  /\ now \in Nat /\ job \in [Jobs -> JobRow] /\ runs \subseteq RunRow
  /\ \A l \in Jobs : Tried(job[l])
  /\ \A r \in runs : RunBy(r, job[r.of], now)
  /\ \A r, q \in runs : r.of = q.of => r = q

LEMMA LettersStart == Init => LettersInv
<1> SUFFICES ASSUME Init PROVE LettersInv
  OBVIOUS
<1>1. NoJob \in JobRow /\ Tried(NoJob)
  BY LettersAssumption DEF NoJob, JobRow, Mails, Tried
<1> QED
  BY <1>1 DEF Init, ClockInit, LettersInit, LettersInv

(* One job moves on, with its run.                                         *)
LEMMA OneJobMoves ==
  ASSUME LettersInv, now' = now, NEW l \in Jobs, NEW j \in JobRow, Tried(j), job' = [job EXCEPT ![l] = j],
         runs' \subseteq RunRow, \A r \in runs' : r.of # l => r \in runs,
         \A r \in runs' : r.of = l => RunBy(r, j, now),
         \A r, q \in runs' : r.of = l /\ q.of = l => r = q
  PROVE  LettersInv'
<1>1. job' \in [Jobs -> JobRow] /\ job'[l] = j /\ \A m \in Jobs : m # l => job'[m] = job[m]
  BY DEF LettersInv
<1>2. \A m \in Jobs : Tried(job'[m])
  BY <1>1 DEF LettersInv
<1>3. ASSUME NEW r \in runs' PROVE RunBy(r, job'[r.of], now')
  <2>1. r.of \in Jobs
    BY DEF RunRow
  <2>2. CASE r.of = l
    BY <1>1, <2>2
  <2>3. CASE r.of # l
    BY <1>1, <2>1, <2>3 DEF LettersInv
  <2> QED
    BY <2>2, <2>3
<1>4. \A r, q \in runs' : r.of = q.of => r = q
  BY DEF LettersInv
<1> QED
  BY <1>1, <1>2, <1>3, <1>4 DEF LettersInv

(* The outcome of a run, which ends.                                       *)
LEMMA OutcomeKept ==
  ASSUME LettersInv, now' = now, NEW r \in runs, NEW state, Outcome(r.of, state), ExecutionEnds(r),
         \/ state = "completed" /\ r.pc = "done"
         \/ state = "cancelled" /\ ~Composed(job[r.of].mail, about[r.of])
         \/ state = Retried(r.of)
  PROVE  LettersInv'
<1>1. PICK l \in Jobs : l = r.of
  BY DEF LettersInv, RunRow
<1>2. job \in [Jobs -> JobRow] /\ job[l] \in JobRow /\ Tried(job[l]) /\ RunBy(r, job[l], now)
  BY <1>1 DEF LettersInv
<1>3. runs' \subseteq RunRow /\ (\A q \in runs' : q \in runs /\ q.of # l)
  BY <1>1 DEF LettersInv, ExecutionEnds
<1> DEFINE wanted == state # "cancelled" \/ Composed(job[l].mail, about[l])
           j == [job[l] EXCEPT !.state = state, !.by = None, !.since = 0, !.wanted = wanted]
<1>4. job' = [job EXCEPT ![l] = j]
  BY <1>1, <1>2 DEF Outcome, RunBy
<1>5. state \in {"completed", "cancelled", "discarded", "waiting"}
  BY DEF Retried
<1>6. wanted \in BOOLEAN
  OBVIOUS
<1>7. j \in JobRow
  BY <1>2, <1>5, <1>6 DEF JobRow
<1>8. /\ j.state = state /\ j.sent = job[l].sent /\ j.attempt = job[l].attempt
      /\ j.wanted = wanted
  BY <1>2 DEF JobRow
<1>9. Tried(j)
  <2>1. /\ state = "discarded" => job[l].attempt = MaxAttempts
        /\ state = "waiting" => job[l].attempt # MaxAttempts
        /\ state = "completed" => r.pc = "done"
        /\ state = "cancelled" => ~wanted
    BY <1>1 DEF Retried
  <2>2. job[l].attempt \in Nat /\ job[l].sent \in Nat /\ MaxAttempts \in Nat
    BY <1>2, LettersAssumption DEF JobRow
  <2> QED
    <3>1. j.state = "cancelled" => ~j.wanted
      BY <1>8, <2>1
    <3>2. j.state = "completed" => j.sent > 0
      BY <1>2, <1>8, <2>1 DEF RunBy
    <3>3. j.state = "waiting" => j.attempt < MaxAttempts
      BY <1>2, <1>8, <2>1, <2>2 DEF Tried
    <3> QED
      BY <1>2, <1>8, <2>1, <3>1, <3>2, <3>3 DEF Tried
<1> HIDE DEF j, wanted
<1> QED
  BY <1>3, <1>4, <1>7, <1>9, OneJobMoves

LEMMA LettersMove == ASSUME LettersInv, ProgramsInv, now' = now, LettersNext PROVE LettersInv'
<1>1. /\ job \in [Jobs -> JobRow] /\ runs \subseteq RunRow /\ now \in Nat /\ Processes = Admins \cup Workers
      /\ \A l \in Jobs : job[l] \in JobRow /\ Tried(job[l])
      /\ \A r \in runs : r.of \in Jobs /\ RunBy(r, job[r.of], now)
      /\ \A r, q \in runs : r.of = q.of => r = q
      /\ MaxAttempts \in Nat \ {0} /\ MailTimeout \in Nat /\ RescueAfter \in Nat /\ RescueAfter > MailTimeout
  BY LettersAssumption DEF LettersInv, RunRow, Processes
<1>2. CASE UNCHANGED <<job, runs>>
  BY <1>2 DEF LettersInv
<1>3. CASE job' = job /\ runs' \subseteq runs
  BY <1>3 DEF LettersInv
<1>4. ASSUME NEW L \in SUBSET Jobs, NEW mail \in Mails, Inserted(L, mail), runs' = runs PROVE LettersInv'
  <2> DEFINE j == [NoJob EXCEPT !.state = "waiting", !.mail = mail]
  <2>1. j \in JobRow
    BY DEF NoJob, JobRow
  <2>1a. j.state = "waiting" /\ j.attempt = 0 /\ j.sent = 0
    BY DEF NoJob
  <2>1b. Tried(j)
    BY <1>1, <2>1a DEF Tried
  <2>2. job' = [l \in Jobs |-> IF l \in L THEN j ELSE job[l]] /\ \A l \in L : job[l].state = "none"
    BY <1>4 DEF Inserted
  <2>3. \A r \in runs : r.of \notin L
    BY <1>1, <2>2 DEF RunBy
  <2> HIDE DEF j
  <2> QED
    BY <1>1, <1>4, <2>1, <2>1b, <2>2, <2>3 DEF LettersInv
<1>5. ASSUME NEW p \in Processes, NEW l \in Jobs, TakesJob(p, l) PROVE LettersInv'
  <2> DEFINE j == [job[l] EXCEPT !.state = "running", !.by = p, !.since = now, !.attempt = @ + 1]
             r == [by |-> p, of |-> l, pc |-> "compose", since |-> now]
  <2>1. job' = [job EXCEPT ![l] = j] /\ runs' = runs \cup {r} /\ p \in Admins /\ job[l].state = "waiting"
    BY <1>1, <1>5 DEF TakesJob
  <2>2. job[l].attempt \in Nat /\ job[l].sent \in Nat /\ job[l] \in JobRow /\ Tried(job[l])
    BY <1>1 DEF JobRow
  <2>3. j \in JobRow
    <3>1. job[l].attempt + 1 \in Nat
      BY <2>2
    <3>2. job[l] \in [state : {"none", "waiting", "running", "completed", "cancelled", "discarded"}, mail : Mails,
                      by : Processes \cup {None}, since : Nat, attempt : Nat, sent : Nat, wanted : BOOLEAN]
      BY <2>2 DEF JobRow
    <3> QED
      BY <1>1, <3>1, <3>2 DEF JobRow
  <2>4. j.state = "running" /\ j.by = p /\ j.since = now /\ j.attempt = job[l].attempt + 1 /\ j.sent = job[l].sent
    BY <2>2 DEF JobRow
  <2>5. Tried(j) /\ RunBy(r, j, now)
    BY <1>1, <2>1, <2>2, <2>4 DEF Tried, RunBy
  <2>6. \A q \in runs : q.of # l
    BY <1>1, <2>1 DEF RunBy
  <2>7. r \in RunRow /\ r.of = l
    BY <1>1, <2>1 DEF RunRow
  <2> HIDE DEF j, r
  <2> QED
    <3>1. runs' \subseteq RunRow /\ \A q \in runs' : q.of # l => q \in runs
      BY <1>1, <2>1, <2>7
    <3>2. \A q \in runs' : q.of = l => q = r
      BY <2>1, <2>6
    <3> QED
      BY <2>1, <2>3, <2>5, <3>1, <3>2, OneJobMoves
<1>7. ASSUME NEW r \in runs, NEW pc \in {"send", "done"}, GoesOn(r, pc), NEW j \in JobRow, job' = [job EXCEPT ![r.of] = j],
             Tried(j), RunBy([r EXCEPT !.pc = pc], j, now)
      PROVE  LettersInv'
  <2> DEFINE q == [r EXCEPT !.pc = pc]
  <2>1. r \in RunRow /\ q \in RunRow /\ q.of = r.of /\ r.of \in Jobs
    BY <1>1 DEF RunRow
  <2>2. runs' = (runs \ {r}) \cup {q} /\ \A s \in runs \ {r} : s.of # r.of
    BY <1>1, <1>7 DEF GoesOn
  <2>3. PICK l \in Jobs : l = r.of
    BY <2>1
  <2> HIDE DEF q
  <2>4. runs' \subseteq RunRow
    BY <1>1, <2>1, <2>2
  <2>5. \A s \in runs' : s.of # l => s \in runs
    BY <2>1, <2>2, <2>3
  <2>6. \A s \in runs' : s.of = l => s = q
    BY <2>2, <2>3
  <2>7. RunBy(q, j, now)
    BY <1>7 DEF q
  <2> QED
    BY <1>7, <2>3, <2>4, <2>5, <2>6, <2>7, OneJobMoves
<1>8. ASSUME NEW r \in runs, Compose(r), GoesOn(r, "send"), UNCHANGED job PROVE LettersInv'
  <2>1. r.pc = "compose" /\ r \in RunRow /\ r.of \in Jobs /\ RunBy(r, job[r.of], now) /\ job[r.of] \in JobRow /\ Tried(job[r.of])
    BY <1>1, <1>8 DEF Compose
  <2>2. RunBy([r EXCEPT !.pc = "send"], job[r.of], now)
    BY <2>1 DEF RunBy, RunRow
  <2>3. job' = [job EXCEPT ![r.of] = job[r.of]]
    BY <1>1, <1>8
  <2> QED
    BY <1>7, <1>8, <2>1, <2>2, <2>3
<1>9. ASSUME NEW r \in runs, HandsOver(r) PROVE LettersInv'
  <2> DEFINE j == [job[r.of] EXCEPT !.sent = @ + 1]
  <2>1. r.pc = "send" /\ GoesOn(r, "done") /\ job' = [job EXCEPT ![r.of] = j]
    BY <1>1, <1>9 DEF HandsOver
  <2>2. r \in RunRow /\ r.of \in Jobs /\ RunBy(r, job[r.of], now) /\ job[r.of] \in JobRow /\ Tried(job[r.of])
    BY <1>1
  <2>3. j \in JobRow /\ j.sent = job[r.of].sent + 1
    BY <2>2 DEF JobRow
  <2>4. /\ j.state = job[r.of].state /\ j.by = job[r.of].by /\ j.since = job[r.of].since /\ j.attempt = job[r.of].attempt
        /\ {job[r.of].sent, job[r.of].attempt} \subseteq Nat
    BY <2>2 DEF JobRow
  <2>5. Tried(j)
    BY <1>1, <2>1, <2>2, <2>3, <2>4 DEF Tried, RunBy
  <2>6. RunBy([r EXCEPT !.pc = "done"], j, now)
    BY <2>1, <2>2, <2>3, <2>4 DEF RunBy, RunRow
  <2> HIDE DEF j
  <2> QED
    BY <1>7, <2>1, <2>2, <2>3, <2>5, <2>6
<1>10. ASSUME NEW p \in Processes, NEW l \in Jobs, Rescue(p, l) PROVE LettersInv'
  <2> DEFINE j == [job[l] EXCEPT !.by = None, !.since = 0, !.state = Retried(l)]
  <2>1. "staff.mail" \in AllWorkers(p)
    BY DEF AllWorkers, RealWorkers, AddForeign
  <2>2. job' = [job EXCEPT ![l] = j] /\ runs' = runs /\ job[l].state = "running" /\ now > job[l].since + RescueAfter
    BY <1>1, <1>10, <2>1 DEF Rescue, letters
  <2>3. job[l] \in JobRow /\ Tried(job[l]) /\ job[l].attempt \in Nat /\ job[l].sent \in Nat /\ job[l].since \in Nat
        /\ Retried(l) \in {"discarded", "waiting"}
    BY <1>1 DEF JobRow, Retried
  <2>4. j \in JobRow /\ j.state = Retried(l) /\ j.sent = job[l].sent /\ j.attempt = job[l].attempt
    BY <2>3 DEF JobRow
  <2>5. Tried(j)
    BY <1>1, <2>3, <2>4 DEF Tried, Retried
  <2>6. \A r \in runs : r.of # l
    BY <1>1, <2>2, <2>3 DEF RunBy, RunRow
  <2> HIDE DEF j
  <2> QED
    BY <1>1, <2>2, <2>4, <2>5, <2>6, OneJobMoves
<1>11. ASSUME NEW p \in Processes, QueueStop(p) \/ Exits(p) PROVE job' = job /\ runs' \subseteq runs
  BY <1>11 DEF QueueStop, Exits, letters
<1>12. ASSUME NEW l \in Jobs, Turns(l) \/ \E ref \in {"over", "gone"} : MovesOn(l, ref) PROVE UNCHANGED <<job, runs>>
  BY <1>12 DEF Turns, MovesOn
<1>13. CASE ProgramsNext /\ UNCHANGED letters
  BY <1>2, <1>13 DEF letters
<1>14. ASSUME NEW L \in SUBSET Jobs, NEW mail \in Mails, Command(L, mail) \/ \E p \in Processes : Commits(p, L, mail)
       PROVE  LettersInv'
  BY <1>4, <1>14 DEF Command, Commits
<1>15. ASSUME NEW r \in runs, Compose(r) \/ Completes(r) \/ Errs(r) PROVE LettersInv'
  <2>1. CASE ExecutionEnds(r) /\ \E state : /\ Outcome(r.of, state)
                                           /\ \/ state = "completed" /\ r.pc = "done"
                                              \/ state = "cancelled" /\ ~Composed(job[r.of].mail, about[r.of])
                                              \/ state = Retried(r.of)
    BY <2>1, OutcomeKept
  <2>2. CASE Errs(r)
    BY <2>1, <2>2 DEF Errs
  <2>3. CASE Completes(r)
    BY <2>1, <2>3 DEF Completes
  <2>4. CASE Compose(r) /\ Outcome(r.of, Unknown(r)) /\ ExecutionEnds(r)
    BY <2>1, <2>4 DEF Unknown
  <2>5. CASE Compose(r) /\ ~Composed(job[r.of].mail, about[r.of]) /\ Outcome(r.of, "cancelled") /\ ExecutionEnds(r)
    BY <2>1, <2>5
  <2>6. CASE Compose(r) /\ GoesOn(r, "send") /\ UNCHANGED job
    BY <1>15, <1>8, <2>6
  <2> QED
    BY <1>15, <2>2, <2>3, <2>4, <2>5, <2>6 DEF Compose
<1> QED
  BY <1>2, <1>3, <1>5, <1>9, <1>10, <1>11, <1>12, <1>13, <1>14, <1>15 DEF LettersNext

LEMMA LettersKeeps == ASSUME LettersInv, ProgramsInv, [Next]_edge PROVE LettersInv'
<1>1. CASE UNCHANGED edge \/ (Next /\ ~Tick /\ ~LettersNext)
  <2>1. UNCHANGED <<job, runs, now>>
    BY <1>1, LimitsStill, CookiesStill, HumanStill, PlayersStill, PipelineStill, ListsStill, HealthStill, CallersStill, BlobsStill
    DEF Next, edge, clock, letters
  <2> QED
    BY <2>1 DEF LettersInv
<1>2. CASE Tick
  <2>1. now' = now + Micro /\ Micro \in Nat /\ UNCHANGED <<job, runs>> /\ \A r \in runs : now' <= r.since + MailTimeout
    BY <1>2, ClockAssumption DEF Tick, Passes, LettersInTime, letters
  <2>2. \A r \in runs : RunBy(r, job[r.of], now')
    BY <2>1 DEF LettersInv, RunBy
  <2> QED
    BY <2>1, <2>2 DEF LettersInv
<1>3. CASE LettersNext
  BY <1>3, ProgramsStill, LettersMove
<1> QED
  BY <1>1, <1>2, <1>3

LEMMA LettersAreKept == LettersInv => LettersKept
<1> SUFFICES ASSUME LettersInv PROVE LettersKept
  OBVIOUS
<1>1. ASSUME NEW l \in Jobs PROVE Cardinality({r \in runs : r.of = l}) <= 1
  <2>1. CASE {r \in runs : r.of = l} = {}
    BY <2>1, FS_EmptySet
  <2>2. CASE {r \in runs : r.of = l} # {}
    <3>1. PICK r \in runs : {q \in runs : q.of = l} = {r}
      BY <2>2 DEF LettersInv
    <3> QED
      <4>1. Cardinality({r}) = 1
        BY FS_Singleton
      <4> QED
        BY <3>1, <4>1
  <2> QED
    BY <2>1, <2>2
<1>2. \A l \in Jobs : Tried(job[l]) /\ job[l].sent \in Nat /\ job[l].attempt \in Nat
  BY DEF LettersInv, JobRow
<1>3. \A r \in runs : RunBy(r, job[r.of], now)
  BY DEF LettersInv
<1> QED
  BY <1>1, <1>2, <1>3 DEF LettersKept, Tried, RunBy

-----------------------------------------------------------------------------
(* Sessions of players: a load that found one began before it was revoked,  *)
(* and what is kept or answered is no older than the TTL of that beginning. *)
LoadRow == [pc : {"none", "new", "query", "answer"}, start : Nat, ok : BOOLEAN]
CallRow == [pc : {"idle", "miss", "wait", "served"}, of : Sessions \cup {None}, since : Nat]

Loaded(s) ==
  /\ revoked[s] # Never => revoked[s] <= now
  /\ load[s].pc \in {"query", "answer"} => load[s].start <= now /\ now <= load[s].start + CacheTTL
  /\ load[s].pc = "answer" /\ load[s].ok /\ revoked[s] # Never => load[s].start <= revoked[s]
  /\ s \in DOMAIN entries =>
       /\ entries[s] \in Nat /\ entries[s] <= now + CacheTTL
       /\ revoked[s] # Never => entries[s] <= revoked[s] + CacheTTL

Asking(c) ==
  /\ call[c].pc # "idle" => call[c].of \in Sessions /\ call[c].since <= now
  /\ call[c].pc = "served" /\ revoked[call[c].of] # Never => call[c].since <= revoked[call[c].of] + CacheTTL

PlayersInv ==
  /\ now \in Nat /\ revoked \in [Sessions -> Nat \cup {Never}] /\ load \in [Sessions -> LoadRow]
  /\ call \in [Clients -> CallRow]
  /\ DOMAIN entries \subseteq Sessions /\ IsFiniteSet(DOMAIN entries) /\ Cardinality(DOMAIN entries) <= MaxEntries
  /\ \A s \in Sessions : Loaded(s)
  /\ \A c \in Clients : Asking(c)

LEMMA PlayersStart == Init => PlayersInv
<1> SUFFICES ASSUME Init PROVE PlayersInv
  OBVIOUS
<1>1. now = 0 /\ PlayersInit /\ NoLoad \in LoadRow /\ NoCall \in CallRow /\ MaxEntries \in Nat
  BY PlayersAssumption DEF Init, ClockInit, NoLoad, NoCall, LoadRow, CallRow
<1>2. DOMAIN entries = {} /\ IsFiniteSet({}) /\ Cardinality({}) = 0
  BY <1>1, FS_EmptySet DEF PlayersInit
<1> QED
  BY <1>1, <1>2 DEF PlayersInit, PlayersInv, Loaded, Asking, NoLoad, NoCall, Never

LEMMA PlayersTick == ASSUME PlayersInv, Tick PROVE PlayersInv'
<1>1. now' = now + Micro /\ Micro \in Nat /\ InTime /\ UNCHANGED players /\ CacheTTL \in Nat
  BY ClockAssumption, PlayersAssumption DEF Tick, Passes
<1>2. ASSUME NEW s \in Sessions PROVE Loaded(s)'
  BY <1>1 DEF PlayersInv, Loaded, players, InTime, LoadRow, Never
<1>3. ASSUME NEW c \in Clients PROVE Asking(c)'
  BY <1>1 DEF PlayersInv, Asking, players, CallRow
<1> QED
  BY <1>1, <1>2, <1>3 DEF PlayersInv, players

(* What is served by the end of a load.                                    *)
LEMMA AnsweredCalls ==
  ASSUME PlayersInv, now' = now, revoked' = revoked, NEW s \in Sessions, NEW pc \in {"idle", "served"}, Answered(s, pc),
         pc = "served" => load[s].pc = "answer" /\ load[s].ok
  PROVE  call' \in [Clients -> CallRow] /\ \A c \in Clients : Asking(c)'
<1>1. NoCall \in CallRow /\ CacheTTL \in Nat
  BY PlayersAssumption DEF NoCall, CallRow
<1>2. ASSUME NEW c \in Clients PROVE call'[c] \in CallRow /\ Asking(c)'
  <2>1. call[c] \in CallRow /\ Asking(c) /\ Loaded(s) /\ load[s] \in LoadRow /\ revoked[s] \in Nat \cup {Never} /\ now \in Nat
    BY DEF PlayersInv
  <2>2. CASE call[c].pc = "wait" /\ call[c].of = s /\ pc = "idle"
    BY <1>1, <2>2 DEF Answered, Asking, NoCall
  <2>3. CASE call[c].pc = "wait" /\ call[c].of = s /\ pc = "served"
    <3>1. call'[c] = [call[c] EXCEPT !.pc = "served"]
      BY <2>3 DEF Answered
    <3>2. call'[c] \in CallRow /\ call'[c].of = s /\ call'[c].since = call[c].since /\ call[c].since <= now
      BY <2>1, <2>3, <3>1 DEF CallRow, Asking
    <3>3. revoked[s] # Never => call[c].since <= revoked[s] + CacheTTL
      BY <1>1, <2>1, <2>3, <3>2 DEF Loaded, LoadRow, CallRow, Never
    <3> QED
      BY <3>2, <3>3 DEF Asking
  <2>4. CASE ~(call[c].pc = "wait" /\ call[c].of = s)
    BY <2>1, <2>4 DEF Answered, Asking
  <2> QED
    BY <2>2, <2>3, <2>4
<1>3. call' = [c \in Clients |-> call'[c]]
  BY DEF Answered
<1> QED
  BY <1>2, <1>3

LEMMA KeptFew ==
  ASSUME PlayersInv, NEW s \in Sessions, now < Expires(s), PutEntry(s)
  PROVE  /\ DOMAIN entries' \subseteq Sessions /\ IsFiniteSet(DOMAIN entries')
         /\ Cardinality(DOMAIN entries') <= MaxEntries
<1>1. /\ IsFiniteSet(DOMAIN entries) /\ Cardinality(DOMAIN entries) \in Nat /\ DOMAIN entries \subseteq Sessions
      /\ MaxEntries \in Nat \ {0}
  BY FS_CardinalityType, PlayersAssumption DEF PlayersInv
<1>2. IsFiniteSet(Fresh) /\ Cardinality(Fresh) \in Nat /\ Fresh \subseteq DOMAIN entries
  <2>1. Fresh \subseteq DOMAIN entries
    BY DEF Fresh
  <2> QED
    BY <1>1, <2>1, FS_Subset, FS_CardinalityType
<1>3. IsFiniteSet({}) /\ Cardinality({}) = 0
  BY FS_EmptySet
<1>4. IsFiniteSet(Kept) /\ Cardinality(Kept) \in Nat /\ Cardinality(Kept) < MaxEntries /\ Kept \subseteq DOMAIN entries
  BY <1>1, <1>2, <1>3 DEF Kept
<1>5. DOMAIN entries' = Kept \cup {s}
  BY DEF PutEntry
<1>6. IsFiniteSet(Kept \cup {s}) /\ Cardinality(Kept \cup {s}) <= Cardinality(Kept) + 1
  <2>1. IsFiniteSet(Kept)
    BY <1>4
  <2>2. /\ IsFiniteSet(Kept \cup {s})
        /\ Cardinality(Kept \cup {s}) = IF s \in Kept THEN Cardinality(Kept) ELSE Cardinality(Kept) + 1
    BY <2>1, FS_AddElement
  <2> QED
    BY <1>4, <2>2
<1>7. Cardinality(Kept \cup {s}) \in Nat
  BY <1>6, FS_CardinalityType
<1> QED
  BY <1>1, <1>4, <1>5, <1>6, <1>7

LEMMA PlayersMove == ASSUME PlayersInv, PlayersNext PROVE PlayersInv'
<1>1. /\ now \in Nat /\ revoked \in [Sessions -> Nat \cup {Never}] /\ load \in [Sessions -> LoadRow]
      /\ call \in [Clients -> CallRow] /\ CacheTTL \in Nat /\ now' = now
  BY PlayersStill, PlayersAssumption DEF PlayersInv
<1>2. CASE UNCHANGED players
  BY <1>1, <1>2 DEF PlayersInv, Loaded, Asking, players
<1>3. ASSUME NEW s \in Sessions, Revoke(s) PROVE PlayersInv'
  <2>1. revoked[s] = Never /\ revoked' = [revoked EXCEPT ![s] = now] /\ UNCHANGED <<entries, load, call>>
    BY <1>3 DEF Revoke
  <2>2. ASSUME NEW q \in Sessions PROVE Loaded(q)'
    BY <1>1, <2>1 DEF PlayersInv, Loaded, LoadRow, Never
  <2>3. ASSUME NEW c \in Clients PROVE Asking(c)'
    BY <1>1, <2>1 DEF PlayersInv, Asking, CallRow, Never
  <2> QED
    BY <1>1, <2>1, <2>2, <2>3 DEF PlayersInv
<1>4. ASSUME NEW c \in Clients, NEW s \in Sessions, LoadSession(c, s) PROVE PlayersInv'
  <2> DEFINE hit == s \in DOMAIN entries /\ now < entries[s]
             r == [pc |-> IF hit THEN "served" ELSE "miss", of |-> s, since |-> now]
  <2>1. call' = [call EXCEPT ![c] = r] /\ UNCHANGED <<revoked, entries, load>>
    BY <1>4 DEF LoadSession
  <2>2. r \in CallRow
    BY <1>1 DEF CallRow
  <2>3. r.pc = "served" /\ revoked[s] # Never => r.since <= revoked[s] + CacheTTL
    BY <1>1 DEF PlayersInv, Loaded, Never
  <2>4. r.of = s /\ r.since = now
    OBVIOUS
  <2> HIDE DEF r, hit
  <2>5. ASSUME NEW d \in Clients PROVE Asking(d)'
    BY <1>1, <2>1, <2>2, <2>3, <2>4 DEF PlayersInv, Asking
  <2>6. \A q \in Sessions : Loaded(q)'
    BY <1>1, <2>1 DEF PlayersInv, Loaded
  <2> QED
    BY <1>1, <2>1, <2>2, <2>5, <2>6 DEF PlayersInv
<1>5. ASSUME NEW c \in Clients, DoChan(c) PROVE PlayersInv'
  <2>1. call' = [call EXCEPT ![c].pc = "wait"] /\ UNCHANGED <<revoked, entries>> /\ call[c].pc = "miss"
        /\ call[c].of \in Sessions
    BY <1>5 DEF DoChan, PlayersInv, Asking
  <2>2. load' \in [Sessions -> LoadRow] /\ \A q \in Sessions : load'[q] = load[q] \/ load'[q].pc = "new"
    BY <1>1, <1>5, <2>1 DEF DoChan, LoadRow
  <2>3. ASSUME NEW d \in Clients PROVE call'[d] \in CallRow /\ Asking(d)'
    BY <1>1, <2>1 DEF PlayersInv, Asking, CallRow
  <2>4. ASSUME NEW q \in Sessions PROVE Loaded(q)'
    BY <1>1, <2>1, <2>2 DEF PlayersInv, Loaded
  <2>5. call' \in [Clients -> CallRow]
    BY <1>1, <2>1 DEF CallRow
  <2> QED
    BY <1>1, <2>1, <2>2, <2>3, <2>4, <2>5 DEF PlayersInv
<1>6. ASSUME NEW s \in Sessions, Begin(s) \/ Query(s) PROVE PlayersInv'
  <2>1. UNCHANGED <<revoked, entries, call>> /\ load' \in [Sessions -> LoadRow] /\ \A q \in Sessions : q # s => load'[q] = load[q]
    <3>1. CASE Begin(s)
      BY <1>1, <3>1 DEF Begin, LoadRow
    <3>2. CASE Query(s)
      BY <1>1, <3>2 DEF Query, LoadRow
    <3> QED
      BY <1>6, <3>1, <3>2
  <2>2. Loaded(s)'
    <3>1. CASE Begin(s)
      <4>1. load'[s].pc = "query" /\ load'[s].start = now
        BY <1>1, <3>1 DEF Begin, LoadRow
      <4> QED
        BY <1>1, <2>1, <4>1 DEF PlayersInv, Loaded, Never
    <3>2. CASE Query(s)
      <4>1. load'[s].pc = "answer" /\ load'[s].start = load[s].start /\ load[s].pc = "query"
            /\ (load'[s].ok => revoked[s] = Never)
        BY <1>1, <3>2 DEF Query, LoadRow
      <4> QED
        BY <1>1, <2>1, <4>1 DEF PlayersInv, Loaded, Never
    <3> QED
      BY <1>6, <3>1, <3>2
  <2>3. ASSUME NEW q \in Sessions PROVE Loaded(q)'
    BY <1>1, <2>1, <2>2 DEF PlayersInv, Loaded
  <2>4. \A c \in Clients : Asking(c)'
    BY <1>1, <2>1 DEF PlayersInv, Asking
  <2> QED
    BY <1>1, <2>1, <2>3, <2>4 DEF PlayersInv
<1>7. ASSUME NEW s \in Sessions, load' = [load EXCEPT ![s] = NoLoad], revoked' = revoked, NEW pc \in {"idle", "served"},
             Answered(s, pc), pc = "served" => load[s].pc = "answer" /\ load[s].ok,
             \/ entries' = entries
             \/ now < Expires(s) /\ PutEntry(s) /\ load[s].pc = "answer" /\ load[s].ok
      PROVE  PlayersInv'
  <2>1. load' \in [Sessions -> LoadRow] /\ load'[s].pc = "none" /\ \A q \in Sessions : q # s => load'[q] = load[q]
    BY <1>1, <1>7 DEF LoadRow, NoLoad
  <2>2. call' \in [Clients -> CallRow] /\ \A c \in Clients : Asking(c)'
    BY <1>1, <1>7, AnsweredCalls
  <2>3. CASE entries' = entries
    <3>1. ASSUME NEW q \in Sessions PROVE Loaded(q)'
      BY <1>1, <1>7, <2>1, <2>3 DEF PlayersInv, Loaded
    <3> QED
      BY <1>1, <1>7, <2>1, <2>2, <2>3, <3>1 DEF PlayersInv
  <2>4. CASE now < Expires(s) /\ PutEntry(s) /\ load[s].pc = "answer" /\ load[s].ok
    <3>1. /\ DOMAIN entries' \subseteq Sessions /\ IsFiniteSet(DOMAIN entries')
          /\ Cardinality(DOMAIN entries') <= MaxEntries
      BY <2>4, KeptFew
    <3>2. Kept \subseteq DOMAIN entries
      BY DEF Kept, Fresh
    <3>3. /\ entries'[s] = Expires(s)
          /\ \A q \in DOMAIN entries' : q # s => q \in DOMAIN entries /\ entries'[q] = entries[q]
      BY <2>4, <3>2 DEF PutEntry
    <3>4. Expires(s) = load[s].start + CacheTTL /\ load[s].start \in Nat
      BY <1>1 DEF Expires, LoadRow
    <3>5. ASSUME NEW q \in Sessions, q # s PROVE Loaded(q)'
      BY <1>1, <1>7, <2>1, <3>3, <3>5 DEF PlayersInv, Loaded
    <3>6. Loaded(s)'
      BY <1>1, <1>7, <2>1, <2>4, <3>3, <3>4 DEF PlayersInv, Loaded, Never
    <3> QED
      BY <1>1, <1>7, <2>1, <2>2, <3>1, <3>5, <3>6 DEF PlayersInv
  <2> QED
    BY <1>7, <2>3, <2>4
<1>8. ASSUME NEW s \in Sessions, Done(s) PROVE PlayersInv'
  <2>1. entries' = entries \/ (now < Expires(s) /\ PutEntry(s))
    BY <1>8 DEF Done, PutEntry
  <2> QED
    BY <1>7, <1>8, <2>1 DEF Done
<1>9. ASSUME NEW s \in Sessions, LoadFails(s) PROVE PlayersInv'
  BY <1>7, <1>9 DEF LoadFails
<1>10. ASSUME NEW c \in Clients, Leaves(c) PROVE PlayersInv'
  <2>1. call' = [call EXCEPT ![c] = NoCall] /\ UNCHANGED <<revoked, entries, load>> /\ NoCall \in CallRow
    BY <1>10 DEF Leaves, NoCall, CallRow
  <2>2. ASSUME NEW d \in Clients PROVE Asking(d)'
    BY <1>1, <2>1 DEF PlayersInv, Asking, NoCall
  <2>3. \A q \in Sessions : Loaded(q)'
    BY <1>1, <2>1 DEF PlayersInv, Loaded
  <2> QED
    BY <1>1, <2>1, <2>2, <2>3 DEF PlayersInv
<1> QED
  BY <1>3, <1>4, <1>5, <1>6, <1>8, <1>9, <1>10 DEF PlayersNext

LEMMA PlayersKeeps == ASSUME PlayersInv, [Next]_edge PROVE PlayersInv'
<1>1. CASE UNCHANGED edge \/ (Next /\ ~Tick /\ ~PlayersNext)
  <2>1. UNCHANGED <<players, now>>
    BY <1>1, LimitsStill, CookiesStill, HumanStill, PipelineStill, ListsStill, ProgramsStill, HealthStill, CallersStill, BlobsStill
    DEF Next, edge, clock
  <2> QED
    BY <2>1 DEF PlayersInv, Loaded, Asking, players
<1> QED
  BY <1>1, PlayersTick, PlayersMove

-----------------------------------------------------------------------------
(* The probe of readiness: what is kept came from a ping in its time, and   *)
(* its end is where the TTL begins.                                        *)
PingRow == [pc : {"none", "new", "query"}, at : Nat, early : BOOLEAN]
ProbeRow == [pc : {"idle", "miss", "wait", "told"}, ok : BOOLEAN, asked : Int]

HealthInv ==
  /\ now \in Nat /\ ready.ended \in Int /\ ready.asked \in Int /\ ready.expires = ready.ended + ReadyTTL
  /\ now < ready.expires => ready.ended <= ready.asked + ReadyTimeout
  /\ ping \in PingRow /\ ~ping.early
  /\ ping.pc = "query" => ping.at <= now /\ now <= ping.at + ReadyTimeout
  /\ probe \in [Clients -> ProbeRow]
  /\ ready.ok \in BOOLEAN
  /\ \A c \in Clients : probe[c].pc = "told" => now <= probe[c].asked + ReadyTTL + ReadyTimeout

LEMMA HealthStart == Init => HealthInv
<1> SUFFICES ASSUME Init PROVE HealthInv
  OBVIOUS
<1>1. NoProbe \in ProbeRow /\ NoProbe.pc = "idle"
      /\ NoPing \in PingRow /\ NoPing.pc = "none" /\ ~NoPing.early
  BY DEF NoProbe, NoPing, ProbeRow, PingRow
<1>2. now = 0 /\ HealthInit /\ ReadyTTL \in Nat
  BY HealthAssumption DEF Init, ClockInit
<1> QED
  BY <1>1, <1>2 DEF HealthInit, HealthInv

LEMMA HealthMove == ASSUME HealthInv, HealthNext PROVE HealthInv'
<1>1. /\ now' = now /\ now \in Nat /\ ReadyTTL \in Nat /\ ReadyTimeout \in Nat /\ probe \in [Clients -> ProbeRow]
      /\ ping.pc \in {"none", "new", "query"} /\ ping.at \in Nat /\ ~ping.early
  BY HealthStill, HealthAssumption DEF HealthInv, PingRow
<1>2. NoProbe \in ProbeRow /\ NoProbe.pc = "idle"
      /\ NoPing \in PingRow /\ NoPing.pc = "none" /\ ~NoPing.early
  BY DEF NoProbe, NoPing, ProbeRow, PingRow
<1>3. ASSUME NEW ok \in BOOLEAN, NEW asked \in Int, now <= asked + ReadyTTL + ReadyTimeout,
             Answer(ok, asked)
      PROVE  /\ probe' \in [Clients -> ProbeRow]
             /\ \A c \in Clients : probe'[c].pc = "told" => now <= probe'[c].asked + ReadyTTL + ReadyTimeout
  <2>1. Told(ok, asked) \in ProbeRow /\ Told(ok, asked).asked = asked
    BY DEF Told, ProbeRow
  <2>2. probe' \in [Clients -> ProbeRow]
    BY <1>1, <1>3, <2>1 DEF Answer
  <2>3. ASSUME NEW c \in Clients, probe'[c].pc = "told" PROVE now <= probe'[c].asked + ReadyTTL + ReadyTimeout
    <3>1. probe'[c] = Told(ok, asked) \/ probe'[c] = probe[c]
      BY <1>3 DEF Answer
    <3> QED
      BY <1>3, <2>1, <2>3, <3>1 DEF HealthInv
  <2> QED
    BY <2>2, <2>3
<1>4. CASE Wavers
  BY <1>1, <1>4 DEF Wavers, HealthInv
<1>5. CASE CheckAgain
  <2>1. ready' = ready
    BY <1>5 DEF CheckAgain
  <2>2. CASE StillFresh
    <3>1. Answer(ready.ok, ready.asked) /\ ping' = NoPing
      BY <1>5, <2>2 DEF CheckAgain, LooksAgain
    <3>2. now <= ready.asked + ReadyTTL + ReadyTimeout /\ ready.ok \in BOOLEAN /\ ready.asked \in Int
      BY <1>1, <2>2 DEF StillFresh, HealthInv
    <3>3. /\ probe' \in [Clients -> ProbeRow]
          /\ \A c \in Clients : probe'[c].pc = "told" => now <= probe'[c].asked + ReadyTTL + ReadyTimeout
      BY <1>3, <3>1, <3>2
    <3> QED
      BY <1>1, <1>2, <2>1, <3>1, <3>3 DEF HealthInv
  <2>3. CASE ~StillFresh
    <3>1. ping' = [pc |-> "query", at |-> now, early |-> now < ready.ended + ReadyTTL] /\ probe' = probe
      BY <1>5, <2>3 DEF CheckAgain, LooksAgain
    <3>2. (now < ready.ended + ReadyTTL) = FALSE
      BY <1>1, <2>3 DEF StillFresh, HealthInv
    <3> QED
      <4>1. ping' \in PingRow
        BY <1>1, <3>1, <3>2 DEF PingRow
      <4>2. ~ping'.early
        BY <3>1, <3>2
      <4>3. ping'.pc = "query" => ping'.at <= now /\ now <= ping'.at + ReadyTimeout
        BY <1>1, <3>1
      <4> QED
        BY <1>1, <2>1, <3>1, <4>1, <4>2, <4>3 DEF HealthInv
  <2> QED
    BY <2>2, <2>3
<1>6. ASSUME NEW ok \in BOOLEAN, Pinged(ok) PROVE HealthInv'
  <2>1. /\ ready' = [ok |-> ok, expires |-> now + ReadyTTL, asked |-> ping.at, ended |-> now]
        /\ Answer(ok, ping.at) /\ ping' = NoPing /\ ping.at <= now /\ now <= ping.at + ReadyTimeout
    BY <1>6 DEF Pinged, HealthInv
  <2>2. /\ probe' \in [Clients -> ProbeRow]
        /\ \A c \in Clients : probe'[c].pc = "told" => now <= probe'[c].asked + ReadyTTL + ReadyTimeout
    BY <1>1, <1>3, <2>1
  <2> QED
    <3>1. ready'.ok \in BOOLEAN /\ ready'.ended = now /\ ready'.asked = ping.at /\ ready'.expires = now + ReadyTTL
      BY <2>1
    <3>2. ping' \in PingRow /\ ~ping'.early /\ ping'.pc = "none"
      BY <1>2, <2>1
    <3> QED
      BY <1>1, <2>1, <2>2, <3>1, <3>2 DEF HealthInv
<1>7. ASSUME NEW c \in Clients, NEW r \in ProbeRow, probe' = [probe EXCEPT ![c] = r], ready' = ready,
             ping' = ping \/ ping' = [NoPing EXCEPT !.pc = "new"],
             r.pc = "told" => now <= r.asked + ReadyTTL + ReadyTimeout
      PROVE  HealthInv'
  <2>1. [NoPing EXCEPT !.pc = "new"] \in PingRow /\ [NoPing EXCEPT !.pc = "new"].pc = "new"
        /\ ~[NoPing EXCEPT !.pc = "new"].early
    BY DEF NoPing, PingRow
  <2>2. probe' \in [Clients -> ProbeRow] /\ probe'[c] = r /\ \A d \in Clients : d # c => probe'[d] = probe[d]
    BY <1>1, <1>7
  <2>3. \A d \in Clients : probe'[d].pc = "told" => now <= probe'[d].asked + ReadyTTL + ReadyTimeout
    BY <1>7, <2>2 DEF HealthInv
  <2> QED
    BY <1>1, <1>7, <2>1, <2>2, <2>3 DEF HealthInv
<1>8. ASSUME NEW c \in Clients, Probe(c) PROVE HealthInv'
  <2>1. CASE StillFresh
    <3>1. Told(ready.ok, ready.asked) \in ProbeRow /\ Told(ready.ok, ready.asked).asked = ready.asked
      BY DEF Told, HealthInv, ProbeRow
    <3>2. now <= ready.asked + ReadyTTL + ReadyTimeout
      BY <1>1, <2>1 DEF StillFresh, HealthInv
    <3>3. probe' = [probe EXCEPT ![c] = Told(ready.ok, ready.asked)] /\ UNCHANGED <<ready, ping>>
      BY <1>8, <2>1 DEF Probe
    <3> QED
      BY <1>7, <3>1, <3>2, <3>3
  <2>2. CASE ~StillFresh
    <3>1. [NoProbe EXCEPT !.pc = "miss"] \in ProbeRow
      BY <1>2 DEF ProbeRow
    <3>1a. [NoProbe EXCEPT !.pc = "miss"].pc = "miss"
      BY DEF NoProbe
    <3>2. probe' = [probe EXCEPT ![c] = [NoProbe EXCEPT !.pc = "miss"]] /\ UNCHANGED <<ready, ping>>
      BY <1>8, <2>2 DEF Probe
    <3> QED
      BY <1>7, <3>1, <3>1a, <3>2
  <2> QED
    BY <2>1, <2>2
<1>9. ASSUME NEW c \in Clients, Joins(c) PROVE HealthInv'
  <2>1. [probe[c] EXCEPT !.pc = "wait"] \in ProbeRow /\ [probe[c] EXCEPT !.pc = "wait"].pc = "wait"
    BY <1>1 DEF ProbeRow
  <2>2. probe' = [probe EXCEPT ![c] = [probe[c] EXCEPT !.pc = "wait"]] /\ ready' = ready
        /\ (ping' = ping \/ ping' = [NoPing EXCEPT !.pc = "new"])
    BY <1>9 DEF Joins
  <2> QED
    BY <1>7, <2>1, <2>2
<1>10. ASSUME NEW c \in Clients, Leave(c) PROVE HealthInv'
  BY <1>2, <1>7, <1>10 DEF Leave
<1> QED
  BY <1>4, <1>5, <1>6, <1>8, <1>9, <1>10 DEF HealthNext

LEMMA HealthKeeps == ASSUME HealthInv, [Next]_edge PROVE HealthInv'
<1>1. CASE UNCHANGED edge \/ (Next /\ ~Tick /\ ~HealthNext)
  <2>1. UNCHANGED <<health, now>>
    BY <1>1, LimitsStill, CookiesStill, HumanStill, PlayersStill, PipelineStill, ListsStill, ProgramsStill, CallersStill, BlobsStill
    DEF Next, edge, clock
  <2> QED
    BY <2>1 DEF HealthInv, health
<1>2. CASE Tick
  <2>1. now' = now + Micro /\ Micro \in Nat \ {0} /\ HealthInTime /\ UNCHANGED health /\ ReadyTTL \in Nat
    BY <1>2, ClockAssumption, HealthAssumption DEF Tick, Passes
  <2>2. ping.pc = "query" => ping.at <= now' /\ now' <= ping.at + ReadyTimeout
    BY <2>1 DEF HealthInTime, HealthInv, PingRow
  <2>3. now' < ready.expires => now < ready.expires
    BY <2>1 DEF HealthInv
  <2> QED
    <3>1. now' \in Nat /\ UNCHANGED <<ready, ping, probe>> /\ \A c \in Clients : probe[c].pc # "told"
      BY <2>1 DEF HealthInv, HealthInTime, health
    <3> QED
      BY <2>2, <2>3, <3>1 DEF HealthInv
<1> QED
  BY <1>1, <1>2, HealthMove

LEMMA HealthRarely == HealthInv => PingedRarely
  BY DEF HealthInv, PingedRarely

-----------------------------------------------------------------------------
(* Files: a writer who is alone leaves the two files of its key together,   *)
(* and while its second file is due nobody else writes there.               *)
PutRow == [key : Keys, type : Types]
IoRow == [op : Writers \cup {"get", "none"}, pc : {"idle", "bytes", "type"}, key : Keys, n : Nat, alone : BOOLEAN]

Agrees(k) == types[k] = IF bytes[k] = 0 THEN "" ELSE puts[bytes[k]].type

OfItsKey(n, k) == n \in DOMAIN puts /\ puts[n].key = k

Writing(c) ==
  LET k == io[c].key IN
  /\ io[c].op = "put" => OfItsKey(io[c].n, k)
  /\ io[c].op \in Writers => io[c].pc \in {"bytes", "type"}
  /\ io[c].op \in Writers /\ io[c].alone =>
       /\ AtWork(k) = {c}
       /\ io[c].pc = "type" => bytes[k] = IF io[c].op = "put" THEN io[c].n ELSE 0
  /\ io[c].op \in Writers /\ ~io[c].alone => k \in apart

BlobsInv ==
  /\ bytes \in [Keys -> Nat] /\ types \in [Keys -> Types \cup {""}] /\ inner \in BOOLEAN
  /\ puts \in Seq(PutRow) /\ io \in [Clients -> IoRow] /\ apart \subseteq Keys
  /\ \A k \in Keys : bytes[k] # 0 => OfItsKey(bytes[k], k)
  /\ \A c \in Clients : Writing(c)
  /\ \A k \in Keys \ apart : Agrees(k) \/ \E c \in AtWork(k) : io[c].pc = "type"
  /\ inner => bytes[Outer] = 0

LEMMA BlobsWhole == BlobsInv => FilesWhole
  BY DEF BlobsInv, FilesWhole, OfItsKey, Agrees

LEMMA BlobsStart == Init => BlobsInv
<1> SUFFICES ASSUME Init PROVE BlobsInv
  OBVIOUS
<1>1. Calm \in IoRow /\ Calm.op = "none" /\ Outer \in Keys
  BY DEF Calm, IoRow, Keys, Writers
<1>2. BlobsInit
  BY DEF Init
<1> QED
  <2>1. \A c \in Clients : io[c].op = "none"
    <3>1. \A c \in Clients : io[c] = Calm
      BY <1>2 DEF BlobsInit
    <3> QED
      BY <1>1, <3>1
  <2>2. \A c \in Clients : Writing(c)
    BY <2>1 DEF Writing, Writers
  <2>3. \A k \in Keys : bytes[k] = 0 /\ types[k] = ""
    BY <1>2 DEF BlobsInit
  <2>4. io \in [Clients -> IoRow]
    BY <1>1, <1>2 DEF BlobsInit
  <2>6. puts \in Seq(PutRow)
    BY <1>2, EmptySeq DEF BlobsInit
  <2>5. bytes \in [Keys -> Nat] /\ types \in [Keys -> Types \cup {""}] /\ inner \in BOOLEAN /\ apart \subseteq Keys
    BY <1>2 DEF BlobsInit
  <2> QED
    BY <1>1, <2>2, <2>3, <2>4, <2>5, <2>6 DEF BlobsInv, Agrees

(* A call ends, the two files of its key being together, or known not to.   *)
LEMMA CallEnds ==
  ASSUME BlobsInv, NEW c \in Clients, io' = [io EXCEPT ![c] = Calm], UNCHANGED <<bytes, puts>>,
         types' \in [Keys -> Types \cup {""}], inner' \in BOOLEAN, inner' => bytes[Outer] = 0, apart' \subseteq Keys,
         \A k \in Keys : k # io[c].key => types'[k] = types[k],
         \A k \in apart \ apart' : k = io[c].key /\ io[c].op \in Writers /\ io[c].alone,
         NEW key, key = io[c].key,
         key \notin apart' =>
           \/ Agrees(key)'
           \/ key \notin apart /\ types' = types /\ (io[c].op \in Writers => io[c].pc # "type")
  PROVE  BlobsInv'
<1>1. Calm \in IoRow /\ Calm.op = "none" /\ "none" \notin Writers
  BY DEF Calm, IoRow, Keys, Writers
<1>2. io \in [Clients -> IoRow] /\ io' \in [Clients -> IoRow] /\ io[c].key \in Keys
  BY <1>1 DEF BlobsInv, IoRow
<1>4. io'[c].op = "none" /\ \A d \in Clients : d # c => io'[d] = io[d]
  BY <1>1, <1>2
<1>3. ASSUME NEW k PROVE AtWork(k)' = AtWork(k) \ {c}
  BY <1>1, <1>4 DEF AtWork
<1>5. ASSUME NEW d \in Clients PROVE Writing(d)'
  <2>1. CASE d = c
    BY <1>1, <1>4, <2>1 DEF Writing
  <2>2. CASE d # c
    <3>1. Writing(d) /\ io'[d] = io[d]
      BY <1>4, <2>2 DEF BlobsInv
    <3>2. io[d].op = "put" => OfItsKey(io[d].n, io[d].key)'
      BY <3>1 DEF Writing, OfItsKey
    <3>3. io[d].op \in Writers /\ io[d].alone => AtWork(io[d].key)' = {d}
      BY <1>3, <2>2, <3>1 DEF Writing
    <3>4. ASSUME io[d].op \in Writers, ~io[d].alone PROVE io[d].key \in apart'
      <4>1. io[d].key \in apart /\ d \in AtWork(io[d].key)
        BY <3>1, <3>4 DEF Writing, AtWork
      <4>2. io[c].op \in Writers /\ io[c].alone => AtWork(io[c].key) = {c}
        BY DEF BlobsInv, Writing
      <4> QED
        BY <2>2, <4>1, <4>2
    <3> QED
      BY <3>1, <3>2, <3>3, <3>4 DEF Writing
  <2> QED
    BY <2>1, <2>2
<1>6. ASSUME NEW k \in Keys \ apart' PROVE Agrees(k)' \/ \E d \in AtWork(k)' : io'[d].pc = "type"
  <2>1. CASE k = key /\ Agrees(key)'
    BY <2>1
  <2>2. CASE k \notin apart /\ types'[k] = types[k] /\ (c \in AtWork(k) => io[c].pc # "type")
    <3>1. CASE Agrees(k)
      BY <2>2, <3>1 DEF Agrees
    <3>2. CASE \E d \in AtWork(k) : io[d].pc = "type"
      <4>1. PICK d \in AtWork(k) : io[d].pc = "type" /\ d # c
        BY <2>2, <3>2
      <4>2. d \in AtWork(k)' /\ io'[d] = io[d]
        BY <1>3, <1>4, <4>1 DEF AtWork
      <4> QED
        BY <4>1, <4>2
    <3> QED
      BY <2>2, <3>1, <3>2 DEF BlobsInv
  <2> QED
    BY <2>1, <2>2 DEF AtWork
<1>7. \A k \in Keys : bytes[k] # 0 => OfItsKey(bytes[k], k)'
  BY DEF BlobsInv, OfItsKey
<1> QED
  BY <1>2, <1>5, <1>6, <1>7 DEF BlobsInv

(* A writer has done its first file.                                       *)
LEMMA FirstFile ==
  ASSUME BlobsInv, NEW c \in Clients, io[c].op \in Writers, io[c].pc = "bytes", Moves(c),
         bytes' = [bytes EXCEPT ![io[c].key] = IF io[c].op = "put" THEN io[c].n ELSE 0],
         UNCHANGED <<types, puts, apart>>, inner' \in BOOLEAN, inner' => bytes'[Outer] = 0
  PROVE  BlobsInv'
<1> DEFINE r == [io[c] EXCEPT !.pc = "type"]
<1>1. io \in [Clients -> IoRow] /\ io[c] \in IoRow /\ io[c].key \in Keys /\ io[c].n \in Nat /\ Writing(c)
      /\ bytes \in [Keys -> Nat]
  BY DEF BlobsInv, IoRow
<1>2. r \in IoRow /\ r.op = io[c].op /\ r.key = io[c].key /\ r.n = io[c].n /\ r.alone = io[c].alone /\ r.pc = "type"
  BY <1>1 DEF IoRow
<1>3. io' = [io EXCEPT ![c] = r]
  BY DEF Moves
<1> HIDE DEF r
<1>5. io' \in [Clients -> IoRow] /\ io'[c] = r /\ \A d \in Clients : d # c => io'[d] = io[d]
  BY <1>1, <1>2, <1>3
<1>4. ASSUME NEW k PROVE AtWork(k)' = AtWork(k)
  BY <1>2, <1>5 DEF AtWork
<1>6. bytes' \in [Keys -> Nat] /\ bytes'[io[c].key] = (IF io[c].op = "put" THEN io[c].n ELSE 0)
      /\ \A k \in Keys : k # io[c].key => bytes'[k] = bytes[k]
  BY <1>1
<1>7. ASSUME NEW d \in Clients PROVE Writing(d)'
  <2>1. CASE d = c
    <3>1. PICK k, n : k = io[c].key /\ n = io[c].n /\ k = io'[c].key /\ n = io'[c].n
      BY <1>2, <1>5
    <3>2. io[c].op = "put" => OfItsKey(n, k)'
      BY <1>1, <3>1 DEF Writing, OfItsKey
    <3>3. io[c].alone => AtWork(k)' = {c}
      BY <1>1, <1>4, <3>1 DEF Writing
    <3> QED
      BY <1>1, <1>2, <1>5, <1>6, <2>1, <3>1, <3>2, <3>3 DEF Writing
  <2>2. CASE d # c
    <3>1. Writing(d) /\ io'[d] = io[d] /\ io[d].key \in Keys
      BY <1>1, <1>5, <2>2 DEF BlobsInv, IoRow
    <3>2. io[d].op = "put" => OfItsKey(io[d].n, io[d].key)'
      BY <3>1 DEF Writing, OfItsKey
    <3>3. ASSUME io[d].op \in Writers, io[d].alone PROVE AtWork(io[d].key)' = {d} /\ bytes'[io[d].key] = bytes[io[d].key]
      <4>1. AtWork(io[d].key) = {d}
        BY <3>1, <3>3 DEF Writing
      <4>2. io[d].key # io[c].key
        BY <2>2, <4>1 DEF AtWork
      <4> QED
        BY <1>4, <1>6, <3>1, <4>1, <4>2
    <3> QED
      BY <3>1, <3>2, <3>3 DEF Writing
  <2> QED
    BY <2>1, <2>2
<1>8. ASSUME NEW k \in Keys \ apart' PROVE Agrees(k)' \/ \E d \in AtWork(k)' : io'[d].pc = "type"
  <2>1. CASE k = io[c].key
    <3>1. c \in AtWork(k)' /\ io'[c].pc = "type"
      BY <1>2, <1>4, <1>5, <2>1 DEF AtWork
    <3> QED
      BY <3>1
  <2>2. CASE k # io[c].key
    <3>1. CASE Agrees(k)
      BY <1>6, <2>2, <3>1 DEF Agrees
    <3>2. CASE \E d \in AtWork(k) : io[d].pc = "type"
      <4>1. PICK d \in AtWork(k) : io[d].pc = "type"
        BY <3>2
      <4>2. d \in Clients /\ d # c
        BY <4>1 DEF AtWork
      <4>3. d \in AtWork(k)' /\ io'[d].pc = "type"
        BY <1>4, <1>5, <4>1, <4>2
      <4> QED
        BY <4>3
    <3> QED
      BY <3>1, <3>2 DEF BlobsInv
  <2> QED
    BY <2>1, <2>2
<1>9. ASSUME NEW k \in Keys, bytes'[k] # 0 PROVE bytes'[k] \in DOMAIN puts' /\ puts'[bytes'[k]].key = k
  <2>1. CASE k = io[c].key
    BY <1>1, <1>6, <1>9, <2>1 DEF OfItsKey, Writing
  <2>2. CASE k # io[c].key
    BY <1>6, <1>9, <2>2 DEF BlobsInv, OfItsKey
  <2> QED
    BY <2>1, <2>2
<1> QED
  BY <1>5, <1>6, <1>7, <1>8, <1>9 DEF BlobsInv, OfItsKey

(* A call begins; another writer of the key at work knows of it.            *)
LEMMA CallBegins ==
  ASSUME BlobsInv, NEW c \in Clients, NEW op \in Writers \cup {"get"}, NEW k \in Keys, NEW n \in Nat, Begins(c, op, k, n),
         puts' \in Seq(PutRow),
         \A m \in DOMAIN puts : m \in DOMAIN puts' /\ puts'[m] = puts[m],
         op = "put" => n \in DOMAIN puts' /\ puts'[n].key = k
  PROVE  BlobsInv'
<1> DEFINE r == [op |-> op, pc |-> "bytes", key |-> k, n |-> n, alone |-> AtWork(k) = {}]
<1>1. io \in [Clients -> IoRow] /\ io[c].op = "none" /\ "none" \notin Writers /\ "get" \notin Writers /\ "put" \in Writers
      /\ apart \subseteq Keys
  <2>1. io[c] = Calm
    BY DEF Begins
  <2>2. io[c].op = "none"
    BY <2>1 DEF Calm
  <2>3. io \in [Clients -> IoRow] /\ apart \subseteq Keys
    BY DEF BlobsInv
  <2> QED
    BY <2>2, <2>3 DEF Writers
<1>2. r \in IoRow /\ r.op = op /\ r.key = k /\ r.n = n /\ r.alone = (AtWork(k) = {}) /\ r.pc = "bytes"
  BY DEF IoRow
<1>3. /\ io'[c] = r
      /\ \A d \in Clients \ {c} : io'[d] = IF op \in Writers /\ d \in AtWork(k) THEN [io[d] EXCEPT !.alone = FALSE] ELSE io[d]
      /\ io' = [d \in Clients |-> io'[d]]
      /\ apart' = (IF op \in Writers /\ AtWork(k) # {} THEN apart \cup {k} ELSE apart)
      /\ UNCHANGED <<bytes, types, inner>>
  BY DEF Begins
<1> HIDE DEF r
<1>4. ASSUME NEW d \in Clients \ {c}
      PROVE  /\ io'[d] \in IoRow /\ io'[d].op = io[d].op /\ io'[d].pc = io[d].pc /\ io'[d].key = io[d].key /\ io'[d].n = io[d].n
             /\ IF op \in Writers /\ d \in AtWork(k) THEN ~io'[d].alone ELSE io'[d] = io[d]
  <2>1. io[d] \in IoRow
    BY <1>1
  <2>2. [io[d] EXCEPT !.alone = FALSE] \in IoRow
    BY <2>1 DEF IoRow
  <2> QED
    BY <1>3, <2>1, <2>2 DEF IoRow
<1>5. io' \in [Clients -> IoRow]
  BY <1>2, <1>3, <1>4
<1>6. ASSUME NEW q PROVE AtWork(q)' = AtWork(q) \cup (IF op \in Writers /\ k = q THEN {c} ELSE {})
  <2>1. ASSUME NEW d \in Clients
        PROVE (io'[d].op \in Writers /\ io'[d].key = q)
                <=> (io[d].op \in Writers /\ io[d].key = q) \/ (d = c /\ op \in Writers /\ k = q)
    BY <1>1, <1>2, <1>3, <1>4
  <2> QED
    BY <2>1 DEF AtWork
<1>7. ASSUME NEW d \in Clients PROVE Writing(d)'
  <2>1. CASE d = c
    <3>1. op \in Writers /\ AtWork(k) = {} => AtWork(k)' = {c}
      BY <1>6
    <3>2. op = "put" => OfItsKey(n, k)'
      BY DEF OfItsKey
    <3>3. PICK m, q : m = n /\ q = k /\ m = io'[c].n /\ q = io'[c].key
      BY <1>2, <1>3
    <3> QED
      BY <1>2, <1>3, <2>1, <3>1, <3>2, <3>3 DEF Writing
  <2>2. CASE d # c
    <3>1. Writing(d) /\ io[d] \in IoRow
      BY <1>1 DEF BlobsInv
    <3>2. PICK q : q = io[d].key /\ q = io'[d].key /\ q \in Keys
      BY <1>4, <2>2, <3>1 DEF IoRow
    <3>3. PICK m : m = io[d].n /\ m = io'[d].n
      BY <1>4, <2>2
    <3>4. io[d].op = "put" => OfItsKey(m, q)'
      BY <3>1, <3>2, <3>3 DEF Writing, OfItsKey
    <3>5. CASE op \in Writers /\ d \in AtWork(k)
      <4>1. q = k /\ k \in apart' /\ ~io'[d].alone
        BY <1>3, <1>4, <2>2, <3>2, <3>5 DEF AtWork
      <4> QED
        BY <1>3, <1>4, <2>2, <3>1, <3>2, <3>3, <3>4, <4>1 DEF Writing
    <3>6. CASE ~(op \in Writers /\ d \in AtWork(k))
      <4>1. io'[d] = io[d]
        BY <1>4, <2>2, <3>6
      <4>2. ASSUME io[d].op \in Writers, io[d].alone PROVE AtWork(q)' = {d}
        <5>1. AtWork(q) = {d}
          BY <3>1, <3>2, <4>2 DEF Writing
        <5> QED
          BY <1>6, <3>6, <5>1
      <4>3. io[d].op \in Writers /\ ~io[d].alone => q \in apart'
        BY <1>3, <3>1, <3>2 DEF Writing
      <4> QED
        BY <1>3, <3>1, <3>2, <3>3, <3>4, <4>1, <4>2, <4>3 DEF Writing
    <3> QED
      BY <3>5, <3>6
  <2> QED
    BY <2>1, <2>2
<1>8. ASSUME NEW q \in Keys \ apart' PROVE Agrees(q)' \/ \E d \in AtWork(q)' : io'[d].pc = "type"
  <2>1. q \notin apart
    BY <1>3
  <2>2. CASE Agrees(q)
    BY <1>3, <2>2 DEF Agrees, BlobsInv, OfItsKey
  <2>3. CASE \E d \in AtWork(q) : io[d].pc = "type"
    <3>1. PICK d \in AtWork(q) : io[d].pc = "type"
      BY <2>3
    <3>2. d \in Clients \ {c}
      BY <1>1, <3>1 DEF AtWork
    <3>3. d \in AtWork(q)' /\ io'[d].pc = "type"
      BY <1>4, <1>6, <3>1, <3>2
    <3> QED
      BY <3>3
  <2> QED
    BY <2>1, <2>2, <2>3 DEF BlobsInv
<1>9. ASSUME NEW q \in Keys, bytes'[q] # 0 PROVE bytes'[q] \in DOMAIN puts' /\ puts'[bytes'[q]].key = q
  BY <1>3, <1>9 DEF BlobsInv, OfItsKey
<1> QED
  BY <1>3, <1>5, <1>7, <1>8, <1>9 DEF BlobsInv, OfItsKey

LEMMA BlobsMove == ASSUME BlobsInv, BlobsNext PROVE BlobsInv'
<1>1. /\ io \in [Clients -> IoRow] /\ puts \in Seq(PutRow) /\ types \in [Keys -> Types \cup {""}]
      /\ bytes \in [Keys -> Nat] /\ inner \in BOOLEAN /\ apart \subseteq Keys /\ (inner => bytes[Outer] = 0)
      /\ "put" \in Writers /\ "delete" \in Writers /\ "get" \notin Writers /\ "none" \notin Writers
      /\ Outer \in Keys /\ Inner \in Keys
      /\ \A c \in Clients : Writing(c) /\ io[c].key \in Keys /\ io[c].n \in Nat /\ io[c].alone \in BOOLEAN
  BY DEF BlobsInv, Writers, IoRow, Keys
<1>2. ASSUME NEW c \in Clients, NEW k \in Keys, NEW t \in Types, PutFile(c, k, t) PROVE BlobsInv'
  <2> DEFINE p == [key |-> k, type |-> t]
  <2>1. p \in PutRow /\ p.key = k
    BY DEF PutRow
  <2> HIDE DEF p
  <2>2. puts' = Append(puts, p) /\ Begins(c, "put", k, Len(puts) + 1)
    BY <1>2 DEF PutFile, p
  <2>3. /\ puts' \in Seq(PutRow) /\ Len(puts) \in Nat
        /\ \A m \in DOMAIN puts : m \in DOMAIN puts' /\ puts'[m] = puts[m]
        /\ Len(puts) + 1 \in DOMAIN puts' /\ puts'[Len(puts) + 1] = p
    <3>1. puts \in Seq(PutRow) /\ p \in PutRow /\ puts' = Append(puts, p)
      BY <1>1, <2>1, <2>2
    <3>2. DOMAIN puts = 1..Len(puts) /\ Len(puts) \in Nat
      BY <3>1, LenProperties
    <3>3. /\ puts' \in Seq(PutRow) /\ Len(puts') = Len(puts) + 1 /\ puts'[Len(puts) + 1] = p
          /\ \A i \in 1..Len(puts) : puts'[i] = puts[i]
      BY <3>1, AppendProperties
    <3>4. DOMAIN puts' = 1..Len(puts')
      BY <3>3, LenProperties
    <3> QED
      BY <3>2, <3>3, <3>4
  <2>4. PICK n \in Nat : n = Len(puts) + 1
    BY <2>3
  <2>5. Begins(c, "put", k, n)
    BY <2>2, <2>4 DEF Begins
  <2>6. n \in DOMAIN puts' /\ puts'[n].key = k
    BY <2>1, <2>3, <2>4
  <2> QED
    BY <1>1, <2>3, <2>5, <2>6, CallBegins
<1>3. ASSUME NEW c \in Clients, NEW k \in Keys, GetFile(c, k) \/ DeleteFile(c, k) PROVE BlobsInv'
  BY <1>1, <1>3, CallBegins DEF GetFile, DeleteFile
<1>4. ASSUME NEW c \in Clients, WriteBytes(c) \/ RemoveBytes(c) PROVE BlobsInv'
  <2>1. /\ io[c].op \in Writers /\ io[c].pc = "bytes" /\ Moves(c) /\ UNCHANGED <<types, puts, apart>>
        /\ bytes' = [bytes EXCEPT ![io[c].key] = IF io[c].op = "put" THEN io[c].n ELSE 0]
        /\ inner' \in BOOLEAN
    BY <1>1, <1>4 DEF WriteBytes, RemoveBytes, Stands
  <2>2. inner' => bytes'[Outer] = 0
    <3>1. CASE WriteBytes(c)
      BY <1>1, <3>1 DEF WriteBytes, Blocked, Reached, Outer, Inner
    <3>2. CASE RemoveBytes(c)
      BY <1>1, <3>2 DEF RemoveBytes
    <3> QED
      BY <1>4, <3>1, <3>2
  <2> QED
    BY <2>1, <2>2, FirstFile
<1>5. ASSUME NEW c \in Clients, WriteType(c) \/ RemoveType(c) PROVE BlobsInv'
  <2>1. PICK k \in Keys : k = io[c].key
    BY <1>1
  <2>2. /\ io[c].op \in Writers /\ io[c].pc = "type" /\ Finishes(c) /\ UNCHANGED <<bytes, puts, inner>>
        /\ apart' = (IF io[c].alone THEN apart \ {k} ELSE apart) /\ Writing(c)
        /\ types' = [types EXCEPT ![k] = IF io[c].op = "put" THEN puts[io[c].n].type ELSE ""]
    BY <1>1, <1>5, <2>1 DEF WriteType, RemoveType, Stands, Settles
  <2>3. io[c].op = "put" => io[c].n \in DOMAIN puts /\ puts[io[c].n].type \in Types /\ io[c].n # 0
    <3>1. io[c].op = "put" => io[c].n \in DOMAIN puts
      BY <2>2 DEF Writing, OfItsKey
    <3>2. puts \in Seq(PutRow)
      BY <1>1
    <3>3. DOMAIN puts = 1..Len(puts)
      BY <3>2, LenProperties
    <3>4. ASSUME NEW n \in 1..Len(puts) PROVE puts[n] \in PutRow
      BY <3>2, ElementOfSeq
    <3> QED
      BY <3>1, <3>3, <3>4 DEF PutRow
  <2>4. types' \in [Keys -> Types \cup {""}]
    BY <1>1, <2>2, <2>3
  <2>5. ASSUME k \notin apart' PROVE Agrees(k)'
    <3>1. io[c].alone
      BY <2>1, <2>2, <2>5 DEF Writing
    <3>2. bytes[k] = IF io[c].op = "put" THEN io[c].n ELSE 0
      BY <2>1, <2>2, <3>1 DEF Writing
    <3> QED
      BY <1>1, <2>1, <2>2, <2>3, <3>2 DEF Agrees
  <2>6. /\ apart' \subseteq Keys /\ inner' \in BOOLEAN /\ (inner' => bytes[Outer] = 0)
        /\ \A q \in Keys : q # io[c].key => types'[q] = types[q]
        /\ \A q \in apart \ apart' : q = io[c].key /\ io[c].op \in Writers /\ io[c].alone
    BY <1>1, <2>1, <2>2
  <2> QED
    BY <2>1, <2>2, <2>4, <2>5, <2>6, CallEnds DEF Finishes
<1>6. ASSUME NEW c \in Clients, PutFails(c) \/ DeleteFails(c) PROVE BlobsInv'
  <2>1. PICK k \in Keys : k = io[c].key
    BY <1>1
  <2>2. /\ io[c].op \in Writers /\ Finishes(c) /\ UNCHANGED <<bytes, types, puts>> /\ inner' \in BOOLEAN
        /\ apart' = IF io[c].pc = "type" THEN apart \cup {k} ELSE apart
    BY <1>1, <1>6, <2>1 DEF PutFails, DeleteFails
  <2>3. inner' => bytes[Outer] = 0
    BY <1>1, <1>6 DEF PutFails, DeleteFails, Reached
  <2> QED
    BY <1>1, <2>1, <2>2, <2>3, CallEnds DEF Finishes
<1>7. ASSUME NEW c \in Clients, NotFound(c) \/ ReadType(c) PROVE BlobsInv'
  <2>1. PICK k \in Keys : k = io[c].key
    BY <1>1
  <2>2. io[c].op = "get" /\ Finishes(c) /\ UNCHANGED <<bytes, types, puts, inner, apart>>
    BY <1>7 DEF NotFound, ReadType, Stands
  <2>3. CASE Agrees(k) \/ k \in apart
    <3>1. Agrees(k) => Agrees(k)'
      BY <2>2 DEF Agrees
    <3> QED
      BY <1>1, <2>1, <2>2, <2>3, <3>1, CallEnds DEF Finishes
  <2>4. CASE k \notin apart
    BY <1>1, <2>1, <2>2, <2>4, CallEnds DEF Finishes
  <2> QED
    BY <2>3, <2>4
<1>8. ASSUME NEW c \in Clients, Open(c) PROVE BlobsInv'
  <2> DEFINE r == [io[c] EXCEPT !.pc = "type", !.n = bytes[io[c].key]]
  <2>1. io[c].op = "get" /\ io' = [io EXCEPT ![c] = r] /\ UNCHANGED <<bytes, types, inner, puts, apart>>
    BY <1>8 DEF Open, Stands
  <2>2. io[c] \in IoRow /\ bytes[io[c].key] \in Nat
    BY <1>1
  <2>3. r \in IoRow /\ r.op = "get"
    BY <2>1, <2>2 DEF IoRow
  <2> HIDE DEF r
  <2>4. io' \in [Clients -> IoRow] /\ io'[c].op = "get" /\ \A d \in Clients : d # c => io'[d] = io[d]
    BY <1>1, <2>1, <2>3
  <2>5. ASSUME NEW k PROVE AtWork(k)' = AtWork(k)
    BY <1>1, <2>1, <2>4 DEF AtWork
  <2>6. ASSUME NEW d \in Clients PROVE Writing(d)'
    <3>1. CASE d = c
      BY <1>1, <2>4, <3>1 DEF Writing
    <3>2. CASE d # c
      BY <1>1, <2>1, <2>4, <2>5, <3>2 DEF Writing, OfItsKey
    <3> QED
      BY <3>1, <3>2
  <2>7. ASSUME NEW k \in Keys \ apart PROVE Agrees(k)' \/ \E d \in AtWork(k)' : io'[d].pc = "type"
    <3>1. CASE Agrees(k)
      BY <2>1, <3>1 DEF Agrees
    <3>2. CASE \E d \in AtWork(k) : io[d].pc = "type"
      <4>1. PICK d \in AtWork(k) : io[d].pc = "type"
        BY <3>2
      <4>2. d \in AtWork(k)' /\ io'[d] = io[d]
        BY <1>1, <2>1, <2>4, <2>5, <4>1 DEF AtWork
      <4> QED
        BY <4>1, <4>2
    <3> QED
      BY <3>1, <3>2 DEF BlobsInv
  <2> QED
    BY <1>1, <2>1, <2>4, <2>6, <2>7 DEF BlobsInv, OfItsKey
<1>9. CASE ProcessDies
  <2>1. Calm \in IoRow /\ Calm.op = "none"
    BY DEF Calm, IoRow, Keys, Writers
  <2>2. /\ io' = [c \in Clients |-> Calm] /\ UNCHANGED <<bytes, types, inner, puts>>
        /\ apart' = apart \cup {io[c].key : c \in {d \in Clients : io[d].op \in Writers /\ io[d].pc = "type"}}
    BY <1>9 DEF ProcessDies
  <2>3. io' \in [Clients -> IoRow] /\ \A c \in Clients : io'[c].op = "none"
    BY <2>1, <2>2
  <2>4. apart \subseteq apart' /\ apart' \subseteq Keys
    BY <1>1, <2>2
  <2>5. \A c \in Clients : Writing(c)'
    BY <1>1, <2>3 DEF Writing
  <2>6. ASSUME NEW k \in Keys \ apart' PROVE Agrees(k)'
    <3>1. ~ \E c \in AtWork(k) : io[c].pc = "type"
      BY <2>2 DEF AtWork
    <3> QED
      BY <2>2, <2>4, <3>1 DEF BlobsInv, Agrees
  <2> QED
    BY <1>1, <2>2, <2>3, <2>4, <2>5, <2>6 DEF BlobsInv, OfItsKey
<1> QED
  BY <1>2, <1>3, <1>4, <1>5, <1>6, <1>7, <1>8, <1>9 DEF BlobsNext

LEMMA BlobsKeeps == ASSUME BlobsInv, [Next]_edge PROVE BlobsInv'
<1>1. CASE UNCHANGED edge \/ (Next /\ ~BlobsNext)
  <2>1. UNCHANGED blobs
    BY <1>1 DEF Next, edge, Tick
  <2> QED
    BY <2>1 DEF BlobsInv, blobs, Writing, AtWork, Agrees, OfItsKey
<1> QED
  BY <1>1, BlobsMove

-----------------------------------------------------------------------------
(* Cookies that stand for no session: the queue is what was put last, in    *)
(* its order, and the map holds of each key the refusal that was put last.  *)
VisitRow(R) == [pc : {"idle", "over", "load", "put", "add"}, key : Cookies \cup {None}, since : Nat, at : Nat, row : R]
Evicted == Len(refusals) - Len(order)
LatestOf(q) ==
  \A i \in 1..Len(refusals) : refusals[i].key = q =>
    refusals[i].until = until[q] \/ \E j \in i + 1..Len(refusals) : refusals[j] = [key |-> q, until |-> until[q]]
Visiting(c) == visit[c].at <= now /\ (visit[c].pc # "idle" => visit[c].key \in Cookies)

CookiesInv ==
  /\ now \in Nat /\ \E R : visit \in [Clients -> VisitRow(R)]
  /\ \A c \in Clients : Visiting(c)
  /\ DOMAIN until \subseteq Cookies /\ IsFiniteSet(DOMAIN until) /\ \A q \in DOMAIN until : until[q] \in Nat
  /\ order \in Seq(NegEntry) /\ refusals \in Seq(NegEntry)
  /\ Evicted \in Nat /\ \A x \in 1..Len(order) : order[x] = refusals[Evicted + x]
  /\ \A q \in DOMAIN until : LatestOf(q)
  /\ QueueCovers
  /\ Remembered

LEMMA CookiesStart == Init => CookiesInv
<1> SUFFICES ASSUME Init PROVE CookiesInv
  OBVIOUS
<1>1. now = 0 /\ visit = [c \in Clients |-> Away] /\ until = <<>> /\ order = <<>> /\ refusals = <<>> /\ MaxNeg \in Nat
  BY CookiesAssumption DEF Init, ClockInit, CookiesInit
<1>2. <<>> \in Seq(NegEntry) /\ Len(<<>>) = 0 /\ IsFiniteSet({}) /\ Cardinality({}) = 0
  BY EmptySeq, FS_EmptySet
<1>3. DOMAIN <<>> = {}
  OBVIOUS
<1>4. Away \in VisitRow({NoRow}) /\ Away.pc = "idle" /\ Away.at = 0
  BY DEF Away, VisitRow
<1>5. visit \in [Clients -> VisitRow({NoRow})] /\ \A c \in Clients : Visiting(c)
  BY <1>1, <1>4 DEF Visiting
<1>6. QueueCovers /\ Remembered
  BY <1>1, <1>2, <1>3 DEF QueueCovers, Remembered
<1> QED
  BY <1>1, <1>2, <1>3, <1>5, <1>6 DEF CookiesInv, Evicted

(* How many entries are popped: the first number that is enough.            *)
LEMMA PoppedFirst ==
  ASSUME NEW t, order \in Seq(NegEntry)
  PROVE  /\ Popped(t) \in 0..Len(order) /\ Enough(Popped(t), t)
         /\ \A m \in 0..(Popped(t) - 1) : ~Enough(m, t)
<1> DEFINE T == {n \in 0..Len(order) : Enough(n, t)}
<1>1. Len(order) \in Nat
  BY LenProperties
<1>2. Len(order) \in T /\ T \subseteq Nat
  BY <1>1 DEF Enough
<1>3. PICK n \in T : \A m \in T : ~(<<m, n>> \in OpToRel(<, Nat))
  BY <1>2, WFMin, NatLessThanWellFounded, Zenon
<1>4. \A m \in T : ~(m < n)
  BY <1>2, <1>3 DEF OpToRel
<1>5. n \in 0..Len(order) /\ Enough(n, t)
  OBVIOUS
<1>6. \A m \in 0..(n - 1) : ~Enough(m, t)
  BY <1>1, <1>4, <1>5
<1> HIDE DEF T
<1> QED
  BY <1>5, <1>6, Zenon DEF Popped

(* An entry is what its fields say.                                         *)
LEMMA EntryIs == ASSUME NEW e \in NegEntry PROVE e = [key |-> e.key, until |-> e.until]
  BY DEF NegEntry

(* What is in the map once x - 1 entries are gone was put after the entry   *)
(* that is the next to go, each key by a refusal of its own.                *)
LEMMA PutAfter ==
  ASSUME CookiesInv, NEW x \in 1..Len(order), NEW i \in 1..Len(refusals), i <= Evicted + x,
         Cardinality(DOMAIN until \ Gone(x - 1)) >= MaxNeg
  PROVE  Cardinality({j \in i + 1..Len(refusals) : refusals[j].key # order[x].key}) >= MaxNeg - 1
<1> DEFINE k == order[x].key
           S == (DOMAIN until \ Gone(x - 1)) \ {k}
           T == {j \in i + 1..Len(refusals) : refusals[j].key # k}
           f == [q \in S |-> CHOOSE j \in T : refusals[j].key = q]
<1>1. /\ Len(order) \in Nat /\ Len(refusals) \in Nat /\ DOMAIN order = 1..Len(order) /\ MaxNeg \in Nat
      /\ Evicted \in Nat /\ Evicted = Len(refusals) - Len(order)
  BY LenProperties, CookiesAssumption DEF CookiesInv, Evicted
<1>2. ASSUME NEW q \in S PROVE \E j \in T : refusals[j].key = q
  <2>1. PICK y \in DOMAIN order : order[y] = [key |-> q, until |-> until[q]]
    BY DEF CookiesInv, QueueCovers
  <2>2. ~(y \in 1..x - 1)
    BY <2>1 DEF Gone
  <2>3. y # x
    BY <2>1
  <2>4. y > x /\ y \in 1..Len(order)
    BY <1>1, <2>2, <2>3
  <2>5. refusals[Evicted + y].key = q
    BY <2>1, <2>4 DEF CookiesInv
  <2>6. Evicted + y \in i + 1..Len(refusals)
    BY <1>1, <2>4
  <2> QED
    BY <2>5, <2>6
<1>3. \A q \in S : f[q] \in T /\ refusals[f[q]].key = q
  BY <1>2
<1>4. f \in [S -> T]
  BY <1>3
<1> HIDE DEF f, S, T
<1>5. f \in Injection(S, T)
  <2>1. ASSUME NEW a \in DOMAIN f, NEW b \in DOMAIN f, f[a] = f[b] PROVE a = b
    <3>1. a \in S /\ b \in S
      BY <1>4
    <3>2. refusals[f[a]].key = a /\ refusals[f[b]].key = b
      BY <1>3, <3>1
    <3> QED
      BY <2>1, <3>2
  <2>2. IsInjective(f)
    BY <2>1, Zenon DEF IsInjective
  <2> QED
    BY <1>4, <2>2, Zenon DEF Injection
<1>6. IsFiniteSet(i + 1..Len(refusals))
  BY <1>1, FS_Interval
<1>7. IsFiniteSet(T)
  BY <1>6, FS_Subset DEF T
<1>8. Cardinality(S) <= Cardinality(T)
  BY <1>5, <1>7, FS_Injection
<1>9. IsFiniteSet(DOMAIN until \ Gone(x - 1))
  BY FS_Subset DEF CookiesInv
<1>10. IsFiniteSet(S) /\ Cardinality(S) >= Cardinality(DOMAIN until \ Gone(x - 1)) - 1
  <2>1. Cardinality(DOMAIN until \ Gone(x - 1)) \in Nat
    BY <1>9, FS_CardinalityType
  <2>2. /\ IsFiniteSet((DOMAIN until \ Gone(x - 1)) \ {k})
        /\ Cardinality((DOMAIN until \ Gone(x - 1)) \ {k}) =
             IF k \in DOMAIN until \ Gone(x - 1) THEN Cardinality(DOMAIN until \ Gone(x - 1)) - 1
                                               ELSE Cardinality(DOMAIN until \ Gone(x - 1))
    BY <1>9, FS_RemoveElement
  <2> QED
    BY <2>1, <2>2 DEF S
<1>11. Cardinality(S) \in Nat /\ Cardinality(T) \in Nat /\ Cardinality(DOMAIN until \ Gone(x - 1)) \in Nat
  BY <1>7, <1>9, <1>10, FS_CardinalityType
<1> QED
  BY <1>1, <1>8, <1>10, <1>11 DEF T

(* What is left of a sequence when n entries are gone.                      *)
LEMMA RestOf ==
  ASSUME NEW S, NEW s \in Seq(S), NEW n \in 0..Len(s)
  PROVE  /\ SubSeq(s, n + 1, Len(s)) \in Seq(S)
         /\ Len(SubSeq(s, n + 1, Len(s))) = Len(s) - n
         /\ \A i \in 1..Len(s) - n : SubSeq(s, n + 1, Len(s))[i] = s[n + i]
<1>1. Len(s) \in Nat
  BY LenProperties
<1>2. \A i \in n + 1..Len(s) : s[i] \in S
  <2>1. \A i \in 1..Len(s) : s[i] \in S
    BY ElementOfSeq
  <2> QED
    BY <1>1, <2>1
<1> DEFINE m == n + 1
<1>3. m \in Int /\ Len(s) \in Int
  BY <1>1
<1>4. \A i \in m..Len(s) : s[i] \in S
  BY <1>2
<1> HIDE DEF m
<1>5. /\ SubSeq(s, m, Len(s)) \in Seq(S)
      /\ Len(SubSeq(s, m, Len(s))) = IF m <= Len(s) THEN Len(s) - m + 1 ELSE 0
      /\ \A i \in 1..Len(s) - m + 1 : SubSeq(s, m, Len(s))[i] = s[m + i - 1]
  BY <1>3, <1>4, SubSeqProperties
<1>6. Len(SubSeq(s, m, Len(s))) = Len(s) - n
  BY <1>1, <1>5 DEF m
<1>7. ASSUME NEW i \in 1..Len(s) - n PROVE SubSeq(s, m, Len(s))[i] = s[n + i]
  <2>1. i \in 1..Len(s) - m + 1 /\ m + i - 1 = n + i
    BY <1>1 DEF m
  <2> QED
    BY <1>5, <2>1
<1> QED
  BY <1>5, <1>6, <1>7 DEF m

(* put: an entry of its own follows what is left of the queue.              *)
LEMMA CookiesPut == ASSUME CookiesInv, NEW c \in Clients, Put(c) PROVE CookiesInv'
<1> DEFINE t == visit[c].at
           k == visit[c].key
           n == Popped(t)
           e == [key |-> k, until |-> t + NegTTL]
           rest == SubSeq(order, n + 1, Len(order))
<1>1. PICK R : visit \in [Clients -> VisitRow(R)]
  BY DEF CookiesInv
<1>2. now' = now /\ now \in Nat /\ t \in Nat /\ t <= now /\ k \in Cookies /\ e \in NegEntry /\ NegTTL \in Nat /\ MaxNeg \in Nat \ {0}
  <2>1. visit[c] \in VisitRow(R)
    BY <1>1
  <2>2. now' = now /\ visit[c].pc = "put"
    BY DEF Put, clock
  <2>3. now \in Nat /\ Visiting(c)
    BY DEF CookiesInv
  <2>4. t \in Nat /\ t <= now /\ k \in Cookies
    BY <2>1, <2>2, <2>3 DEF Visiting, VisitRow
  <2>5. NegTTL \in Nat /\ MaxNeg \in Nat \ {0}
    BY CookiesAssumption
  <2>6. e \in NegEntry
    BY <2>4, <2>5 DEF NegEntry
  <2> QED
    BY <2>2, <2>3, <2>4, <2>5, <2>6
<1>3. /\ order \in Seq(NegEntry) /\ refusals \in Seq(NegEntry) /\ Evicted \in Nat
      /\ \A q \in 1..Len(order) : order[q] = refusals[Evicted + q]
  BY DEF CookiesInv
<1>4. /\ Len(order) \in Nat /\ Len(refusals) \in Nat /\ DOMAIN order = 1..Len(order) /\ DOMAIN refusals = 1..Len(refusals)
      /\ Evicted = Len(refusals) - Len(order)
  BY <1>3, LenProperties DEF Evicted
<1>5. n \in 0..Len(order) /\ Enough(n, t) /\ \A m \in 0..(n - 1) : ~Enough(m, t)
  BY <1>3, PoppedFirst
<1>6. /\ until' = [q \in (DOMAIN until \ Gone(n)) \cup {k} |-> IF q = k THEN t + NegTTL ELSE until[q]]
      /\ order' = Append(rest, e) /\ refusals' = Append(refusals, e)
      /\ visit' = [visit EXCEPT ![c].pc = "add", ![c].at = now]
  BY DEF Put
<1>7. /\ rest \in Seq(NegEntry) /\ Len(rest) = Len(order) - n
      /\ \A i \in 1..Len(order) - n : rest[i] = order[n + i]
  BY <1>3, <1>5, RestOf
<1> HIDE DEF e, rest, n
<1>8. e.key = k /\ e.until = t + NegTTL
  BY DEF e
<1>9. /\ order' \in Seq(NegEntry) /\ Len(order') = Len(order) - n + 1 /\ order'[Len(order) - n + 1] = e
      /\ \A i \in 1..Len(order) - n : order'[i] = order[n + i]
  BY <1>2, <1>6, <1>7, AppendProperties
<1>10. /\ refusals' \in Seq(NegEntry) /\ Len(refusals') = Len(refusals) + 1 /\ refusals'[Len(refusals) + 1] = e
       /\ \A i \in 1..Len(refusals) : refusals'[i] = refusals[i]
  BY <1>2, <1>3, <1>6, AppendProperties
<1>11. Evicted' = Evicted + n
  BY <1>4, <1>5, <1>9, <1>10 DEF Evicted
<1>12. \A i \in 1..Len(order') : order'[i] = refusals'[Evicted' + i]
  <2> SUFFICES ASSUME NEW i \in 1..Len(order') PROVE order'[i] = refusals'[Evicted' + i]
    OBVIOUS
  <2>1. CASE i = Len(order) - n + 1
    <3>1. order'[i] = e
      BY <1>9, <2>1
    <3>2. Evicted' + i = Len(refusals) + 1
      BY <1>4, <1>5, <1>11, <2>1
    <3> QED
      BY <1>10, <3>1, <3>2
  <2>2. CASE i \in 1..Len(order) - n
    <3>1. order'[i] = refusals[Evicted + (n + i)]
      BY <1>3, <1>4, <1>5, <1>9, <2>2
    <3>2. Evicted + (n + i) \in 1..Len(refusals) /\ Evicted' + i = Evicted + (n + i)
      BY <1>3, <1>4, <1>5, <1>11, <2>2
    <3> QED
      BY <1>10, <3>1, <3>2
  <2> QED
    BY <1>4, <1>5, <1>9, <2>1, <2>2
<1>13. /\ DOMAIN until' = (DOMAIN until \ Gone(n)) \cup {k} /\ until'[k] = t + NegTTL
       /\ \A q \in DOMAIN until \ Gone(n) : q # k => until'[q] = until[q]
  BY <1>6
<1>14. /\ DOMAIN until' \subseteq Cookies /\ IsFiniteSet(DOMAIN until') /\ Cardinality(DOMAIN until') <= MaxNeg
       /\ \A q \in DOMAIN until' : until'[q] \in Nat
  <2>1. /\ DOMAIN until \subseteq Cookies /\ IsFiniteSet(DOMAIN until) /\ QueueCovers
        /\ \A q \in DOMAIN until : until[q] \in Nat
    BY DEF CookiesInv
  <2>2. IsFiniteSet(DOMAIN until \ Gone(n))
    BY <2>1, FS_Subset
  <2>3. Cardinality(DOMAIN until \ Gone(n)) < MaxNeg
    <3>1. CASE n = Len(order)
      <4>1. DOMAIN until \ Gone(n) = {}
        BY <1>4, <2>1, <3>1 DEF QueueCovers, Gone
      <4>2. Cardinality({}) = 0
        BY FS_EmptySet
      <4> QED
        BY <1>2, <4>1, <4>2
    <3>2. CASE n # Len(order)
      BY <1>5, <3>2 DEF Enough
    <3> QED
      BY <3>1, <3>2
  <2>4. Cardinality(DOMAIN until \ Gone(n)) \in Nat
    BY <2>2, FS_CardinalityType
  <2>5. IsFiniteSet(DOMAIN until') /\ Cardinality(DOMAIN until') <= Cardinality(DOMAIN until \ Gone(n)) + 1
    <3>1. /\ IsFiniteSet((DOMAIN until \ Gone(n)) \cup {k})
          /\ Cardinality((DOMAIN until \ Gone(n)) \cup {k}) =
               IF k \in DOMAIN until \ Gone(n) THEN Cardinality(DOMAIN until \ Gone(n))
                                             ELSE Cardinality(DOMAIN until \ Gone(n)) + 1
      BY <2>2, FS_AddElement
    <3> QED
      BY <1>13, <2>4, <3>1
  <2>6. Cardinality(DOMAIN until') \in Nat
    BY <2>5, FS_CardinalityType
  <2>7. Cardinality(DOMAIN until') <= MaxNeg
    BY <1>2, <2>3, <2>4, <2>5, <2>6
  <2>8. \A q \in DOMAIN until' : until'[q] \in Nat
    BY <1>2, <1>13, <2>1
  <2> QED
    BY <1>2, <1>13, <2>1, <2>5, <2>7, <2>8
<1>15. \A q \in DOMAIN until' : \E i \in DOMAIN order' : order'[i] = [key |-> q, until |-> until'[q]]
  <2>0. DOMAIN order' = 1..Len(order) - n + 1
    BY <1>9, LenProperties
  <2>1. \E i \in DOMAIN order' : order'[i] = [key |-> k, until |-> until'[k]]
    <3>1. e = [key |-> k, until |-> until'[k]]
      BY <1>13 DEF e
    <3>2. Len(order) - n + 1 \in DOMAIN order'
      BY <1>4, <1>5, <2>0
    <3> QED
      BY <1>9, <3>1, <3>2
  <2>2. ASSUME NEW q \in DOMAIN until \ Gone(n), q # k
        PROVE  \E i \in DOMAIN order' : order'[i] = [key |-> q, until |-> until'[q]]
    <3>1. PICK y \in 1..Len(order) : order[y] = [key |-> q, until |-> until[q]]
      BY <1>4 DEF CookiesInv, QueueCovers
    <3>2. ~(y \in 1..n)
      BY <2>2, <3>1 DEF Gone
    <3>3. y - n \in 1..Len(order) - n /\ n + (y - n) = y
      BY <1>4, <1>5, <3>2
    <3>4. order'[y - n] = order[y] /\ y - n \in DOMAIN order'
      BY <1>4, <1>5, <1>9, <2>0, <3>3
    <3> QED
      BY <1>13, <2>2, <3>1, <3>4
  <2> QED
    BY <1>13, <2>1, <2>2
<1>16. ASSUME NEW q \in DOMAIN until' PROVE LatestOf(q)'
  <2> SUFFICES ASSUME NEW i \in 1..Len(refusals'), refusals'[i].key = q
               PROVE  \/ refusals'[i].until = until'[q]
                      \/ \E j \in i + 1..Len(refusals') : refusals'[j] = [key |-> q, until |-> until'[q]]
    BY DEF LatestOf
  <2>1. CASE i = Len(refusals) + 1
    <3>1. q = k /\ refusals'[i].until = t + NegTTL
      BY <1>8, <1>10, <2>1
    <3> QED
      BY <1>13, <3>1
  <2>2. CASE i \in 1..Len(refusals) /\ q = k
    <3>1. refusals'[Len(refusals) + 1] = [key |-> q, until |-> until'[q]]
      BY <1>10, <1>13, <2>2 DEF e
    <3>2. Len(refusals) + 1 \in i + 1..Len(refusals')
      BY <1>4, <1>10, <2>2
    <3> QED
      BY <3>1, <3>2
  <2>3. CASE i \in 1..Len(refusals) /\ q # k
    <3>1. q \in DOMAIN until /\ until'[q] = until[q] /\ refusals'[i] = refusals[i]
      BY <1>10, <1>13, <2>3
    <3>2. refusals[i].until = until[q] \/ \E j \in i + 1..Len(refusals) : refusals[j] = [key |-> q, until |-> until[q]]
      BY <2>3, <3>1 DEF CookiesInv, LatestOf
    <3>3. \A j \in i + 1..Len(refusals) : refusals'[j] = refusals[j] /\ j \in i + 1..Len(refusals')
      BY <1>4, <1>10, <2>3
    <3> QED
      BY <3>1, <3>2, <3>3
  <2> QED
    BY <1>4, <1>10, <2>1, <2>2, <2>3
<1>17. ASSUME NEW i \in DOMAIN refusals', now < refusals'[i].until, refusals'[i].key \notin DOMAIN until',
              \A j \in 1..i - 1 : refusals'[j] # refusals'[i],
              \A j \in i + 1..Len(refusals') : refusals'[j].key = refusals'[i].key => refusals'[j] = refusals'[i]
       PROVE  Cardinality({j \in i + 1..Len(refusals') : refusals'[j].key # refusals'[i].key}) >= MaxNeg
  <2> DEFINE z == refusals[i].key
             U == {j \in i + 1..Len(refusals) : refusals[j].key # z}
             V == {j \in i + 1..Len(refusals') : refusals'[j].key # refusals'[i].key}
  <2>1. i \in 1..Len(refusals) + 1
    BY <1>10, LenProperties
  <2>2. i \in 1..Len(refusals) /\ z # k
    <3>1. refusals'[i].key # k
      BY <1>13, <1>17
    <3>2. i # Len(refusals) + 1
      BY <1>8, <1>10, <3>1
    <3> QED
      BY <1>4, <1>10, <2>1, <3>1, <3>2
  <2>3. refusals'[i] = refusals[i]
    BY <1>10, <2>2
  <2>4. V = U \cup {Len(refusals) + 1}
    <3>1. \A j \in i + 1..Len(refusals) : refusals'[j] = refusals[j]
      BY <1>4, <1>10, <2>2
    <3>2. i + 1..Len(refusals') = (i + 1..Len(refusals)) \cup {Len(refusals) + 1}
      BY <1>4, <1>10, <2>2
    <3>3. refusals'[Len(refusals) + 1].key = k
      BY <1>8, <1>10
    <3> QED
      BY <2>2, <2>3, <3>1, <3>2, <3>3
  <2>5. IsFiniteSet(i + 1..Len(refusals))
    BY <1>4, <2>2, FS_Interval
  <2>6. IsFiniteSet(U) /\ Cardinality(U) \in Nat
    BY <2>5, FS_Subset, FS_CardinalityType
  <2>7. Len(refusals) + 1 \notin U
    BY <1>4
  <2>8. Cardinality(V) = Cardinality(U) + 1
    BY <2>4, <2>6, <2>7, FS_AddElement
  <2>9. /\ \A j \in 1..i - 1 : refusals[j] # refusals[i]
        /\ \A j \in i + 1..Len(refusals) : refusals[j].key = z => refusals[j] = refusals[i]
    <3>1. \A j \in 1..i - 1 : refusals'[j] = refusals[j]
      BY <1>4, <1>10, <2>2
    <3>2. \A j \in i + 1..Len(refusals) : refusals'[j] = refusals[j] /\ j \in i + 1..Len(refusals')
      BY <1>4, <1>10, <2>2
    <3> QED
      BY <1>17, <2>3, <3>1, <3>2
  <2>10. CASE z \notin DOMAIN until
    <3>1. Cardinality(U) >= MaxNeg
      BY <1>4, <1>17, <2>2, <2>3, <2>9, <2>10 DEF CookiesInv, Remembered
    <3> QED
      BY <1>2, <2>6, <2>8, <3>1
  <2>11. CASE z \in DOMAIN until
    <3>1. z \in Gone(n)
      BY <1>13, <1>17, <2>2, <2>3, <2>11
    <3>2. PICK x \in 1..n : order[x] = [key |-> z, until |-> until[z]]
      BY <3>1 DEF Gone
    <3>3. refusals[i] = [key |-> z, until |-> until[z]]
      <4>1. \/ refusals[i].until = until[z]
            \/ \E j \in i + 1..Len(refusals) : refusals[j] = [key |-> z, until |-> until[z]]
        BY <2>2, <2>11 DEF CookiesInv, LatestOf
      <4>2. refusals[i] \in NegEntry
        BY <1>3, <2>2, ElementOfSeq
      <4>3. refusals[i] = [key |-> z, until |-> refusals[i].until]
        BY <4>2, EntryIs
      <4> QED
        BY <2>9, <4>1, <4>3
    <3>4. x \in 1..Len(order) /\ refusals[Evicted + x] = refusals[i] /\ Evicted + x \in 1..Len(refusals)
      BY <1>3, <1>4, <1>5, <3>2, <3>3
    <3>5. i <= Evicted + x
      BY <1>3, <1>4, <2>2, <2>9, <3>4
    <3>6. ~Enough(x - 1, t)
      BY <1>4, <1>5, <3>2
    <3>7. now < order[x].until
      BY <1>17, <2>3, <3>2, <3>3
    <3>8. order[x].until = until[z] /\ until[z] \in Nat
      BY <2>11, <3>2 DEF CookiesInv
    <3>9. ~(Cardinality(DOMAIN until \ Gone(x - 1)) < MaxNeg)
      <4>1. x - 1 + 1 = x
        BY <1>4, <3>4
      <4> QED
        BY <1>2, <3>6, <3>7, <3>8, <4>1 DEF Enough
    <3>10. Cardinality(DOMAIN until \ Gone(x - 1)) >= MaxNeg
      <4>1. IsFiniteSet(DOMAIN until \ Gone(x - 1))
        BY FS_Subset DEF CookiesInv
      <4>2. Cardinality(DOMAIN until \ Gone(x - 1)) \in Nat
        BY <4>1, FS_CardinalityType
      <4> QED
        BY <1>2, <3>9, <4>2
    <3>11. Cardinality({j \in i + 1..Len(refusals) : refusals[j].key # order[x].key}) >= MaxNeg - 1
      BY <2>2, <3>4, <3>5, <3>10, PutAfter
    <3>12. order[x].key = z
      BY <3>2
    <3> HIDE DEF z, V
    <3>13. Cardinality(U) >= MaxNeg - 1
      BY <3>11, <3>12
    <3> QED
      BY <1>2, <2>6, <2>8, <3>13 DEF V
  <2> QED
    BY <2>10, <2>11
<1>18. /\ visit' \in [Clients -> VisitRow(R)]
       /\ \A d \in Clients : Visiting(d)'
  <2>1. visit' \in [Clients -> VisitRow(R)]
    BY <1>1, <1>2, <1>6 DEF VisitRow
  <2>2. visit'[c].at = now /\ visit'[c].key = k /\ \A d \in Clients : d # c => visit'[d] = visit[d]
    BY <1>1, <1>6 DEF VisitRow
  <2>3. \A d \in Clients : Visiting(d)'
    <3>1. Visiting(c)'
      BY <1>2, <2>2 DEF Visiting
    <3>2. ASSUME NEW d \in Clients, d # c PROVE Visiting(d)'
      <4>1. Visiting(d) /\ visit'[d] = visit[d]
        BY <2>2, <3>2 DEF CookiesInv
      <4> QED
        BY <1>2, <4>1 DEF Visiting
    <3> QED
      BY <3>1, <3>2
  <2> QED
    BY <2>1, <2>3
<1>19. QueueCovers'
  BY <1>14, <1>15 DEF QueueCovers
<1>20. Remembered'
  BY <1>2, <1>17 DEF Remembered
<1>21. Evicted' \in Nat
  BY <1>3, <1>5, <1>11
<1> QED
  BY <1>2, <1>9, <1>10, <1>12, <1>14, <1>16, <1>18, <1>19, <1>20, <1>21 DEF CookiesInv

(* The other steps forget a refusal only when its time is over.             *)
LEMMA CookiesMove == ASSUME CookiesInv, CookiesNext PROVE CookiesInv'
<1>1. PICK R : visit \in [Clients -> VisitRow(R)]
  BY DEF CookiesInv
<1>2. now' = now /\ now \in Nat
  BY CookiesStill DEF CookiesInv
<1>3. ASSUME NEW R2, visit' \in [Clients -> VisitRow(R2)], \A c \in Clients : Visiting(c)', UNCHANGED Cached
      PROVE  CookiesInv'
  <2>1. UNCHANGED <<until, order, refusals>>
    BY <1>3 DEF Cached
  <2>2. QueueCovers' /\ Remembered'
    BY <1>2, <2>1 DEF CookiesInv, QueueCovers, Remembered
  <2>3. Evicted' = Evicted /\ \A q \in DOMAIN until' : LatestOf(q)'
    BY <2>1 DEF CookiesInv, Evicted, LatestOf
  <2> QED
    BY <1>2, <1>3, <2>1, <2>2, <2>3 DEF CookiesInv
<1>4. ASSUME NEW c \in Clients, NEW k \in Cookies, Visit(c, k) PROVE CookiesInv'
  <2> DEFINE r == [pc |-> "over", key |-> k, since |-> now, at |-> 0, row |-> tat]
  <2>1. r \in VisitRow(R \cup {tat}) /\ r.at = 0 /\ r.key = k
    BY <1>2 DEF VisitRow
  <2>2. visit' = [visit EXCEPT ![c] = r] /\ UNCHANGED Cached
    BY <1>4 DEF Visit, Cached
  <2>3. visit \in [Clients -> VisitRow(R \cup {tat})]
    BY <1>1 DEF VisitRow
  <2> HIDE DEF r
  <2>4. visit' \in [Clients -> VisitRow(R \cup {tat})]
    BY <2>1, <2>2, <2>3
  <2>5. \A d \in Clients : Visiting(d)'
    BY <1>2, <2>1, <2>2, <2>3 DEF CookiesInv, Visiting
  <2> QED
    BY <1>3, <2>2, <2>4, <2>5
<1>5. ASSUME NEW c \in Clients, TooMany(c) \/ Add(c) \/ VisitFails(c) PROVE CookiesInv'
  <2>1. Away \in VisitRow(R \cup {NoRow}) /\ Away.pc = "idle" /\ Away.at = 0
    BY DEF Away, VisitRow
  <2>2. visit' = [visit EXCEPT ![c] = Away] /\ UNCHANGED Cached
    BY <1>5 DEF TooMany, Add, VisitFails, Cached
  <2>3. visit \in [Clients -> VisitRow(R \cup {NoRow})]
    BY <1>1 DEF VisitRow
  <2>4. visit' \in [Clients -> VisitRow(R \cup {NoRow})]
    BY <2>1, <2>2, <2>3
  <2>5. \A d \in Clients : Visiting(d)'
    BY <1>2, <2>1, <2>2, <2>3 DEF CookiesInv, Visiting
  <2> QED
    BY <1>3, <2>2, <2>4, <2>5
<1>6. ASSUME NEW c \in Clients, Invalid(c) PROVE CookiesInv'
  <2>1. visit' = [visit EXCEPT ![c].pc = "put", ![c].at = now] /\ UNCHANGED Cached /\ visit[c].pc = "load"
    BY <1>6 DEF Invalid
  <2>2. visit' \in [Clients -> VisitRow(R)]
    BY <1>1, <1>2, <2>1 DEF VisitRow
  <2>3. visit'[c].at = now /\ visit'[c].key = visit[c].key /\ \A d \in Clients : d # c => visit'[d] = visit[d]
    BY <1>1, <2>1 DEF VisitRow
  <2>4. \A d \in Clients : Visiting(d)'
    BY <1>2, <2>1, <2>3 DEF CookiesInv, Visiting
  <2> QED
    BY <1>3, <2>1, <2>2, <2>4
<1>7. ASSUME NEW c \in Clients, NEW row, Has(c, row) PROVE CookiesInv'
  <2> DEFINE k == visit[c].key
             pc == IF k \in DOMAIN until /\ now < until[k] THEN "add" ELSE "load"
  <2>1. /\ visit' = [visit EXCEPT ![c].pc = pc, ![c].row = row, ![c].at = now] /\ visit[c].pc = "over"
        /\ until' = IF k \in DOMAIN until /\ now < until[k] THEN until ELSE Restrict(until, DOMAIN until \ {k})
        /\ UNCHANGED <<order, refusals>>
    BY <1>7 DEF Has
  <2>2. pc \in {"add", "load"}
    OBVIOUS
  <2> DEFINE Q == R \cup {row}
             r == [[[visit[c] EXCEPT !.pc = pc] EXCEPT !.row = row] EXCEPT !.at = now]
  <2>3. visit \in [Clients -> VisitRow(Q)] /\ row \in Q
    BY <1>1 DEF VisitRow
  <2> HIDE DEF pc, Q
  <2>9. visit[c] \in VisitRow(Q)
    BY <2>3
  <2>10. r \in VisitRow(Q)
    BY <1>2, <2>2, <2>3, <2>9 DEF VisitRow
  <2>11. visit' = [visit EXCEPT ![c] = r]
    BY <2>1, <2>3
  <2> HIDE DEF r
  <2>4. visit' \in [Clients -> VisitRow(Q)]
    BY <2>3, <2>10, <2>11
  <2>5. visit'[c].at = now /\ visit'[c].key = visit[c].key /\ \A d \in Clients : d # c => visit'[d] = visit[d]
    BY <2>1, <2>3 DEF VisitRow
  <2>6. \A d \in Clients : Visiting(d)'
    BY <1>2, <2>1, <2>5 DEF CookiesInv, Visiting
  <2>7. CASE k \in DOMAIN until /\ now < until[k]
    BY <1>3, <2>1, <2>4, <2>6, <2>7 DEF Cached
  <2>8. CASE ~(k \in DOMAIN until /\ now < until[k])
    <3>1. /\ DOMAIN until' = DOMAIN until \ {k} /\ \A q \in DOMAIN until' : until'[q] = until[q]
      BY <2>1, <2>8 DEF Restrict
    <3>2. /\ DOMAIN until \subseteq Cookies /\ IsFiniteSet(DOMAIN until) /\ QueueCovers
          /\ \A q \in DOMAIN until : until[q] \in Nat /\ LatestOf(q)
      BY DEF CookiesInv
    <3>3. IsFiniteSet(DOMAIN until') /\ Cardinality(DOMAIN until') <= Cardinality(DOMAIN until)
      BY <3>1, <3>2, FS_Subset
    <3>4. Cardinality(DOMAIN until') <= MaxNeg
      <4>1. Cardinality(DOMAIN until) \in Nat /\ Cardinality(DOMAIN until') \in Nat /\ MaxNeg \in Nat
        BY <3>2, <3>3, FS_CardinalityType, CookiesAssumption
      <4> QED
        BY <3>2, <3>3, <4>1 DEF QueueCovers
    <3>5. QueueCovers'
      BY <2>1, <3>1, <3>2, <3>4 DEF QueueCovers
    <3>6. ASSUME NEW q \in DOMAIN until' PROVE LatestOf(q)'
      <4>1. q \in DOMAIN until /\ until'[q] = until[q] /\ refusals' = refusals
        BY <2>1, <3>1
      <4>2. LatestOf(q)
        BY <3>2, <4>1
      <4> QED
        BY <4>1, <4>2 DEF LatestOf
    <3>7. ASSUME NEW i \in DOMAIN refusals, now < refusals[i].until, refusals[i].key \notin DOMAIN until',
                 \A j \in 1..i - 1 : refusals[j] # refusals[i],
                 \A j \in i + 1..Len(refusals) : refusals[j].key = refusals[i].key => refusals[j] = refusals[i]
          PROVE  refusals[i].key \notin DOMAIN until
      <4> SUFFICES ASSUME refusals[i].key \in DOMAIN until PROVE FALSE
        OBVIOUS
      <4>0. DOMAIN refusals = 1..Len(refusals)
        BY LenProperties DEF CookiesInv
      <4>1. refusals[i].key = k /\ ~(now < until[k])
        BY <2>8, <3>1, <3>7
      <4>2. \/ refusals[i].until = until[k]
            \/ \E j \in i + 1..Len(refusals) : refusals[j] = [key |-> k, until |-> until[k]]
        BY <3>2, <4>0, <4>1 DEF LatestOf
      <4>3. refusals[i].until = until[k]
        BY <3>7, <4>1, <4>2
      <4> QED
        BY <3>7, <4>1, <4>3
    <3>8. Remembered'
      BY <1>2, <2>1, <3>7 DEF CookiesInv, Remembered
    <3> QED
      BY <1>2, <2>1, <2>4, <2>6, <3>1, <3>2, <3>3, <3>5, <3>6, <3>8 DEF CookiesInv, Evicted
  <2> QED
    BY <2>7, <2>8
<1> QED
  BY <1>4, <1>5, <1>6, <1>7, CookiesPut DEF CookiesNext

LEMMA CookiesKeeps == ASSUME CookiesInv, [Next]_edge PROVE CookiesInv'
<1>1. CASE UNCHANGED edge \/ (Next /\ ~CookiesNext)
  <2>1. UNCHANGED cookies /\ now' \in Nat /\ now <= now'
    <3>1. now \in Nat
      BY DEF CookiesInv
    <3>2. CASE UNCHANGED edge
      BY <3>1, <3>2 DEF edge, clock
    <3>3. CASE Next /\ ~CookiesNext
      <4>1. now' \in Nat /\ now <= now'
        BY <3>1, <3>3, NatNext
      <4>2. UNCHANGED cookies
        BY <3>3 DEF Next, Tick
      <4> QED
        BY <4>1, <4>2
    <3> QED
      BY <1>1, <3>2, <3>3
  <2>2. UNCHANGED <<visit, until, order, refusals>>
    BY <2>1 DEF cookies
  <2>3. \A c \in Clients : Visiting(c)'
    <3>1. PICK R : visit \in [Clients -> VisitRow(R)]
      BY DEF CookiesInv
    <3>2. \A c \in Clients : visit[c].at \in Nat
      BY <3>1 DEF VisitRow
    <3> QED
      BY <2>1, <2>2, <3>2 DEF CookiesInv, Visiting
  <2>4. Remembered'
    <3>1. \A i \in DOMAIN refusals : refusals[i].until \in Nat
      <4>1. refusals \in Seq(NegEntry) /\ DOMAIN refusals = 1..Len(refusals)
        BY LenProperties DEF CookiesInv
      <4>2. ASSUME NEW i \in 1..Len(refusals) PROVE refusals[i] \in NegEntry
        BY <4>1, ElementOfSeq
      <4> QED
        BY <4>1, <4>2 DEF NegEntry
    <3>2. \A i \in DOMAIN refusals : now' < refusals[i].until => now < refusals[i].until
      BY <2>1, <3>1 DEF CookiesInv
    <3> QED
      BY <2>2, <3>2 DEF CookiesInv, Remembered
  <2> QED
    BY <2>1, <2>2, <2>3, <2>4 DEF CookiesInv, Evicted, LatestOf, QueueCovers
<1> QED
  BY <1>1, CookiesMove

-----------------------------------------------------------------------------
(* Lists: the places of rows are in a strict order, in which no two rows    *)
(* share a place.                                                           *)
ListPlace == [rank : {0, 1}, at : Int, id : Nat]
ListRow == [id : Ids, at : Int, status : UNION {Statuses(l) : l \in Lists}, due : Int]

LEMMA PlaceOf == ASSUME NEW r \in ListRow PROVE Place(r) \in ListPlace /\ Place(r).id = r.id
  BY ListsAssumption DEF ListRow, ListPlace, Place, Rank

LEMMA AheadOrders ==
  ASSUME NEW p \in ListPlace, NEW q \in ListPlace, NEW s \in ListPlace
  PROVE  /\ Ahead(p, q) /\ Ahead(q, s) => Ahead(p, s)
         /\ ~(Ahead(p, q) /\ Ahead(q, p))
         /\ p.id # q.id => Ahead(p, q) \/ Ahead(q, p)
<1>1. CASE list = "cities"
  BY <1>1 DEF Ahead, CitiesFirst, ListPlace
<1>2. CASE list # "cities"
  BY <1>2 DEF Ahead, NewestFirst, ListPlace
<1> QED
  BY <1>1, <1>2

Apart(S) == \A r, q \in S : r.id = q.id => r = q

(* An order of the rows of a list exists: a row's number is that of the     *)
(* rows ahead of it, and no two rows have the same.                         *)
LEMMA Numbered ==
  ASSUME NEW S, S \subseteq ListRow, IsFiniteSet(S), Apart(S)
  PROVE  \E rows \in [1..Cardinality(S) -> S] :
           IsInjective(rows) /\ \A i, j \in DOMAIN rows : i < j => ~Ahead(Place(rows[j]), Place(rows[i]))
<1> DEFINE before(r) == {q \in S : Ahead(Place(q), Place(r))}
           n == Cardinality(S)
           number == [r \in S |-> Cardinality(before(r)) + 1]
           rows == [i \in 1..n |-> CHOOSE r \in S : number[r] = i]
<1>1. n \in Nat
  BY FS_CardinalityType
<1>0. \A r \in S : number[r] = Cardinality(before(r)) + 1
  OBVIOUS
<1> HIDE DEF number
<1>2. ASSUME NEW r \in S
      PROVE  /\ IsFiniteSet(before(r)) /\ Cardinality(before(r)) \in Nat /\ r \notin before(r)
  <2>1. IsFiniteSet(before(r))
    BY FS_Subset
  <2>2. r \notin before(r)
    BY PlaceOf, AheadOrders
  <2> QED
    BY <2>1, <2>2, FS_CardinalityType
<1>3. ASSUME NEW r \in S, NEW q \in S, Ahead(Place(q), Place(r)) PROVE number[q] < number[r]
  <2>1. before(q) \cup {q} \subseteq before(r)
    <3>1. ASSUME NEW x \in before(q) PROVE x \in before(r)
      BY <1>3, PlaceOf, AheadOrders
    <3> QED
      BY <1>3, <3>1
  <2>2. /\ IsFiniteSet(before(q) \cup {q})
        /\ Cardinality(before(q) \cup {q}) = IF q \in before(q) THEN Cardinality(before(q)) ELSE Cardinality(before(q)) + 1
    BY <1>2, FS_AddElement
  <2>3. Cardinality(before(q) \cup {q}) <= Cardinality(before(r))
    BY <1>2, <2>1, FS_Subset
  <2>4. /\ number[q] = Cardinality(before(q)) + 1 /\ number[r] = Cardinality(before(r)) + 1 /\ q \notin before(q)
        /\ Cardinality(before(q)) \in Nat /\ Cardinality(before(r)) \in Nat
    BY <1>0, <1>2
  <2> HIDE DEF before
  <2> QED
    BY <2>2, <2>3, <2>4
<1>4. ASSUME NEW r \in S PROVE number[r] \in 1..n
  <2>1. before(r) \cup {r} \subseteq S
    OBVIOUS
  <2>2. /\ IsFiniteSet(before(r) \cup {r})
        /\ Cardinality(before(r) \cup {r}) = IF r \in before(r) THEN Cardinality(before(r)) ELSE Cardinality(before(r)) + 1
    BY <1>2, FS_AddElement
  <2>3. Cardinality(before(r) \cup {r}) <= n
    BY <2>1, FS_Subset
  <2>4. number[r] = Cardinality(before(r)) + 1 /\ r \notin before(r) /\ Cardinality(before(r)) \in Nat
    BY <1>0, <1>2
  <2> HIDE DEF before
  <2> QED
    BY <1>1, <2>2, <2>3, <2>4
<1>5. ASSUME NEW r \in S, NEW q \in S, number[r] = number[q] PROVE r = q
  <2> SUFFICES ASSUME r # q PROVE FALSE
    OBVIOUS
  <2>1. Place(r).id # Place(q).id /\ Place(r) \in ListPlace /\ Place(q) \in ListPlace
    BY PlaceOf DEF Apart
  <2>2. Ahead(Place(r), Place(q)) \/ Ahead(Place(q), Place(r))
    BY <2>1, AheadOrders
  <2>3. number[r] \in Int /\ number[q] \in Int
    BY <1>4
  <2>4. CASE Ahead(Place(r), Place(q))
    <3>1. number[r] < number[q]
      BY <1>3, <2>4
    <3> QED
      BY <1>5, <2>3, <3>1
  <2>5. CASE Ahead(Place(q), Place(r))
    <3>1. number[q] < number[r]
      BY <1>3, <2>5
    <3> QED
      BY <1>5, <2>3, <3>1
  <2> QED
    BY <2>2, <2>4, <2>5
<1>6. number \in [S -> 1..n] /\ DOMAIN number = S
  BY <1>4 DEF number
<1> HIDE DEF n
<1>7. number \in Surjection(S, 1..n)
  <2>1. IsInjective(number)
    BY <1>5, <1>6, Zenon DEF IsInjective
  <2>2. number \in Injection(S, 1..n)
    BY <1>6, <2>1, Zenon DEF Injection
  <2>3. IsFiniteSet(1..n) /\ Cardinality(1..n) = n
    BY <1>1, FS_Interval
  <2> QED
    BY <2>2, <2>3, FS_Injection DEF n
<1>8. \A i \in 1..n : \E r \in S : number[r] = i
  BY <1>7 DEF Surjection
<1>9. \A i \in 1..n : rows[i] \in S /\ number[rows[i]] = i
  BY <1>8
<1>10. rows \in [1..n -> S] /\ DOMAIN rows = 1..n
  BY <1>9
<1> HIDE DEF rows
<1>11. IsInjective(rows)
  <2>1. ASSUME NEW i \in 1..n, NEW j \in 1..n, rows[i] = rows[j] PROVE i = j
    BY <1>9, <2>1
  <2> QED
    BY <1>10, <2>1, Zenon DEF IsInjective
<1>12. ASSUME NEW i \in 1..n, NEW j \in 1..n, i < j PROVE ~Ahead(Place(rows[j]), Place(rows[i]))
  <2>1. Ahead(Place(rows[j]), Place(rows[i])) => number[rows[j]] < number[rows[i]]
    BY <1>3, <1>9
  <2> QED
    BY <1>1, <1>9, <1>12, <2>1
<1> QED
  BY <1>10, <1>11, <1>12 DEF n

(* The rows in their order: each once, one ahead of the next.               *)
LEMMA InOrderGives ==
  ASSUME NEW S, S \subseteq ListRow, IsFiniteSet(S), Apart(S), NEW rows, rows = InOrder(S)
  PROVE  /\ Cardinality(S) \in Nat /\ rows \in Seq(S) /\ Len(rows) = Cardinality(S)
         /\ \A i \in 1..Len(rows) : rows[i] \in S
         /\ \A i, j \in 1..Len(rows) : i < j => Ahead(Place(rows[i]), Place(rows[j]))
         /\ \A r \in S : \E i \in 1..Len(rows) : rows[i] = r
<1> DEFINE n == Cardinality(S)
           P(s) == IsInjective(s) /\ \A i, j \in DOMAIN s : i < j => ~Ahead(Place(s[j]), Place(s[i]))
<1>1. n \in Nat /\ IsFiniteSet(1..n) /\ Cardinality(1..n) = n
  BY FS_CardinalityType, FS_Interval
<1>2. rows \in [1..n -> S] /\ P(rows)
  <2>1. rows = CHOOSE s \in [1..n -> S] : P(s)
    BY DEF InOrder
  <2>2. \E s \in [1..n -> S] : P(s)
    BY Numbered
  <2> HIDE DEF P, n
  <2> QED
    BY <2>1, <2>2, Zenon
<1>3. DOMAIN rows = 1..n
  BY <1>2
<1>4. rows \in Seq(S) /\ Len(rows) = n
  <2>1. rows \in Seq(S)
    BY <1>1, <1>2, SeqDef
  <2>2. Len(rows) \in Nat /\ 1..Len(rows) = 1..n
    BY <1>3, <2>1, LenProperties
  <2> QED
    BY <1>1, <2>1, <2>2
<1>5. \A i, j \in 1..n : rows[i] = rows[j] => i = j
  BY <1>2, <1>3, Zenon DEF IsInjective
<1>6. ASSUME NEW i \in 1..n, NEW j \in 1..n, i < j PROVE Ahead(Place(rows[i]), Place(rows[j]))
  <2>1. rows[i] \in S /\ rows[j] \in S /\ rows[i] # rows[j]
    BY <1>2, <1>5, <1>6
  <2>2. Place(rows[i]).id # Place(rows[j]).id /\ Place(rows[i]) \in ListPlace /\ Place(rows[j]) \in ListPlace
    BY <2>1, PlaceOf DEF Apart
  <2>3. ~Ahead(Place(rows[j]), Place(rows[i]))
    BY <1>2, <1>3, <1>6
  <2> QED
    BY <2>2, <2>3, AheadOrders
<1>7. rows \in Surjection(1..n, S)
  <2>1. rows \in Injection(1..n, S)
    BY <1>2, Zenon DEF Injection
  <2> HIDE DEF n
  <2>2. /\ Cardinality(1..n) <= Cardinality(S)
        /\ Cardinality(1..n) = Cardinality(S) <=> rows \in Surjection(1..n, S)
    BY <2>1, FS_Injection
  <2> QED
    BY <1>1, <2>2 DEF n
<1>8. \A r \in S : \E i \in 1..n : rows[i] = r
  BY <1>7 DEF Surjection
<1> QED
  BY <1>1, <1>2, <1>4, <1>6, <1>8

(* What a reader was promised is shown or still ahead, what was shown is    *)
(* behind unless it moved.                                                 *)
Promised ==
  \A i \in steady : \E r \in table :
    /\ r.id = i /\ Belongs(r, walk.filter, now)
    /\ \/ \E x \in 1..Len(walk.shown) : walk.shown[x] = i
       \/ walk.pc = "page" /\ Ahead(walk.after[1], Place(r))
Behind ==
  walk.pc = "page" =>
    \A x \in 1..Len(walk.shown) :
      \/ walk.shown[x] \in moved
      \/ \E r \in table : r.id = walk.shown[x] /\ ~Ahead(walk.after[1], Place(r))
ShownOnce == \A x, y \in 1..Len(walk.shown) : x # y /\ walk.shown[x] = walk.shown[y] => walk.shown[x] \in moved
SaysFilter == walk.filter # "" => \A p \in walk.page : p.says = walk.filter

ListsInv ==
  /\ now \in Nat
  /\ table \subseteq ListRow /\ IsFiniteSet(table) /\ Apart(table)
  /\ walk.pc \in {"idle", "page", "done"} /\ walk.size \in 1..2 /\ walk.shown \in Seq(Ids)
  /\ IF walk = NoWalk THEN steady = {} ELSE list # None
  /\ walk.pc = "page" => walk # NoWalk /\ walk.after # <<>> /\ walk.after[1] \in ListPlace
  /\ Promised /\ Behind /\ ShownOnce /\ SaysFilter
  /\ walk.pc = "page" => Len(walk.shown) % walk.size = 0

LEMMA ListsStart == Init => ListsInv
<1> SUFFICES ASSUME Init PROVE ListsInv
  OBVIOUS
<1>1. now = 0 /\ table = {} /\ walk = NoWalk /\ steady = {}
  BY DEF Init, ClockInit, ListsInit
<1>2. <<>> \in Seq(Ids) /\ Len(<<>>) = 0 /\ IsFiniteSet({})
  BY EmptySeq, FS_EmptySet
<1>3. walk.pc = "idle" /\ walk.size = 1 /\ walk.shown = <<>> /\ walk.filter = ""
  BY <1>1 DEF NoWalk
<1>4. Promised /\ Behind /\ SaysFilter
  BY <1>1, <1>3 DEF Promised, Behind, SaysFilter
<1>5. ShownOnce
  <2>1. Len(walk.shown) = 0
    BY <1>2, <1>3
  <2>2. \A x \in 1..Len(walk.shown) : FALSE
    BY <2>1
  <2> QED
    BY <2>2, Zenon DEF ShownOnce
<1>6. Apart(table)
  BY <1>1 DEF Apart
<1>7. table \subseteq ListRow /\ IsFiniteSet(table) /\ now \in Nat
  BY <1>1, <1>2
<1>8. walk.size \in 1..2 /\ walk.shown \in Seq(Ids) /\ walk.pc \in {"idle", "page", "done"} /\ walk.pc # "page"
  <2>1. walk.shown \in Seq(Ids)
    BY <1>2, <1>3
  <2>2. walk.size \in 1..2
    <3>1. walk.size = 1
      BY <1>3, Zenon
    <3>2. 1 \in 1..2
      OBVIOUS
    <3> QED
      BY <3>1, <3>2, Zenon
  <2>3. walk.pc \in {"idle", "page", "done"} /\ walk.pc # "page"
    BY <1>3
  <2> QED
    BY <2>1, <2>2, <2>3
<1> QED
  BY <1>1, <1>4, <1>5, <1>6, <1>7, <1>8 DEF ListsInv

(* Rows shown after others.                                                 *)
LEMMA ThenShown ==
  ASSUME NEW S, NEW s \in Seq(S), NEW t \in Seq(S)
  PROVE  /\ s \o t \in Seq(S) /\ Len(s \o t) = Len(s) + Len(t)
         /\ \A x \in 1..Len(s) : (s \o t)[x] = s[x]
         /\ \A y \in 1..Len(t) : (s \o t)[Len(s) + y] = t[y]
<1>1. Len(s) \in Nat /\ Len(t) \in Nat
  BY LenProperties
<1>2. /\ s \o t \in Seq(S) /\ Len(s \o t) = Len(s) + Len(t)
      /\ \A i \in 1..Len(s) + Len(t) : (s \o t)[i] = IF i <= Len(s) THEN s[i] ELSE t[i - Len(s)]
  BY ConcatProperties
<1>3. ASSUME NEW x \in 1..Len(s) PROVE (s \o t)[x] = s[x]
  <2>1. x \in 1..Len(s) + Len(t) /\ x <= Len(s)
    BY <1>1
  <2> QED
    BY <1>2, <2>1
<1>4. ASSUME NEW y \in 1..Len(t) PROVE (s \o t)[Len(s) + y] = t[y]
  <2>1. Len(s) + y \in 1..Len(s) + Len(t) /\ ~(Len(s) + y <= Len(s)) /\ Len(s) + y - Len(s) = y
    BY <1>1
  <2> QED
    BY <1>2, <2>1
<1> QED
  BY <1>2, <1>3, <1>4

(* What the list says of a row that the filter lets through.                *)
LEMMA SaysWhat ==
  ASSUME NEW r \in ListRow, now \in Nat, NEW f, f # "", Belongs(r, f, now)
  PROVE  Said(r, now) = f
<1>1. r.due \in Int
  BY DEF ListRow
<1>2. CASE list = "approvals"
  <2>1. ApprovalIn(r, f, now) /\ Said(r, now) = Effective(r, now)
    BY <1>2 DEF Belongs, Said
  <2>2. CASE f = "pending"
    BY <1>1, <2>1, <2>2 DEF ApprovalIn, Effective, Overdue
  <2>3. CASE f = "expired"
    BY <2>1, <2>3 DEF ApprovalIn, Effective, Overdue
  <2>4. CASE f \notin {"pending", "expired"}
    BY <2>1, <2>4 DEF ApprovalIn, Effective, Overdue
  <2> QED
    BY <2>2, <2>3, <2>4
<1>3. CASE list # "approvals"
  BY <1>3 DEF Belongs, Said
<1> QED
  BY <1>2, <1>3

(* A page: the rows that come next, in their order, as many as were asked.  *)
LEMMA PageFollows ==
  ASSUME ListsInv, NEW f, NEW size \in 1..2, NEW after, Page(f, size, after), UNCHANGED <<list, table, moved, now>>,
         list # None,
         \/ after = <<>> /\ walk = NoWalk /\ steady' \subseteq {r.id : r \in {s \in table : Belongs(s, f, now)}}
         \/ walk.pc = "page" /\ after = walk.after /\ size = walk.size /\ f = walk.filter /\ steady' = steady
  PROVE  ListsInv'
<1> DEFINE S == {r \in table : Belongs(r, f, now) /\ (after = <<>> \/ Ahead(after[1], Place(r)))}
           rows == InOrder(S)
           n == Len(rows)
           more == n > size
           k == IF more THEN size ELSE n
           page == SubSeq(rows, 1, k)
           ids == [i \in DOMAIN page |-> page[i].id]
           L == Len(walk.shown)
<1>1. now \in Nat /\ S \subseteq ListRow /\ IsFiniteSet(S) /\ Apart(S) /\ walk.shown \in Seq(Ids) /\ L \in Nat
  <2>1. S \subseteq table /\ table \subseteq ListRow /\ IsFiniteSet(table) /\ Apart(table)
    BY DEF ListsInv
  <2>2. IsFiniteSet(S)
    BY <2>1, FS_Subset
  <2>3. now \in Nat /\ walk.shown \in Seq(Ids)
    BY DEF ListsInv
  <2> HIDE DEF S
  <2> QED
    BY <2>1, <2>2, <2>3, LenProperties DEF Apart
<1>2. /\ n \in Nat /\ rows \in Seq(S)
      /\ \A i \in 1..n : rows[i] \in S
      /\ \A i, j \in 1..n : i < j => Ahead(Place(rows[i]), Place(rows[j]))
      /\ \A r \in S : \E i \in 1..n : rows[i] = r
  <2> HIDE DEF S
  <2> QED
    BY <1>1, InOrderGives
<1>3. k \in 0..n /\ k \in Nat /\ k <= size /\ (more => k = size) /\ (~more => k = n)
  BY <1>2
<1>21. L = Len(walk.shown) /\ n = Len(rows) /\ (more <=> n > size)
  OBVIOUS
<1>22. walk = NoWalk => L = 0
  <2>1. Len(<<>>) = 0
    BY EmptySeq
  <2>2. NoWalk.shown = <<>>
    BY DEF NoWalk
  <2>3. CASE walk = NoWalk
    <3>1. walk.shown = <<>>
      BY <2>2, <2>3, Zenon
    <3> QED
      BY <2>1, <3>1
  <2> QED
    BY <2>3
<1>23. /\ \A r : Place(r)' = Place(r)
       /\ \A p, q : Ahead(p, q)' <=> Ahead(p, q)
  BY DEF Place, Rank, Ahead
<1>24. \A r, g : Belongs(r, g, now)' <=> Belongs(r, g, now)
  BY DEF Belongs
<1>4. walk' = [pc |-> IF more THEN "page" ELSE "done", filter |-> f, size |-> size,
               after |-> IF more THEN <<Place(rows[size])>> ELSE <<>>,
               shown |-> walk.shown \o ids, page |-> {[id |-> page[i].id, says |-> Said(page[i], now)] : i \in DOMAIN page}]
  BY DEF Page, Found, Cursor
<1>5. S = {r \in table : Belongs(r, f, now) /\ (after = <<>> \/ Ahead(after[1], Place(r)))}
  OBVIOUS
<1> HIDE DEF rows, S, n, L, k, more
<1>6. page \in Seq(S) /\ Len(page) = k /\ DOMAIN page = 1..k /\ \A i \in 1..k : page[i] = rows[i]
  <2>1. \A i \in 1..k : rows[i] \in S
    BY <1>2, <1>3
  <2>2. k \in Int /\ 1 \in Int
    BY <1>3
  <2>3. /\ page \in Seq(S) /\ Len(page) = IF 1 <= k THEN k - 1 + 1 ELSE 0
        /\ \A i \in 1..k - 1 + 1 : page[i] = rows[1 + i - 1]
    BY <2>1, <2>2, SubSeqProperties
  <2>4. DOMAIN page = 1..Len(page)
    BY <2>3, LenProperties
  <2>5. Len(page) = k
    BY <1>3, <2>3
  <2>6. \A i \in 1..k : page[i] = rows[i]
    BY <1>3, <2>3
  <2> QED
    BY <2>3, <2>4, <2>5, <2>6
<1> HIDE DEF page
<1>7. ids \in Seq(Ids) /\ Len(ids) = k /\ \A i \in 1..k : ids[i] = rows[i].id
  <2>1. ASSUME NEW i \in 1..k PROVE page[i].id = rows[i].id /\ rows[i].id \in Ids
    <3>1. i \in 1..n /\ page[i] = rows[i]
      BY <1>2, <1>3, <1>6
    <3>2. rows[i] \in ListRow
      BY <1>1, <1>2, <3>1
    <3> QED
      BY <3>1, <3>2 DEF ListRow
  <2>2. ids = [i \in 1..k |-> page[i].id]
    BY <1>6
  <2>3. ids \in [1..k -> Ids]
    BY <2>1, <2>2
  <2> HIDE DEF ids
  <2>4. ids \in Seq(Ids)
    BY <1>3, <2>3, SeqDef
  <2>5. Len(ids) \in Nat /\ 1..Len(ids) = 1..k
    BY <2>2, <2>4, LenProperties
  <2>6. Len(ids) = k
    BY <1>3, <2>5
  <2> QED
    BY <2>1, <2>2, <2>4, <2>6
<1> DEFINE shown == walk.shown \o ids
<1> HIDE DEF ids
<1>8. /\ shown \in Seq(Ids) /\ Len(shown) = L + k
      /\ \A x \in 1..L : shown[x] = walk.shown[x]
      /\ \A y \in 1..k : shown[L + y] = rows[y].id
  <2>1. /\ walk.shown \o ids \in Seq(Ids) /\ Len(walk.shown \o ids) = Len(walk.shown) + Len(ids)
        /\ \A x \in 1..Len(walk.shown) : (walk.shown \o ids)[x] = walk.shown[x]
        /\ \A y \in 1..Len(ids) : (walk.shown \o ids)[Len(walk.shown) + y] = ids[y]
    <3>1. walk.shown \in Seq(Ids) /\ ids \in Seq(Ids)
      BY <1>1, <1>7
    <3> QED
      BY <3>1, ThenShown
  <2>2. /\ shown \in Seq(Ids) /\ Len(shown) = L + Len(ids)
        /\ \A x \in 1..L : shown[x] = walk.shown[x]
        /\ \A y \in 1..Len(ids) : shown[L + y] = ids[y]
    BY <1>21, <2>1
  <2> HIDE DEF shown
  <2> QED
    BY <1>7, <2>2
<1>9. \A x \in 1..Len(shown) : x \in 1..L \/ \E y \in 1..k : x = L + y
  <2>1. ASSUME NEW x \in 1..Len(shown), x \notin 1..L PROVE x - L \in 1..k /\ x = L + (x - L)
    BY <1>1, <1>3, <1>8, <2>1
  <2> QED
    BY <2>1
<1> HIDE DEF shown
<1>10. walk'.shown = shown /\ walk'.filter = f /\ walk'.size = size /\ walk'.pc = (IF more THEN "page" ELSE "done")
       /\ (more => walk'.after = <<Place(rows[size])>>)
       /\ walk'.page = {[id |-> page[i].id, says |-> Said(page[i], now)] : i \in DOMAIN page}
  BY <1>4 DEF shown
<1>11. more => size \in 1..n /\ rows[size] \in S /\ Place(rows[size]) \in ListPlace /\ k = size
  <2>1. more => size \in 1..n /\ k = size
    BY <1>1, <1>2, <1>3, <1>21
  <2>2. more => rows[size] \in S
    BY <1>2, <2>1
  <2>3. more => rows[size] \in ListRow
    BY <1>1, <2>2
  <2> QED
    BY <2>1, <2>2, <2>3, PlaceOf
<1>12. \A r \in S : r \in table /\ r \in ListRow /\ Place(r) \in ListPlace /\ (after = <<>> \/ Ahead(after[1], Place(r)))
  BY <1>1, <1>5, PlaceOf
<1>13. Promised'
  <2> SUFFICES ASSUME NEW i \in steady'
               PROVE  \E r \in table : /\ r.id = i /\ Belongs(r, f, now)
                                       /\ \/ \E x \in 1..Len(shown) : shown[x] = i
                                          \/ more /\ Ahead(Place(rows[size]), Place(r))
    BY <1>10, <1>23, <1>24 DEF Promised
  <2>1. PICK r \in table : r.id = i /\ Belongs(r, f, now) /\ ((\E x \in 1..L : walk.shown[x] = i) \/ r \in S)
    <3>1. CASE walk.pc = "page" /\ after = walk.after /\ f = walk.filter /\ steady' = steady
      BY <1>5, <1>21, <3>1 DEF ListsInv, Promised
    <3>2. CASE after = <<>> /\ steady' \subseteq {r.id : r \in {s \in table : Belongs(s, f, now)}}
      BY <1>5, <3>2
    <3> QED
      BY <3>1, <3>2
  <2>2. CASE \E x \in 1..L : walk.shown[x] = i
    <3>1. PICK x \in 1..L : walk.shown[x] = i
      BY <2>2
    <3>2. x \in 1..Len(shown) /\ shown[x] = i
      BY <1>1, <1>3, <1>8, <3>1
    <3> QED
      BY <2>1, <3>2
  <2>3. CASE r \in S
    <3>1. PICK y \in 1..n : rows[y] = r
      BY <1>2, <2>3
    <3>2. CASE y \in 1..k
      <4>1. L + y \in 1..Len(shown) /\ shown[L + y] = i
        BY <1>1, <1>3, <1>8, <2>1, <3>1, <3>2
      <4> QED
        BY <2>1, <4>1
    <3>3. CASE y \notin 1..k
      <4>1. more /\ size < y
        BY <1>2, <1>3, <3>3
      <4>2. Ahead(Place(rows[size]), Place(r))
        BY <1>2, <1>11, <3>1, <4>1
      <4> QED
        BY <2>1, <4>1, <4>2
    <3> QED
      BY <3>2, <3>3
  <2> QED
    BY <2>1, <2>2, <2>3
<1>14. Behind'
  <2> SUFFICES ASSUME more, NEW x \in 1..Len(shown)
               PROVE  shown[x] \in moved \/ \E r \in table : r.id = shown[x] /\ ~Ahead(Place(rows[size]), Place(r))
    BY <1>10, <1>23 DEF Behind
  <2>1. CASE x \in 1..L
    <3>1. walk.pc = "page" /\ after = walk.after /\ walk.after # <<>> /\ walk.after[1] \in ListPlace
      <4>1. walk # NoWalk
        BY <1>22, <2>1
      <4> QED
        BY <4>1 DEF ListsInv
    <3>2. CASE walk.shown[x] \in moved
      BY <1>8, <2>1, <3>2
    <3>3. CASE walk.shown[x] \notin moved
      <4>1. PICK r \in table : r.id = walk.shown[x] /\ ~Ahead(walk.after[1], Place(r))
        BY <1>21, <2>1, <3>1, <3>3 DEF ListsInv, Behind
      <4>2. Place(r) \in ListPlace
        BY PlaceOf DEF ListsInv
      <4>3. Ahead(walk.after[1], Place(rows[size]))
        BY <1>11, <1>12, <3>1
      <4>4. ~Ahead(Place(rows[size]), Place(r))
        BY <1>11, <3>1, <4>1, <4>2, <4>3, AheadOrders
      <4> QED
        BY <1>8, <2>1, <4>1, <4>4
    <3> QED
      BY <3>2, <3>3
  <2>2. CASE x \notin 1..L
    <3>1. PICK y \in 1..k : x = L + y
      BY <1>9, <2>2
    <3>2. y \in 1..n /\ rows[y] \in S /\ shown[x] = rows[y].id /\ rows[y] \in table /\ Place(rows[y]) \in ListPlace
      BY <1>2, <1>3, <1>8, <1>12, <3>1
    <3>3. y < size => Ahead(Place(rows[y]), Place(rows[size]))
      BY <1>2, <1>11, <3>2
    <3>4. ~Ahead(Place(rows[size]), Place(rows[y]))
      <4>1. CASE y = size
        BY <1>11, <4>1, AheadOrders
      <4>2. CASE y # size
        <5>1. y < size
          BY <1>3, <3>1, <4>2
        <5> QED
          BY <1>11, <3>2, <3>3, <5>1, AheadOrders
      <4> QED
        BY <4>1, <4>2
    <3> QED
      BY <3>2, <3>4
  <2> QED
    BY <2>1, <2>2
<1>15. ShownOnce'
  <2>1. ASSUME NEW x \in 1..L, NEW y \in 1..k, walk.shown[x] = rows[y].id PROVE walk.shown[x] \in moved
    <3> SUFFICES ASSUME walk.shown[x] \notin moved PROVE FALSE
      OBVIOUS
    <3>1. walk # NoWalk
      BY <1>22, <2>1
    <3>2. walk.pc = "page" /\ after = walk.after /\ after # <<>>
      BY <3>1 DEF ListsInv
    <3>3. PICK r \in table : r.id = walk.shown[x] /\ ~Ahead(walk.after[1], Place(r))
      BY <1>21, <3>2 DEF ListsInv, Behind
    <3>4. rows[y] \in S
      BY <1>2, <1>3
    <3>5. r = rows[y]
      BY <1>12, <2>1, <3>3, <3>4 DEF ListsInv, Apart
    <3> QED
      BY <1>12, <3>2, <3>3, <3>4, <3>5
  <2>2. ASSUME NEW y \in 1..k, NEW z \in 1..k, rows[y].id = rows[z].id PROVE y = z
    <3>1. rows[y] \in S /\ rows[z] \in S /\ y \in 1..n /\ z \in 1..n
      BY <1>2, <1>3
    <3>2. rows[y] = rows[z]
      BY <1>1, <2>2, <3>1 DEF Apart
    <3>3. ~Ahead(Place(rows[y]), Place(rows[y]))
      BY <1>12, <3>1, AheadOrders
    <3>4. ~(y < z) /\ ~(z < y)
      BY <1>2, <3>1, <3>2, <3>3
    <3> QED
      BY <1>2, <3>1, <3>4
  <2>3. ASSUME NEW x \in 1..Len(shown), NEW y \in 1..Len(shown), x # y, shown[x] = shown[y] PROVE shown[x] \in moved
    <3>1. CASE x \in 1..L /\ y \in 1..L
      BY <1>8, <1>21, <2>3, <3>1 DEF ListsInv, ShownOnce
    <3>2. CASE x \in 1..L /\ \E z \in 1..k : y = L + z
      BY <1>8, <2>1, <2>3, <3>2
    <3>3. CASE y \in 1..L /\ \E z \in 1..k : x = L + z
      BY <1>8, <2>1, <2>3, <3>3
    <3>4. CASE (\E z \in 1..k : x = L + z) /\ (\E z \in 1..k : y = L + z)
      <4>1. PICK z \in 1..k : x = L + z
        BY <3>4
      <4>2. PICK w \in 1..k : y = L + w
        BY <3>4
      <4>3. rows[z].id = rows[w].id
        BY <1>8, <2>3, <4>1, <4>2
      <4> QED
        BY <2>2, <2>3, <4>1, <4>2, <4>3
    <3> QED
      BY <1>9, <3>1, <3>2, <3>3, <3>4
  <2> QED
    BY <1>10, <2>3 DEF ShownOnce
<1>16. SaysFilter'
  <2>1. ASSUME NEW i \in DOMAIN page, f # "" PROVE Said(page[i], now) = f
    <3>1. Belongs(page[i], f, now) /\ page[i] \in S
      <4>1. i \in 1..k
        BY <1>6, <2>1
      <4>2. i \in 1..n
        BY <1>2, <1>3, <4>1
      <4>3. page[i] = rows[i]
        BY <1>6, <4>1
      <4> QED
        BY <1>2, <1>5, <4>2, <4>3
    <3>2. page[i] \in ListRow
      BY <1>1, <3>1
    <3> QED
      BY <1>1, <2>1, <3>1, <3>2, SaysWhat
  <2>2. ASSUME f # "", NEW p \in walk'.page PROVE p.says = f
    <3>1. PICK i \in DOMAIN page : p = [id |-> page[i].id, says |-> Said(page[i], now)]
      BY <1>10
    <3> QED
      BY <2>1, <2>2, <3>1
  <2> QED
    BY <1>10, <2>2 DEF SaysFilter
<1>17. more => Len(shown) % size = 0
  <2>1. walk.pc = "page" => L % walk.size = 0
    BY <1>21 DEF ListsInv
  <2>2. L = 0 => L % size = 0
    OBVIOUS
  <2>3. L % size = 0
    BY <1>22, <2>1, <2>2
  <2>4. more => Len(shown) = L + size
    BY <1>8, <1>11
  <2>5. CASE size = 1
    BY <1>1, <2>3, <2>4, <2>5
  <2>6. CASE size = 2
    <3>1. L % 2 = 0
      BY <2>3, <2>6
    <3>2. (L + 2) % 2 = 0
      BY <1>1, <3>1
    <3> QED
      BY <2>4, <2>6, <3>2
  <2> QED
    BY <2>5, <2>6
<1>19. walk' # NoWalk
  <2>1. walk'.pc # "idle"
    BY <1>10
  <2>2. NoWalk.pc = "idle"
    BY DEF NoWalk
  <2> QED
    BY <2>1, <2>2
<1>18. more => walk'.after # <<>> /\ walk'.after[1] \in ListPlace
  BY <1>10, <1>11
<1>20. now' = now /\ table' = table /\ list' = list /\ table \subseteq ListRow /\ IsFiniteSet(table) /\ Apart(table)
  BY DEF ListsInv
<1> QED
  BY <1>1, <1>8, <1>10, <1>13, <1>14, <1>15, <1>16, <1>17, <1>18, <1>19, <1>20 DEF ListsInv, Apart

(* Others change a row: it keeps its place, or counts as moved.             *)
LEMMA OthersChange ==
  ASSUME ListsInv, NEW old \in table, NEW T, NEW m, Changed(T, m), now' = now, moved \subseteq m,
         \/ T = table \ {old} /\ old.id \in m
         \/ \E new \in ListRow : T = (table \ {old}) \cup {new} /\ new.id = old.id /\ (old.id \in m \/ Place(new) = Place(old))
  PROVE  ListsInv'
<1>1. table \subseteq ListRow /\ IsFiniteSet(table) /\ Apart(table) /\ now \in Nat
  BY DEF ListsInv
<1>2. table' = T /\ moved' = m /\ steady' = Still(T, now) \ m /\ UNCHANGED <<list, walk>>
  BY DEF Changed
<1>3. T \subseteq ListRow /\ IsFiniteSet(T) /\ Apart(T)
  <2>1. IsFiniteSet(table \ {old})
    BY <1>1, FS_Subset
  <2>2. \A new : IsFiniteSet((table \ {old}) \cup {new})
    BY <2>1, FS_AddElement
  <2>3. Apart(T)
    BY <1>1 DEF Apart
  <2> QED
    BY <1>1, <2>1, <2>2, <2>3
<1>4. ASSUME NEW r \in table, r.id \notin m PROVE \E q \in T : q.id = r.id /\ Place(q) = Place(r)
  BY <1>4
<1>5. ASSUME NEW q \in T, q.id \notin m PROVE \E r \in table : r.id = q.id /\ Place(q) = Place(r)
  BY <1>5
<1>6. \A r : Place(r)' = Place(r)
  BY <1>2 DEF Place, Rank
<1>7. \A p, q : Ahead(p, q)' <=> Ahead(p, q)
  BY <1>2 DEF Ahead
<1>8. \A r, f : Belongs(r, f, now)' <=> Belongs(r, f, now)
  BY <1>2 DEF Belongs
<1>9. Promised'
  <2> SUFFICES ASSUME NEW i \in steady'
               PROVE  \E q \in T : /\ q.id = i /\ Belongs(q, walk.filter, now)
                                   /\ \/ \E x \in 1..Len(walk.shown) : walk.shown[x] = i
                                      \/ walk.pc = "page" /\ Ahead(walk.after[1], Place(q))
    BY <1>2, <1>6, <1>7, <1>8 DEF Promised
  <2>1. i \in steady /\ i \notin m
    BY <1>2 DEF Still
  <2>2. PICK q \in T : q.id = i /\ Belongs(q, walk.filter, now)
    BY <1>2 DEF Still
  <2>3. PICK r \in table : r.id = i /\ Place(q) = Place(r)
    BY <1>5, <2>1, <2>2
  <2>4. (\E x \in 1..Len(walk.shown) : walk.shown[x] = i) \/ (walk.pc = "page" /\ Ahead(walk.after[1], Place(r)))
    BY <1>1, <2>1, <2>3 DEF ListsInv, Promised, Apart
  <2> QED
    BY <2>2, <2>3, <2>4
<1>10. Behind'
  <2> SUFFICES ASSUME walk.pc = "page", NEW x \in 1..Len(walk.shown)
               PROVE  walk.shown[x] \in m \/ \E q \in T : q.id = walk.shown[x] /\ ~Ahead(walk.after[1], Place(q))
    BY <1>2, <1>6, <1>7 DEF Behind
  <2>1. CASE walk.shown[x] \notin m
    <3>1. PICK r \in table : r.id = walk.shown[x] /\ ~Ahead(walk.after[1], Place(r))
      BY <2>1 DEF ListsInv, Behind
    <3>2. PICK q \in T : q.id = r.id /\ Place(q) = Place(r)
      BY <1>4, <2>1, <3>1
    <3> QED
      BY <3>1, <3>2
  <2> QED
    BY <2>1
<1>11. ShownOnce' /\ SaysFilter'
  BY <1>2 DEF ListsInv, ShownOnce, SaysFilter
<1>12. walk = NoWalk => steady' = {}
  BY <1>2 DEF Still, ListsInv
<1> QED
  BY <1>1, <1>2, <1>3, <1>9, <1>10, <1>11, <1>12 DEF ListsInv, Apart

LEMMA ListsInsert ==
  ASSUME ListsInv, NEW l \in Lists, NEW i \in Ids, NEW at \in Int, NEW s \in Statuses(l), Insert(l, i, at, s)
  PROVE  ListsInv'
<1> DEFINE new == [id |-> i, at |-> at, status |-> s, due |-> at + LifeOfRow]
<1>1. table \subseteq ListRow /\ IsFiniteSet(table) /\ Apart(table) /\ now \in Nat /\ now' = now
  BY ListsStill DEF ListsInv, Insert, Arrival
<1>2. /\ table' = table \cup {new} /\ UNCHANGED <<moved, walk, steady>> /\ list' = l /\ (list = None \/ list = l)
      /\ i \notin {r.id : r \in table}
  BY DEF Insert
<1>3. new \in ListRow /\ new.id = i
  BY ListsAssumption DEF ListRow
<1> HIDE DEF new
<1>4. table' \subseteq ListRow /\ Apart(table')
  BY <1>1, <1>2, <1>3 DEF Apart
<1>5. IsFiniteSet(table')
  BY <1>1, <1>2, FS_AddElement
<1>6. CASE walk = NoWalk
  <2>1. walk.pc = "idle" /\ walk.shown = <<>> /\ walk.filter = "" /\ steady = {}
    BY <1>6 DEF ListsInv, NoWalk
  <2>2. Len(<<>>) = 0
    BY EmptySeq
  <2>3. Promised' /\ Behind' /\ SaysFilter'
    BY <1>2, <2>1, <2>2 DEF Promised, Behind, SaysFilter
  <2>4. ShownOnce'
    <3>1. Len(walk'.shown) = 0
      BY <1>2, <2>1, <2>2
    <3>2. \A x \in 1..Len(walk'.shown) : FALSE
      BY <3>1
    <3> QED
      BY <3>2, Zenon DEF ShownOnce
  <2> QED
    BY <1>1, <1>2, <1>4, <1>5, <1>6, <2>1, <2>3, <2>4 DEF ListsInv, Apart
<1>7. CASE walk # NoWalk
  <2>1. list' = list /\ list # None
    BY <1>2, <1>7 DEF ListsInv
  <2>2. \A r : Place(r)' = Place(r)
    BY <2>1 DEF Place, Rank
  <2>3. \A p, q : Ahead(p, q)' <=> Ahead(p, q)
    BY <2>1 DEF Ahead
  <2>4. \A r, f : Belongs(r, f, now)' <=> Belongs(r, f, now)
    BY <1>1, <2>1 DEF Belongs
  <2>5. Promised'
    BY <1>2, <2>2, <2>3, <2>4 DEF ListsInv, Promised
  <2>6. Behind'
    BY <1>2, <2>2, <2>3 DEF ListsInv, Behind
  <2>7. ShownOnce' /\ SaysFilter'
    BY <1>2 DEF ListsInv, ShownOnce, SaysFilter
  <2> QED
    BY <1>1, <1>2, <1>4, <1>5, <1>7, <2>1, <2>5, <2>6, <2>7 DEF ListsInv, Apart
<1> QED
  BY <1>6, <1>7

LEMMA ListsMove == ASSUME ListsInv, ListsNext PROVE ListsInv'
<1>1. table \subseteq ListRow /\ now \in Nat /\ now' = now /\ Late \in Nat /\ LifeOfRow \in Nat /\ Ids \subseteq Nat
  BY ListsStill, ListsAssumption DEF ListsInv
<1>2. ASSUME NEW l \in Lists, NEW i \in Ids, NEW at \in {now, now - Late}, NEW s \in Statuses(l), Insert(l, i, at, s)
      PROVE  ListsInv'
  <2>1. at \in Int
    BY <1>1
  <2> QED
    BY <1>2, <2>1, ListsInsert
<1>3. ASSUME NEW f, NEW size \in 1..2, FirstPage(f, size) PROVE ListsInv'
  BY <1>1, <1>3, PageFollows DEF FirstPage
<1>4. CASE NextPage
  <2>1. walk.size \in 1..2 /\ walk # NoWalk /\ list # None
    BY <1>4 DEF NextPage, ListsInv
  <2> QED
    BY <1>1, <1>4, <2>1, PageFollows DEF NextPage
<1>5. ASSUME NEW r \in table, NEW status \in UNION {Statuses(l) : l \in Lists}
      PROVE  /\ [r EXCEPT !.status = status] \in ListRow /\ [r EXCEPT !.status = status].id = r.id
             /\ list # "cities" => Place([r EXCEPT !.status = status]) = Place(r)
  <2>1. r \in ListRow
    BY <1>1
  <2> QED
    BY <2>1 DEF ListRow, Place, Rank
<1>6. ASSUME NEW r \in table, NEW status \in UNION {Statuses(l) : l \in Lists}, NEW m, moved \subseteq m,
             Changed(With(r, status), m), list # "cities" \/ r.id \in m
      PROVE  ListsInv'
  <2>1. With(r, status) = (table \ {r}) \cup {[r EXCEPT !.status = status]}
    BY DEF With
  <2> QED
    BY <1>1, <1>5, <1>6, <2>1, OthersChange
<1>7. ASSUME NEW r \in table, Settle(r) \/ Expire(r) PROVE ListsInv'
  <2>1. "executed" \in UNION {Statuses(l) : l \in Lists} /\ "expired" \in UNION {Statuses(l) : l \in Lists}
    <3>1. "approvals" \in Lists /\ Statuses("approvals") = {"pending", "executed", "expired"}
      BY DEF Lists, Statuses
    <3> QED
      BY <3>1
  <2> QED
    BY <1>6, <1>7, <2>1 DEF Settle, Expire
<1>8. ASSUME NEW r \in table, Purge(r) PROVE ListsInv'
  BY <1>1, <1>8, OthersChange DEF Purge
<1>9. ASSUME NEW r \in table, NEW at \in Int, Recount(r, at) PROVE ListsInv'
  <2>1. r \in ListRow
    BY <1>1
  <2>2. [r EXCEPT !.at = at] \in ListRow /\ [r EXCEPT !.at = at].id = r.id
    BY <2>1 DEF ListRow
  <2> QED
    BY <1>1, <1>9, <2>2, OthersChange DEF Recount
<1>10. ASSUME NEW r \in table, NEW s \in Statuses(list), Switch(r, s) PROVE ListsInv'
  <2>1. list \in Lists
    BY <1>10 DEF Switch, Lists
  <2>2. s \in UNION {Statuses(l) : l \in Lists}
    BY <2>1
  <2> QED
    BY <1>6, <1>10, <2>2 DEF Switch
<1>11. \A r \in table : r.at + Late \in Int
  BY <1>1 DEF ListRow
<1> QED
  BY <1>2, <1>3, <1>4, <1>7, <1>8, <1>9, <1>10, <1>11 DEF ListsNext

LEMMA ListsKeeps == ASSUME ListsInv, [Next]_edge PROVE ListsInv'
<1>1. now \in Nat /\ table \subseteq ListRow
  BY DEF ListsInv
<1>2. CASE Tick
  <2>1. steady' = Still(table, now') /\ UNCHANGED <<list, table, moved, walk>> /\ now' \in Nat
    BY <1>1, <1>2, NatNext DEF Tick, ListsTick, Next
  <2>2. \A r : Place(r)' = Place(r)
    BY <2>1 DEF Place, Rank
  <2>3. \A p, q : Ahead(p, q)' <=> Ahead(p, q)
    BY <2>1 DEF Ahead
  <2>4. Promised'
    <3> SUFFICES ASSUME NEW i \in steady'
                 PROVE  \E r \in table : /\ r.id = i /\ Belongs(r, walk.filter, now')
                                         /\ \/ \E x \in 1..Len(walk.shown) : walk.shown[x] = i
                                            \/ walk.pc = "page" /\ Ahead(walk.after[1], Place(r))
      BY <2>1, <2>2, <2>3 DEF Promised, Belongs
    <3>1. i \in steady
      BY <2>1 DEF Still
    <3>2. PICK r \in table : r.id = i /\ Belongs(r, walk.filter, now')
      BY <2>1 DEF Still
    <3> QED
      BY <3>1, <3>2 DEF ListsInv, Promised, Apart
  <2>5. Behind'
    BY <2>1, <2>2, <2>3 DEF ListsInv, Behind
  <2>6. ShownOnce' /\ SaysFilter'
    BY <2>1 DEF ListsInv, ShownOnce, SaysFilter
  <2>7. walk = NoWalk => steady' = {}
    BY <2>1 DEF Still, ListsInv
  <2> QED
    BY <2>1, <2>4, <2>5, <2>6, <2>7 DEF ListsInv, Apart
<1>3. CASE ~Tick /\ ~ListsNext
  <2>1. UNCHANGED <<lists, now>>
    BY <1>3, LimitsStill, CookiesStill, HumanStill, PlayersStill, PipelineStill, ProgramsStill, HealthStill, CallersStill, BlobsStill
    DEF Next, edge, clock
  <2>2. UNCHANGED <<list, table, moved, walk, steady>> /\ now' = now
    BY <2>1 DEF lists
  <2>5. /\ \A r : Place(r)' = Place(r)
        /\ \A p, q : Ahead(p, q)' <=> Ahead(p, q)
    BY <2>2 DEF Place, Rank, Ahead
  <2>6. \A r, f : Belongs(r, f, now)' <=> Belongs(r, f, now)
    BY <2>2 DEF Belongs
  <2>3. Promised' /\ Behind'
    BY <2>2, <2>5, <2>6 DEF ListsInv, Promised, Behind
  <2>4. ShownOnce' /\ SaysFilter'
    BY <2>2 DEF ListsInv, ShownOnce, SaysFilter
  <2> QED
    BY <2>2, <2>3, <2>4 DEF ListsInv, Apart
<1> QED
  BY <1>2, <1>3, ListsMove

(* The rights in the queries are those of the gate and of the scenarios.    *)
LEMMA GrantIs == ASSUME NEW role, NEW key PROVE Grant(role, key) \in {"allow", "scoped", "dual", "deny"}
  BY DEF Grant
LEMMA CityReadsGrant ==
  ASSUME NEW role, NEW key \in CityReads
  PROVE  Grant(role, key) = IF role = "moderator" THEN "scoped" ELSE "allow"
<1>1. key \notin ToRead \cup CityChanges \cup ByTwoOwners \cup ByTwo \cup Managed
  BY DEF CityReads, ToRead, CityChanges, ByTwoOwners, ByTwo, Managed
<1>2. key \notin {"staff.roles.revoke_admin", "geo.imports.read"}
  BY DEF CityReads
<1> QED
  BY <1>1, <1>2 DEF Grant
LEMMA AuditGrant == ASSUME NEW role PROVE Grant(role, "audit.log.read") = IF role = "moderator" THEN "scoped" ELSE "allow"
  BY CityReadsGrant DEF CityReads
LEMMA CitiesGrant == ASSUME NEW role PROVE Grant(role, "geo.cities.read") = IF role = "moderator" THEN "scoped" ELSE "allow"
  BY CityReadsGrant DEF CityReads

LEMMA RightsDoAgree == RightsAgree
<1> SUFFICES ASSUME NEW v \in Viewers
             PROVE  /\ \A key \in Catalog, city \in Cities :
                         Decision(v, key, city) # "deny" => Gate(v, key, city) /\ Gate(v, key, NoCity)
                    /\ \A a \in Requests : Incoming(v, a) <=> MayDecide(v, a)
                    /\ \A r \in Records : AuditShown(v, r) <=>
                         Decision(v, "audit.log.read", r.city) # "deny" \/ (v.active /\ r.by = Viewer)
                    /\ \A asked \in {NoFilter} \cup SUBSET Cities : CitiesShown(v, asked) =
                         {c \in (IF asked = NoFilter THEN Cities ELSE asked) : Decision(v, "geo.cities.read", c) # "deny"}
  BY DEF RightsAgree
<1>1. v.role \in Roles /\ v.cities \subseteq Cities /\ v.active \in BOOLEAN /\ (v.role # "moderator" => v.cities = {})
  BY DEF Viewers
<1>2. ASSUME NEW key \in Catalog, NEW city \in Cities, Decision(v, key, city) # "deny"
      PROVE  Gate(v, key, city) /\ Gate(v, key, NoCity)
  BY <1>2 DEF Decision, Gate, Cities, NoCity
<1>3. ASSUME NEW a \in Requests PROVE Incoming(v, a) <=> MayDecide(v, a)
  <2>1. Grant(v.role, a.key) \in {"allow", "scoped", "dual", "deny"}
    BY GrantIs
  <2> QED
    BY <2>1 DEF Incoming, MayDecide, Decision, InScope
<1>4. ASSUME NEW r \in Records
      PROVE  AuditShown(v, r) <=> Decision(v, "audit.log.read", r.city) # "deny" \/ (v.active /\ r.by = Viewer)
  <2>1. r.city \in {NoCity, 1, 2}
    BY DEF Records, Cities
  <2> QED
    BY <1>1, <2>1, AuditGrant DEF AuditShown, Decision, Gate, InScope, NoCity, Cities
<1>5. ASSUME NEW asked \in {NoFilter} \cup SUBSET Cities
      PROVE  CitiesShown(v, asked) = {c \in (IF asked = NoFilter THEN Cities ELSE asked) : Decision(v, "geo.cities.read", c) # "deny"}
  <2>1. CASE ~v.active
    BY <2>1 DEF CitiesShown, Decision, Gate
  <2>2. CASE v.active /\ v.role # "moderator"
    BY <2>2, CitiesGrant DEF CitiesShown, Decision, Gate, NoCity
  <2>3. CASE v.active /\ v.role = "moderator"
    <3>1. Gate(v, "geo.cities.read", NoCity) /\ Grant(v.role, "geo.cities.read") = "scoped"
      BY <2>3, CitiesGrant DEF Gate, NoCity
    <3>2. ScopeOf(v, asked) # NoFilter
      BY <1>1 DEF ScopeOf, NoFilter, Cities
    <3>3. CitiesShown(v, asked) = ScopeOf(v, asked)
      BY <3>1, <3>2 DEF CitiesShown
    <3>4. \A c \in Cities : Decision(v, "geo.cities.read", c) # "deny" <=> c \in v.cities
      BY <2>3, <3>1 DEF Decision, InScope, Cities, NoCity
    <3>5. asked = NoFilter \/ asked \subseteq Cities
      OBVIOUS
    <3> QED
      BY <1>1, <3>3, <3>4, <3>5 DEF ScopeOf
  <2> QED
    BY <2>1, <2>2, <2>3
<1> QED
  BY <1>2, <1>3, <1>4, <1>5

LEMMA ListsAreWhole == ListsInv => ListsWhole
<1> SUFFICES ASSUME ListsInv PROVE ListsWhole
  OBVIOUS
<1>1. DOMAIN walk.shown = 1..Len(walk.shown)
  BY LenProperties DEF ListsInv
<1>2. walk.pc = "done" => steady \subseteq ToSet(walk.shown)
  BY <1>1 DEF ListsInv, Promised, ToSet
<1> QED
  BY <1>1, <1>2, RightsDoAgree DEF ListsInv, ShownOnce, SaysFilter, ListsWhole

-----------------------------------------------------------------------------
(* The cookie of an employee: a request on its way is young; the layer of   *)
(* the session has erased the cookie only of a session that was over; what  *)
(* an answer brings last is a new token, or it brings none and erases for   *)
(* a reason.                                                               *)
SeatRow == [stage : Stages, reauth : BOOLEAN, end : {"", "replaced", "ended"}, at : Int]
SentRow == [op : Calls \cup {"none"}, pc : {"home", "way", "handler", "approve", "answer"}, token : Nat, own : BOOLEAN,
            who : Nat, at : Nat, since : Nat, stage : Stages \cup {""}, reauth : BOOLEAN, cookies : Seq(Nat)]
InHand(r) == r.pc \in {"handler", "approve"}
OnItsWay(r) == r.pc = "way" => r.at = r.since /\ now <= r.since + Transit
HasErased(r) == InHand(r) => r.cookies = <<>> \/ (r.cookies = <<0>> /\ OwnOver(r))
HasAnswered(r) ==
  r.pc = "answer" =>
    \/ r.cookies = <<>>
    \/ r.cookies[Len(r.cookies)] \in 1..Len(seats)
    \/ (\A i \in DOMAIN r.cookies : r.cookies[i] = 0) /\ (r.op = "logout" \/ OwnOver(r))
OfAnother(r) == ~r.own => r.token = 0 /\ ~InHand(r) /\ r.cookies = <<>> /\ r.op \in {"login", "me"}
UnderWay(r) ==
  /\ r.token \in 0..Len(seats) /\ r.who \in {0, r.token} /\ (r.pc # "home" => r.op \in Calls)
  /\ InHand(r) /\ r.op \notin {"login", "accept"} => r.who # 0
  /\ OnItsWay(r)
  /\ HasErased(r)
  /\ HasAnswered(r)
  /\ OfAnother(r)
PipelineInv ==
  /\ now \in Nat /\ seats \in Seq(SeatRow) /\ jar \in 0..Len(seats)
  /\ sent \in [Clients -> SentRow]
  /\ \A c \in Clients : UnderWay(sent[c])

LEMMA HomeIs == Home \in SentRow /\ Home.pc = "home" /\ Home.own /\ Home.token = 0 /\ Home.who = 0
<1>1. <<>> \in Seq(Nat)
  BY EmptySeq
<1> QED
  BY <1>1 DEF Home, SentRow, Calls, Stages
LEMMA AtHome == ASSUME seats \in Seq(SeatRow) PROVE UnderWay(Home)
<1>1. Len(seats) \in Nat
  BY LenProperties
<1> QED
  BY <1>1, HomeIs DEF UnderWay, OnItsWay, HasErased, HasAnswered, OfAnother, InHand

LEMMA PipelineStart == Init => PipelineInv
<1> SUFFICES ASSUME Init PROVE PipelineInv
  OBVIOUS
<1>1. now = 0 /\ jar = 1 /\ sent = [c \in Clients |-> Home]
  BY DEF Init, ClockInit, PipelineInit
<1>2. PICK stage \in Stages, reauth \in BOOLEAN : seats = <<Seat(stage, reauth)>>
  BY DEF Init, PipelineInit
<1>3. Seat(stage, reauth) \in SeatRow
  BY DEF Seat, SeatRow
<1>4. seats \in Seq(SeatRow) /\ Len(seats) = 1
  BY <1>2, <1>3
<1> QED
  BY <1>1, <1>4, HomeIs, AtHome DEF PipelineInv

(* Sessions are only added, and one that is over stays as it is.            *)
Lasts(S, T) == Len(S) <= Len(T) /\ \A n \in 1..Len(S) : S[n].end # "" => T[n] = S[n]
LEMMA EndedLasts ==
  ASSUME NEW S \in Seq(SeatRow), NEW n \in 0..Len(S), NEW end \in {"replaced", "ended"}, now \in Nat
  PROVE  /\ Ended(S, n, end) \in Seq(SeatRow) /\ Len(Ended(S, n, end)) = Len(S)
         /\ \A m \in 1..Len(S) : S[m].end # "" => Ended(S, n, end)[m] = S[m]
<1>1. Len(S) \in Nat /\ DOMAIN S = 1..Len(S) /\ \A m \in 1..Len(S) : S[m] \in SeatRow
  BY LenProperties, ElementOfSeq
<1>2. CASE n # 0 /\ S[n].end = ""
  <2> DEFINE row == [S[n] EXCEPT !.end = end, !.at = IF end = "replaced" THEN now ELSE 0]
             T   == [S EXCEPT ![n] = row]
  <2>0. n \in 1..Len(S)
    <3>1. n # 0
      BY <1>2
    <3>2. Len(S) \in Nat
      BY <1>1
    <3> QED
      BY <3>1, <3>2
  <2>1. row \in SeatRow
    <3>1. S[n] \in SeatRow
      BY <1>1, <2>0
    <3>2. (IF end = "replaced" THEN now ELSE 0) \in Int
      OBVIOUS
    <3> QED
      BY <3>1, <3>2 DEF SeatRow
  <2> HIDE DEF row
  <2>2. T \in Seq(SeatRow) /\ Len(T) = Len(S)
    BY <2>0, <2>1, <1>1, ExceptSeq
  <2>3. \A m \in 1..Len(S) : m # n => T[m] = S[m]
    BY <1>1
  <2>4. Ended(S, n, end) = T
    BY <1>2 DEF Ended, row
  <2> QED
    BY <2>2, <2>3, <2>4, <1>2
<1>3. CASE ~(n # 0 /\ S[n].end = "")
  BY <1>3 DEF Ended
<1> QED
  BY <1>2, <1>3
LEMMA AllEndedLast ==
  ASSUME NEW S \in Seq(SeatRow), NEW T, T = [n \in DOMAIN S |-> Ended(S, n, "replaced")[n]], now \in Nat
  PROVE  T \in Seq(SeatRow) /\ Len(T) = Len(S) /\ \A m \in 1..Len(S) : S[m].end # "" => T[m] = S[m]
<1>1. Len(S) \in Nat /\ DOMAIN S = 1..Len(S)
  BY LenProperties
<1>2. \A m \in 1..Len(S) : T[m] \in SeatRow /\ (S[m].end # "" => T[m] = S[m])
  <2> SUFFICES ASSUME NEW m \in 1..Len(S) PROVE T[m] \in SeatRow /\ (S[m].end # "" => T[m] = S[m])
    OBVIOUS
  <2>1. m \in 0..Len(S) /\ T[m] = Ended(S, m, "replaced")[m]
    BY <1>1
  <2>2. /\ Ended(S, m, "replaced") \in Seq(SeatRow) /\ Len(Ended(S, m, "replaced")) = Len(S)
        /\ S[m].end # "" => Ended(S, m, "replaced")[m] = S[m]
    BY <2>1, EndedLasts
  <2>3. Ended(S, m, "replaced")[m] \in SeatRow
    BY <2>2, ElementOfSeq
  <2> QED
    BY <2>1, <2>2, <2>3
<1>3. T \in [1..Len(S) -> SeatRow]
  BY <1>1, <1>2
<1>4. T \in Seq(SeatRow) /\ Len(T) = Len(S)
  BY <1>1, <1>3, SeqDef, LenProperties
<1> QED
  BY <1>2, <1>4
LEMMA OneMore == \A k \in Nat : k <= k /\ k <= k + 1 /\ k + 1 \in Nat /\ k + 1 \in 1..k + 1
  OBVIOUS
LEMMA AddedLasts ==
  ASSUME NEW S \in Seq(SeatRow), NEW T \in Seq(SeatRow), Len(T) = Len(S), NEW e \in SeatRow,
         \A m \in 1..Len(S) : S[m].end # "" => T[m] = S[m]
  PROVE  Append(T, e) \in Seq(SeatRow) /\ Len(Append(T, e)) = Len(S) + 1 /\ Lasts(S, Append(T, e))
<1>1. Len(S) \in Nat
  BY LenProperties
<1>2. /\ Append(T, e) \in Seq(SeatRow) /\ Len(Append(T, e)) = Len(T) + 1
      /\ \A m \in 1..Len(T) : Append(T, e)[m] = T[m]
  BY AppendProperties
<1>3. Len(S) <= Len(S) + 1
  BY <1>1, OneMore
<1> QED
  BY <1>2, <1>3 DEF Lasts

(* A session that was over when it was looked at is over.                   *)
LEMMA OverLasts ==
  ASSUME PipelineInv, seats' \in Seq(SeatRow), Lasts(seats, seats'), NEW d \in Clients,
         sent'[d].token = sent[d].token, sent'[d].since = sent[d].since, OwnOver(sent[d])
  PROVE  OwnOver(sent[d])'
<1>1. sent[d].token \in 0..Len(seats) /\ sent[d].token # 0 /\ Len(seats) \in Nat
  BY LenProperties DEF PipelineInv, UnderWay, OwnOver
<1>2. sent[d].token \in 1..Len(seats)
  BY <1>1
<1>3. seats[sent[d].token].end # ""
  BY <1>2 DEF OwnOver, Missed
<1>4. seats'[sent[d].token] = seats[sent[d].token]
  BY <1>2, <1>3 DEF Lasts
<1> QED
  BY <1>4 DEF OwnOver, Missed

(* What was said of a request stays true while it is left alone.            *)
LEMMA StaysUnderWay ==
  ASSUME PipelineInv, seats' \in Seq(SeatRow), Lasts(seats, seats'), NEW d \in Clients, sent'[d] = sent[d],
         sent[d].pc = "way" => now' <= sent[d].since + Transit
  PROVE  UnderWay(sent[d])'
<1>1. UnderWay(sent[d]) /\ Len(seats) \in Nat /\ Len(seats') \in Nat /\ Len(seats) <= Len(seats')
  BY LenProperties DEF PipelineInv, Lasts
<1>2. OwnOver(sent[d]) => OwnOver(sent[d])'
  BY OverLasts
<1>3. OnItsWay(sent[d])' /\ HasErased(sent[d])'
  BY <1>1, <1>2 DEF UnderWay, OnItsWay, HasErased, InHand
<1>4. HasAnswered(sent[d])'
  <2>1. \A x : x \in 1..Len(seats) => x \in 1..Len(seats')
    BY <1>1
  <2> QED
    BY <1>1, <1>2, <2>1 DEF UnderWay, HasAnswered
<1>5. OfAnother(sent[d])'
  BY <1>1 DEF UnderWay, OfAnother, InHand
<1>6. sent[d].token \in 0..Len(seats')
  BY <1>1 DEF UnderWay
<1> QED
  BY <1>1, <1>3, <1>4, <1>5, <1>6 DEF UnderWay, InHand

(* A step of one request, and what it may do to the sessions.               *)
LEMMA OneCalls ==
  ASSUME PipelineInv, now' = now, seats' \in Seq(SeatRow), Lasts(seats, seats'), jar' \in 0..Len(seats'),
         NEW c \in Clients, NEW r \in SentRow, sent' = [sent EXCEPT ![c] = r], UnderWay(sent[c])'
  PROVE  PipelineInv'
<1>1. sent' \in [Clients -> SentRow] /\ \A d \in Clients : d # c => sent'[d] = sent[d]
  BY DEF PipelineInv
<1>2. \A d \in Clients : sent[d].pc = "way" => now' <= sent[d].since + Transit
  BY DEF PipelineInv, UnderWay, OnItsWay
<1>3. ASSUME NEW d \in Clients, d # c PROVE UnderWay(sent[d])'
  BY <1>1, <1>2, <1>3, StaysUnderWay
<1> QED
  BY <1>1, <1>3 DEF PipelineInv
(* A request that was handled is answered: with nothing more than the layer  *)
(* of the session has set, with a new token, or with the cookie erased for  *)
(* a reason.                                                               *)
LEMMA AnswersWell ==
  ASSUME PipelineInv, now' = now, seats' \in Seq(SeatRow), Lasts(seats, seats'), jar' = jar,
         NEW c \in Clients, InHand(sent[c]), NEW k \in Seq(Nat), Answers(c, k),
         \/ k = sent[c].cookies
         \/ k[Len(k)] \in 1..Len(seats') /\ sent[c].own
         \/ (\A i \in DOMAIN k : k[i] = 0) /\ (sent[c].op = "logout" \/ OwnOver(sent[c]))
  PROVE  PipelineInv'
<1>1. sent[c] \in SentRow /\ UnderWay(sent[c]) /\ sent[c].own
  BY DEF PipelineInv, UnderWay, OfAnother
<1>2. jar' \in 0..Len(seats') /\ \A n \in 0..Len(seats) : n \in 0..Len(seats')
  <2>1. Len(seats) \in Nat /\ Len(seats') \in Nat /\ jar \in 0..Len(seats)
    BY LenProperties DEF PipelineInv
  <2>2. Len(seats) <= Len(seats')
    BY DEF Lasts
  <2> QED
    BY <2>1, <2>2
<1> DEFINE r == [sent[c] EXCEPT !.pc = "answer", !.at = now, !.cookies = k]
<1>3. r \in SentRow /\ r.pc = "answer" /\ r.cookies = k /\ r.op = sent[c].op /\ r.token = sent[c].token
      /\ r.since = sent[c].since /\ r.own = sent[c].own /\ r.who = sent[c].who
  BY <1>1 DEF PipelineInv, SentRow
<1>4. sent' = [sent EXCEPT ![c] = r]
  BY DEF Answers
<1>5. sent'[c] = r
  BY <1>4 DEF PipelineInv
<1> HIDE DEF r
<1>6. OwnOver(sent[c]) => OwnOver(sent[c])'
  BY <1>3, <1>5, OverLasts
<1>7. HasAnswered(sent[c])'
  <2>1. CASE k = sent[c].cookies
    <3>1. k = <<>> \/ (k = <<0>> /\ OwnOver(sent[c]))
      BY <2>1, <1>1 DEF UnderWay, HasErased
    <3>2. k = <<>> \/ ((\A i \in DOMAIN k : k[i] = 0) /\ OwnOver(sent[c]))
      BY <3>1
    <3> QED
      BY <3>2, <1>3, <1>5, <1>6 DEF HasAnswered
  <2>2. CASE k[Len(k)] \in 1..Len(seats')
    BY <2>2, <1>3, <1>5 DEF HasAnswered
  <2>3. CASE (\A i \in DOMAIN k : k[i] = 0) /\ (sent[c].op = "logout" \/ OwnOver(sent[c]))
    BY <2>3, <1>3, <1>5, <1>6 DEF HasAnswered
  <2> QED
    BY <2>1, <2>2, <2>3
<1>8. UnderWay(sent[c])'
  <2>1. sent[c].token \in 0..Len(seats')
    BY <1>1, <1>2 DEF UnderWay
  <2> QED
    BY <2>1, <1>1, <1>3, <1>5, <1>7 DEF UnderWay, OnItsWay, HasErased, OfAnother, InHand
<1> QED
  BY <1>2, <1>3, <1>4, <1>8, OneCalls

LEMMA Unmoved == ASSUME PipelineInv, seats' = seats PROVE seats' \in Seq(SeatRow) /\ Lasts(seats, seats')
<1>1. Len(seats) \in Nat
  BY LenProperties DEF PipelineInv
<1> QED
  BY <1>1 DEF PipelineInv, Lasts

LEMMA LongGone ==
  ASSUME NEW n \in Nat, NEW s \in Nat, NEW a \in Int, ~(n - a < Grace), n <= s + Transit
  PROVE  s > a + Transit
  BY PipelineAssumption

(* The layer of the session: a cookie that is erased was replaced so long   *)
(* ago that the browser has missed the new one, or its session was ended.   *)
LEMMA LayersWell == ASSUME PipelineInv, NEW c \in Clients, Layers(c) PROVE PipelineInv'
<1> DEFINE who == IF Seated(sent[c].token) THEN sent[c].token ELSE 0
           on  == CSRF(sent[c]) /\ Permitted(sent[c], who)
           k   == IF Erases(sent[c].token) THEN <<0>> ELSE <<>>
           r   == [sent[c] EXCEPT !.pc = IF on THEN "handler" ELSE "answer", !.who = who, !.at = now,
                                  !.stage = IF who = 0 THEN "" ELSE seats[who].stage,
                                  !.reauth = who # 0 /\ seats[who].reauth, !.cookies = k]
<1>1. sent[c] \in SentRow /\ UnderWay(sent[c]) /\ sent[c].pc = "way" /\ now \in Nat /\ Len(seats) \in Nat
  BY LenProperties DEF PipelineInv, Layers
<1>2. sent' = [sent EXCEPT ![c] = r] /\ seats' = seats /\ jar' = jar /\ now' = now
  BY DEF Layers, clock
<1>3. sent[c].token \in 0..Len(seats) /\ sent[c].since \in Nat /\ now <= sent[c].since + Transit
  BY <1>1 DEF UnderWay, OnItsWay, SentRow
<1>4. \A n \in 1..Len(seats) : seats[n] \in SeatRow
  BY ElementOfSeq DEF PipelineInv
<1>5. who \in 0..Len(seats) /\ who \in {0, sent[c].token}
  BY <1>3
<1>6. k \in Seq(Nat) /\ k \in {<<>>, <<0>>}
  BY EmptySeq
<1>7. k = <<0>> => OwnOver(sent[c])
  <2>1. k = <<0>> => Erases(sent[c].token)
    OBVIOUS
  <2> SUFFICES ASSUME Erases(sent[c].token) PROVE OwnOver(sent[c])
    BY <2>1
  <2>2. sent[c].token # 0
    BY DEF Erases
  <2>3. sent[c].token \in 1..Len(seats)
    BY <2>2, <1>1, <1>3
  <2>4. seats[sent[c].token] \in SeatRow
    BY <2>3, <1>4
  <2>5. CASE seats[sent[c].token].end = "ended"
    BY <2>2, <2>5 DEF OwnOver
  <2>6. CASE seats[sent[c].token].end = "replaced"
    <3>1. ~(now - seats[sent[c].token].at < Grace) /\ seats[sent[c].token].at \in Int
      BY <2>4, <2>6 DEF Erases, JustReplaced, SeatRow
    <3>2. sent[c].since > seats[sent[c].token].at + Transit
      BY <3>1, <1>1, <1>3, LongGone
    <3> QED
      BY <3>2, <2>2, <2>6 DEF OwnOver, Missed
  <2> QED
    BY <2>2, <2>4, <2>5, <2>6 DEF Erases, Seated, SeatRow
<1>8. \A n \in 0..Len(seats) : n # 0 => n \in 1..Len(seats)
  BY <1>1
<1>9. (IF who = 0 THEN "" ELSE seats[who].stage) \in Stages \cup {""} /\ (who # 0 /\ seats[who].reauth) \in BOOLEAN
  BY <1>4, <1>5, <1>8 DEF SeatRow
<1>10. who \in Nat /\ (IF on THEN "handler" ELSE "answer") \in {"handler", "answer"}
  BY <1>1, <1>5
<1> HIDE DEF k
<1>11. /\ r \in SentRow /\ r.pc = (IF on THEN "handler" ELSE "answer") /\ r.who = who /\ r.cookies = k
       /\ r.op = sent[c].op /\ r.token = sent[c].token /\ r.own = sent[c].own /\ r.since = sent[c].since
  BY <1>1, <1>6, <1>9, <1>10 DEF SentRow
<1>12. ~sent[c].own => ~on /\ k = <<>>
  <2> SUFFICES ASSUME ~sent[c].own PROVE ~on /\ k = <<>>
    OBVIOUS
  <2>1. sent[c].token = 0 /\ sent[c].op \in {"login", "me"}
    BY <1>1 DEF UnderWay, OfAnother
  <2>2. k = <<>>
    BY <2>1 DEF k, Erases
  <2>3. who = 0
    BY <2>1
  <2>4. sent[c].op = "me" => ~Permitted(sent[c], who)
    BY <2>3 DEF Permitted, Permission
  <2>5. sent[c].op = "login" => ~CSRF(sent[c])
    BY DEF CSRF, Safe
  <2> QED
    BY <2>1, <2>2, <2>4, <2>5
<1>13. on /\ sent[c].op \notin {"login", "accept"} /\ sent[c].op \in Calls => who # 0
  BY DEF Permitted, Permission, Calls
<1> HIDE DEF on, who, r
<1>14. sent'[c] = r
  BY <1>1, <1>2 DEF PipelineInv
<1>15. OwnOver(sent[c]) => OwnOver(sent[c])'
  BY <1>2, <1>11, <1>14 DEF OwnOver, Missed
<1>16. HasErased(sent[c])' /\ HasAnswered(sent[c])'
  <2>1. \A i \in DOMAIN <<0>> : <<0>>[i] = 0
    OBVIOUS
  <2> QED
    BY <2>1, <1>6, <1>7, <1>11, <1>14, <1>15 DEF HasErased, HasAnswered
<1>17. OnItsWay(sent[c])' /\ OfAnother(sent[c])'
  BY <1>1, <1>10, <1>11, <1>12, <1>14 DEF UnderWay, OnItsWay, OfAnother, InHand
<1>18. UnderWay(sent[c])'
  <2>1. sent'[c].token \in 0..Len(seats') /\ sent'[c].who \in {0, sent'[c].token} /\ sent'[c].op \in Calls
    BY <1>1, <1>2, <1>3, <1>5, <1>11, <1>14 DEF UnderWay
  <2>2. InHand(sent'[c]) /\ sent'[c].op \notin {"login", "accept"} => sent'[c].who # 0
    BY <2>1, <1>10, <1>11, <1>13, <1>14 DEF InHand
  <2> QED
    BY <2>1, <2>2, <1>16, <1>17 DEF UnderWay, InHand
<1> QED
  BY <1>2, <1>11, <1>18, Unmoved, OneCalls DEF PipelineInv

LEMMA SendWell ==
  ASSUME PipelineInv, NEW c \in Clients, NEW op \in Calls, NEW own \in BOOLEAN, own \/ op \in {"login", "me"},
         Send(c, op, own)
  PROVE  PipelineInv'
<1> DEFINE r == [Home EXCEPT !.op = op, !.pc = "way", !.own = own, !.at = now, !.since = now,
                             !.token = IF own THEN jar ELSE 0]
<1>1. sent' = [sent EXCEPT ![c] = r] /\ seats' = seats /\ jar' = jar /\ now' = now
  BY DEF Send, Arrival
<1>2. now \in Nat /\ Len(seats) \in Nat /\ jar \in 0..Len(seats)
  BY LenProperties DEF PipelineInv
<1>3. (IF own THEN jar ELSE 0) \in 0..Len(seats) /\ (IF own THEN jar ELSE 0) \in Nat
  BY <1>2
<1>4. /\ r \in SentRow /\ r.pc = "way" /\ r.at = now /\ r.since = now /\ r.own = own /\ r.op = op /\ r.who = 0
      /\ r.token = (IF own THEN jar ELSE 0) /\ r.cookies = <<>>
  BY <1>2, <1>3, EmptySeq DEF Home, SentRow, Stages
<1> HIDE DEF r
<1>5. sent'[c] = r
  BY <1>1 DEF PipelineInv
<1>6. OnItsWay(sent[c])'
  BY <1>1, <1>2, <1>4, <1>5, PipelineAssumption DEF OnItsWay
<1>7. HasErased(sent[c])' /\ HasAnswered(sent[c])' /\ OfAnother(sent[c])'
  BY <1>4, <1>5 DEF HasErased, HasAnswered, OfAnother, InHand
<1>8. UnderWay(sent[c])'
  BY <1>1, <1>3, <1>4, <1>5, <1>6, <1>7 DEF UnderWay, InHand
<1> QED
  BY <1>1, <1>4, <1>8, Unmoved, OneCalls DEF PipelineInv

(* The browser has the answer, or it was lost.                              *)
LEMMA EndsWell ==
  ASSUME PipelineInv, NEW c \in Clients, Receive(c) \/ LoseAnswer(c)
  PROVE  PipelineInv'
<1>1. sent' = [sent EXCEPT ![c] = Home] /\ seats' = seats /\ now' = now /\ sent[c].pc = "answer"
  BY DEF Receive, LoseAnswer, clock
<1>2. sent'[c] = Home
  BY <1>1 DEF PipelineInv
<1>3. sent[c] \in SentRow /\ UnderWay(sent[c]) /\ Len(seats) \in Nat /\ jar \in 0..Len(seats)
  BY LenProperties DEF PipelineInv
<1>4. jar' \in 0..Len(seats)
  <2>1. CASE LoseAnswer(c)
    BY <1>3, <2>1 DEF LoseAnswer
  <2>2. CASE Receive(c) /\ sent[c].cookies = <<>>
    BY <1>3, <2>2 DEF Receive, Applied
  <2>3. CASE Receive(c) /\ sent[c].cookies # <<>>
    <3> DEFINE k == sent[c].cookies
    <3>1. k \in Seq(Nat) /\ jar' = k[Len(k)]
      BY <1>3, <2>3 DEF Receive, Applied, SentRow
    <3>2. Len(k) \in DOMAIN k
      BY <3>1, <2>3, LenProperties, EmptySeq
    <3>3. k[Len(k)] \in 1..Len(seats) \/ k[Len(k)] = 0
      BY <3>2, <2>3, <1>1, <1>3 DEF UnderWay, HasAnswered
    <3> QED
      BY <3>1, <3>3, <1>3
  <2> QED
    BY <2>1, <2>2, <2>3
<1>5. UnderWay(sent[c])'
  <2>1. /\ Home.own /\ Home.token = 0 /\ Home.who = 0 /\ Home.pc = "home"
    BY HomeIs
  <2>2. 0 \in 0..Len(seats')
    BY <1>1, <1>3
  <2> QED
    BY <1>2, <2>1, <2>2 DEF UnderWay, OnItsWay, HasErased, HasAnswered, OfAnother, InHand
<1> QED
  BY <1>1, <1>4, <1>5, HomeIs, Unmoved, OneCalls DEF PipelineInv

(* What the handlers answer with, after what the layer of the session set.  *)
LayerSets == {<<>>, <<0>>}
LEMMA HandOf ==
  ASSUME PipelineInv, NEW c \in Clients, InHand(sent[c])
  PROVE  /\ sent[c].own /\ sent[c].who \in {0, sent[c].token} /\ sent[c].who \in 0..Len(seats)
         /\ sent[c].op \notin {"login", "accept"} => sent[c].who # 0
         /\ sent[c].cookies \in Seq(Nat) /\ sent[c].cookies \in LayerSets
<1>1. sent[c] \in SentRow /\ UnderWay(sent[c]) /\ Len(seats) \in Nat
  BY LenProperties DEF PipelineInv
<1>2. 0 \in 0..Len(seats)
  BY <1>1
<1> QED
  BY <1>1, <1>2 DEF UnderWay, OfAnother, HasErased, SentRow, LayerSets
LEMMA CookieAdded ==
  ASSUME NEW q \in LayerSets, NEW n \in Nat
  PROVE  /\ Append(q, n) \in Seq(Nat) /\ Append(q, n)[Len(Append(q, n))] = n
         /\ n = 0 => \A i \in DOMAIN Append(q, n) : Append(q, n)[i] = 0
<1>1. q \in Seq(Nat) /\ Len(q) \in {0, 1} /\ \A i \in 1..Len(q) : q[i] = 0
  <2>1. CASE q = <<>>
    BY <2>1, EmptySeq
  <2>2. CASE q = <<0>>
    BY <2>2
  <2> QED
    BY <2>1, <2>2 DEF LayerSets
<1> DEFINE k == Append(q, n)
<1>2. /\ k \in Seq(Nat) /\ Len(k) = Len(q) + 1 /\ k[Len(q) + 1] = n
      /\ \A i \in 1..Len(q) : k[i] = q[i]
  BY <1>1, AppendProperties
<1> HIDE DEF k
<1>3. DOMAIN k = 1..Len(q) + 1
  BY <1>2, LenProperties
<1>4. \A i \in 1..Len(q) + 1 : i \in 1..Len(q) \/ i = Len(q) + 1
  BY <1>1
<1>5. n = 0 => \A i \in DOMAIN k : k[i] = 0
  BY <1>1, <1>2, <1>3, <1>4
<1> QED
  BY <1>2, <1>5 DEF k
LEMMA RepliesWell ==
  ASSUME PipelineInv, now' = now, seats' \in Seq(SeatRow), Lasts(seats, seats'), jar' = jar,
         NEW c \in Clients, InHand(sent[c]), Replies(c)
  PROVE  PipelineInv'
<1>1. sent[c].cookies \in Seq(Nat) /\ Answers(c, sent[c].cookies)
  BY HandOf DEF Replies
<1> QED
  BY <1>1, AnswersWell
LEMMA ClearsWell ==
  ASSUME PipelineInv, now' = now, seats' \in Seq(SeatRow), Lasts(seats, seats'), jar' = jar,
         NEW c \in Clients, InHand(sent[c]), Clears(c), sent[c].op = "logout" \/ OwnOver(sent[c])
  PROVE  PipelineInv'
<1> DEFINE k == Append(sent[c].cookies, 0)
<1>1. Answers(c, k)
  BY DEF Clears, WithCookie
<1>3. k \in Seq(Nat) /\ \A i \in DOMAIN k : k[i] = 0
  BY HandOf, CookieAdded
<1> HIDE DEF k
<1> QED
  BY <1>1, <1>3, AnswersWell
LEMMA GivesWell ==
  ASSUME PipelineInv, now' = now, jar' = jar, NEW c \in Clients, InHand(sent[c]), Gives(c),
         NEW T \in Seq(SeatRow), Len(T) = Len(seats), \A m \in 1..Len(seats) : seats[m].end # "" => T[m] = seats[m],
         NEW e \in SeatRow, seats' = Append(T, e)
  PROVE  PipelineInv'
<1> DEFINE n == Len(seats) + 1
           k == Append(sent[c].cookies, n)
<1>1. Answers(c, k)
  BY DEF Gives, WithCookie
<1>2. seats' \in Seq(SeatRow) /\ Len(seats') = n /\ Lasts(seats, seats')
  BY AddedLasts DEF PipelineInv
<1>3. n \in Nat /\ n \in 1..Len(seats')
  <2>1. Len(seats) \in Nat
    BY LenProperties DEF PipelineInv
  <2> QED
    BY <2>1, <1>2, OneMore
<1> HIDE DEF n
<1>4. k \in Seq(Nat) /\ k[Len(k)] = n
  BY <1>3, HandOf, CookieAdded
<1> HIDE DEF k
<1>5. sent[c].own
  BY HandOf
<1> QED
  BY <1>1, <1>2, <1>3, <1>4, <1>5, AnswersWell

LEMMA SameSeats ==
  ASSUME PipelineInv, NEW n \in 0..Len(seats), NEW end \in {"replaced", "ended"}, seats' = Ended(seats, n, end)
  PROVE  seats' \in Seq(SeatRow) /\ Lasts(seats, seats')
<1>1. Len(seats) \in Nat
  BY LenProperties DEF PipelineInv
<1>2. seats' \in Seq(SeatRow) /\ Len(seats') = Len(seats) /\ \A m \in 1..Len(seats) : seats[m].end # "" => seats'[m] = seats[m]
  BY EndedLasts DEF PipelineInv
<1> QED
  BY <1>1, <1>2, OneMore DEF Lasts
LEMMA NewSeat == \A stage \in Stages : Seat(stage, FALSE) \in SeatRow
  BY DEF Seat, SeatRow
LEMMA LoginWell == ASSUME PipelineInv, NEW c \in Clients, Login(c) PROVE PipelineInv'
<1> DEFINE T == Ended(seats, sent[c].who, "replaced")
<1>1. InHand(sent[c]) /\ Gives(c) /\ now' = now /\ jar' = jar /\ seats' = Append(T, Seat("mfa_pending", FALSE))
  BY DEF Login, InHand, clock
<1>2. sent[c].who \in 0..Len(seats)
  BY <1>1, HandOf
<1>3. T \in Seq(SeatRow) /\ Len(T) = Len(seats) /\ \A m \in 1..Len(seats) : seats[m].end # "" => T[m] = seats[m]
  BY <1>2, EndedLasts DEF PipelineInv
<1>4. Seat("mfa_pending", FALSE) \in SeatRow
  BY NewSeat DEF Stages
<1> HIDE DEF T
<1> QED
  BY <1>1, <1>3, <1>4, GivesWell
LEMMA AcceptWell == ASSUME PipelineInv, NEW c \in Clients, Accept(c) PROVE PipelineInv'
<1> DEFINE T == [n \in DOMAIN seats |-> Ended(seats, n, "replaced")[n]]
<1>1. InHand(sent[c]) /\ Gives(c) /\ now' = now /\ jar' = jar /\ seats' = Append(T, Seat("setup", FALSE))
  BY DEF Accept, InHand, clock
<1>3. T \in Seq(SeatRow) /\ Len(T) = Len(seats) /\ \A m \in 1..Len(seats) : seats[m].end # "" => T[m] = seats[m]
  BY AllEndedLast DEF PipelineInv
<1>4. Seat("setup", FALSE) \in SeatRow
  BY NewSeat DEF Stages
<1> HIDE DEF T
<1> QED
  BY <1>1, <1>3, <1>4, GivesWell
LEMMA RotateWell == ASSUME PipelineInv, NEW c \in Clients, Rotate(c) PROVE PipelineInv'
<1> DEFINE T == Ended(seats, sent[c].who, "replaced")
<1>1. InHand(sent[c]) /\ Gives(c) /\ now' = now /\ jar' = jar /\ seats' = Append(T, Seat("active", FALSE))
  BY DEF Rotate, InHand, clock
<1>2. sent[c].who \in 0..Len(seats)
  BY <1>1, HandOf
<1>3. T \in Seq(SeatRow) /\ Len(T) = Len(seats) /\ \A m \in 1..Len(seats) : seats[m].end # "" => T[m] = seats[m]
  BY <1>2, EndedLasts DEF PipelineInv
<1>4. Seat("active", FALSE) \in SeatRow
  BY NewSeat DEF Stages
<1> HIDE DEF T
<1> QED
  BY <1>1, <1>3, <1>4, GivesWell
LEMMA LostWell == ASSUME PipelineInv, NEW c \in Clients, LostSession(c) PROVE PipelineInv'
<1>1. InHand(sent[c]) /\ now' = now /\ jar' = jar /\ seats' = seats /\ sent[c].op \notin {"login", "accept"}
  BY DEF LostSession, InHand, clock
<1>2. seats' \in Seq(SeatRow) /\ Lasts(seats, seats')
  BY <1>1, Unmoved
<1>3. CASE NoSession(sent[c].who)
  <2>1. sent[c].token # 0 /\ seats[sent[c].token].end = "ended"
    BY <1>1, <1>3, HandOf DEF NoSession
  <2>2. OwnOver(sent[c]) /\ Clears(c)
    BY <1>3, <2>1 DEF OwnOver, LostSession
  <2> QED
    BY <1>1, <1>2, <2>2, ClearsWell
<1>4. CASE ~NoSession(sent[c].who)
  BY <1>1, <1>2, <1>4, RepliesWell DEF LostSession
<1> QED
  BY <1>3, <1>4
LEMMA LabelWell == ASSUME PipelineInv, NEW c \in Clients, Label(c) PROVE PipelineInv'
<1> DEFINE r == [sent[c] EXCEPT !.pc = "approve"]
<1>1. sent[c] \in SentRow /\ UnderWay(sent[c]) /\ InHand(sent[c])
  BY DEF PipelineInv, Label, InHand
<1>2. sent' = [sent EXCEPT ![c] = r] /\ seats' = seats /\ jar' = jar /\ now' = now
  BY DEF Label, clock
<1>3. r \in SentRow /\ r.pc = "approve" /\ r.who = sent[c].who /\ r.cookies = sent[c].cookies
       /\ r.op = sent[c].op /\ r.token = sent[c].token /\ r.own = sent[c].own /\ r.since = sent[c].since
  BY <1>1 DEF SentRow
<1> HIDE DEF r
<1>4. sent'[c] = r
  BY <1>2 DEF PipelineInv
<1>5. UnderWay(sent[c])'
  BY <1>1, <1>2, <1>3, <1>4 DEF UnderWay, OnItsWay, HasErased, HasAnswered, OfAnother, InHand, OwnOver, Missed
<1> QED
  BY <1>2, <1>3, <1>5, Unmoved, OneCalls DEF PipelineInv

LEMMA PipelineMove == ASSUME PipelineInv, PipelineNext PROVE PipelineInv'
<1>1. now' = now
  BY PipelineStill
<1>2. ASSUME NEW n \in DOMAIN seats, EndElsewhere(n) PROVE PipelineInv'
  <2>1. seats' = Ended(seats, n, "ended") /\ sent' = sent /\ jar' = jar
    BY <1>2 DEF EndElsewhere
  <2>2. n \in 0..Len(seats) /\ Len(seats) \in Nat
    BY LenProperties DEF PipelineInv
  <2>3. seats' \in Seq(SeatRow) /\ Lasts(seats, seats')
    BY <2>1, <2>2, SameSeats
  <2>4. \A d \in Clients : sent[d].pc = "way" => now' <= sent[d].since + Transit
    BY <1>1 DEF PipelineInv, UnderWay, OnItsWay
  <2>5. \A d \in Clients : UnderWay(sent[d])'
    BY <2>1, <2>3, <2>4, StaysUnderWay
  <2>6. jar' \in 0..Len(seats')
    <3>1. Len(seats') \in Nat /\ Len(seats) <= Len(seats')
      BY <2>3, LenProperties DEF Lasts
    <3> QED
      BY <3>1, <2>1, <2>2 DEF PipelineInv
  <2> QED
    BY <1>1, <2>1, <2>3, <2>5, <2>6 DEF PipelineInv
<1>3. ASSUME NEW c \in Clients, RefuseCall(c) \/ Me(c) \/ DecideApproval(c) PROVE PipelineInv'
  <2>1. InHand(sent[c]) /\ Replies(c) /\ seats' = seats /\ jar' = jar
    BY <1>3 DEF RefuseCall, Me, DecideApproval, InHand
  <2> QED
    BY <1>1, <2>1, Unmoved, RepliesWell
<1>4. ASSUME NEW c \in Clients, Logout(c) PROVE PipelineInv'
  <2>1. InHand(sent[c]) /\ Clears(c) /\ seats' = Ended(seats, sent[c].who, "ended") /\ jar' = jar /\ sent[c].op = "logout"
    BY <1>4 DEF Logout, InHand
  <2>2. sent[c].who \in 0..Len(seats)
    BY <2>1, HandOf
  <2>3. seats' \in Seq(SeatRow) /\ Lasts(seats, seats')
    BY <2>1, <2>2, SameSeats
  <2> QED
    BY <1>1, <2>1, <2>3, ClearsWell
<1>5. ASSUME NEW c \in Clients, NEW n \in 0..Len(seats), Own(c, n) PROVE PipelineInv'
  <2>1. InHand(sent[c]) /\ Replies(c) /\ seats' = Ended(seats, n, "ended") /\ jar' = jar
    BY <1>5 DEF Own, InHand
  <2>2. seats' \in Seq(SeatRow) /\ Lasts(seats, seats')
    BY <2>1, SameSeats
  <2> QED
    BY <1>1, <2>1, <2>2, RepliesWell
<1>6. ASSUME NEW c \in Clients, NEW op \in Calls, Send(c, op, TRUE) PROVE PipelineInv'
  BY <1>6, SendWell
<1>7. ASSUME NEW c \in Clients, NEW op \in {"login", "me"}, Send(c, op, FALSE) PROVE PipelineInv'
  BY <1>7, SendWell DEF Calls
<1> QED
  BY <1>2, <1>3, <1>4, <1>5, <1>6, <1>7, LayersWell, LostWell, LoginWell, AcceptWell, RotateWell, LabelWell, EndsWell
  DEF PipelineNext

LEMMA PipelineKeeps == ASSUME PipelineInv, [Next]_edge PROVE PipelineInv'
<1>1. CASE PipelineNext
  BY <1>1, PipelineMove
<1>2. CASE ~PipelineNext /\ [Next]_edge
  <2>1. UNCHANGED pipeline
    BY <1>2 DEF Next, edge, Tick
  <2>2. now' \in Nat /\ \A d \in Clients : sent[d].pc = "way" => now' <= sent[d].since + Transit
    <3>1. CASE Tick
      <4>1. now' = now + Micro /\ now \in Nat /\ Micro \in Nat
        BY <3>1, ClockAssumption DEF Tick, Passes, PipelineInv
      <4>2. ASSUME NEW d \in Clients, sent[d].pc = "way" PROVE now' <= sent[d].since + Transit
        BY <3>1, <4>1, <4>2 DEF Tick, PipelineInTime, PipelineInv, UnderWay, OnItsWay
      <4> QED
        BY <4>1, <4>2
    <3>2. CASE ~Tick
      <4>1. now' = now
        BY <1>2, <3>2, LimitsStill, CookiesStill, HumanStill, PlayersStill, ListsStill, ProgramsStill, HealthStill,
           CallersStill, BlobsStill DEF Next, edge, clock
      <4> QED
        BY <4>1 DEF PipelineInv, UnderWay, OnItsWay
    <3> QED
      BY <3>1, <3>2
  <2>3. seats' \in Seq(SeatRow) /\ Lasts(seats, seats')
    BY <2>1, Unmoved DEF pipeline
  <2>4. \A d \in Clients : UnderWay(sent[d])'
    BY <2>1, <2>2, <2>3, StaysUnderWay DEF pipeline
  <2> QED
    BY <2>1, <2>2, <2>3, <2>4 DEF pipeline, PipelineInv
<1> QED
  BY <1>1, <1>2

(* The answer that is received.                                             *)
LEMMA ReceivedWell ==
  ASSUME PipelineInv, NEW c \in Clients, Receive(c)
  PROVE  /\ jar' = 0 /\ Seated(jar) => sent[c].op = "logout" \/ OwnOver(sent[c])
         /\ (\E i \in DOMAIN sent[c].cookies : sent[c].cookies[i] # 0) => jar' # 0
         /\ ~sent[c].own => jar' = jar
<1> DEFINE k == sent[c].cookies
<1>1. sent[c] \in SentRow /\ HasAnswered(sent[c]) /\ OfAnother(sent[c]) /\ k \in Seq(Nat)
  BY DEF PipelineInv, UnderWay, SentRow
<1>2. jar' = Applied(k) /\ sent[c].pc = "answer"
  BY DEF Receive
<1>3. CASE k = <<>>
  <2>1. DOMAIN k = {} /\ jar' = jar
    BY <1>2, <1>3 DEF Applied
  <2> QED
    BY <2>1 DEF Seated
<1>4. CASE k # <<>>
  <2>1. jar' = k[Len(k)] /\ sent[c].own /\ Len(k) \in DOMAIN k
    BY <1>1, <1>2, <1>4, LenProperties, EmptySeq DEF Applied, OfAnother
  <2>2. k[Len(k)] \in 1..Len(seats) \/ ((\A i \in DOMAIN k : k[i] = 0) /\ (sent[c].op = "logout" \/ OwnOver(sent[c])))
    BY <1>1, <1>2, <1>4 DEF HasAnswered
  <2>3. 0 \notin 1..Len(seats)
    <3>1. Len(seats) \in Nat
      BY LenProperties DEF PipelineInv
    <3> QED
      BY <3>1
  <2> QED
    BY <2>1, <2>2, <2>3
<1> QED
  BY <1>3, <1>4
-----------------------------------------------------------------------------
Inv ==
  HumanInv /\ ProgramsInv /\ LettersInv /\ PlayersInv /\ HealthInv /\ CookiesInv /\ BlobsInv /\ ListsInv
  /\ PipelineInv

(* The invariants of the parts together are inductive.                      *)
THEOREM Invariance == Spec => []Inv
<1>1. Init => Inv
  BY HumanStarts, ProgramsStart, LettersStart, PlayersStart, HealthStart, CookiesStart, BlobsStart, ListsStart, PipelineStart
  DEF Inv
<1>2. Inv /\ [Next]_edge => Inv'
  <2> SUFFICES ASSUME Inv, [Next]_edge PROVE Inv'
    OBVIOUS
  <2> QED
    BY HumanKeeps, ProgramsKeeps, LettersKeeps, PlayersKeeps, HealthKeeps, CookiesKeeps, BlobsKeeps, ListsKeeps,
       PipelineKeeps DEF Inv
<1> QED
  BY <1>1, <1>2, PTL DEF Spec

(* While a challenge lives its solution is accepted once, however often it  *)
(* is sent and whatever the clean-up deletes (pow.go: Verify; cleanup.go).   *)
THEOREM SpentWhileLiveAlways == Spec => []SpentWhileLive
<1>1. Inv => SpentWhileLive
  BY DEF Inv, HumanInv
<1> QED
  BY <1>1, Invariance, PTL

(* A process of admin-api that is told to stop has ended before the host    *)
(* kills it, and drains its requests before its background stops            *)
(* (server.go: RunService; httpx: Serve; queue.go: Stop).                   *)
THEOREM StopsInOrderAlways == Spec => []StopsInOrder
<1>1. Inv => StopsInOrder
  BY ProgramsInOrder DEF Inv
<1> QED
  BY <1>1, Invariance, PTL

(* A letter is completed when it was sent, cancelled when nobody wants it,  *)
(* given up after all its attempts, and never in two hands, whatever        *)
(* process stops, dies or rescues it (staff/internal/app/mail.go,           *)
(* mail/job.go).                                                            *)
THEOREM LettersKeptAlways == Spec => []LettersKept
<1>1. Inv => LettersKept
  BY LettersAreKept DEF Inv
<1> QED
  BY <1>1, Invariance, PTL

(* The caches of both APIs tell the truth: a session served is no older     *)
(* than the TTL of its load (loader.go), a refusal is remembered while      *)
(* there is room (session.go: negCache), the database is pinged once in a   *)
(* TTL (health.go).                                                         *)
THEOREM CachesTrueAlways == Spec => []CachesTrue
<1>1. PlayersInv => ServedInTime
  BY DEF PlayersInv, Asking, ServedInTime
<1>2. CookiesInv => QueueCovers /\ Remembered
  BY DEF CookiesInv
<1>3. Inv => CachesTrue
  BY <1>1, <1>2, HealthRarely DEF Inv, CachesTrue
<1> QED
  BY <1>3, Invariance, PTL

(* Who reads to the end of a list has seen every row that belonged to it    *)
(* all the while, and none twice unless it moved, with full pages and the   *)
(* status asked for; the rights in the queries are those of the gate and of *)
(* the scenarios (page.go, approvals.sql, audit.sql, staff.sql, geo.sql);   *)
(* and a file has the type it was put with, and a deleted one leaves none,  *)
(* unless two writers met or one stopped half way (blob/fs.go).             *)
THEOREM ReadsWholeAlways == Spec => []ReadsWhole
<1>1. Inv => ReadsWhole
  BY ListsAreWhole, BlobsWhole DEF Inv, ReadsWhole
<1> QED
  BY <1>1, Invariance, PTL

(* The browser of an employee loses a session that stands only by a logout,  *)
(* or by the answer to a request with a cookie that was over: ended, or      *)
(* replaced so long before the request was sent that its answer was lost;    *)
(* a new token stays, and no page of another site changes the cookie         *)
(* (httpapi/admin/session.go: middleware; staff/admin/handler.go).           *)
THEOREM StaysSignedInAlways == Spec => StaysSignedIn
<1>1. Inv =>
        [\A c \in Clients : Receive(c) =>
           /\ jar' = 0 /\ Seated(jar) => sent[c].op = "logout" \/ OwnOver(sent[c])
           /\ (\E i \in DOMAIN sent[c].cookies : sent[c].cookies[i] # 0) => jar' # 0
           /\ ~sent[c].own => jar' = jar]_<<clock, pipeline>>
  BY ReceivedWell DEF Inv
<1> QED
  BY <1>1, Invariance, PTL DEF StaysSignedIn
=============================================================================

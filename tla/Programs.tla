------------------------------ MODULE Programs ------------------------------
(***************************************************************************)
(* The life of a process of admin-api (cmd/admin-api, platform/server,      *)
(* httpx.Serve, queue.Stop) and of the worker (cmd/worker): it starts,      *)
(* serves, is told to stop, drains its requests, stops its background, and  *)
(* closes the pool; or it dies.  What a request does is in Letters.         *)
(***************************************************************************)
EXTENDS EdgeClock, FiniteSets

CONSTANTS
  Admins, Workers,  \* processes: of admin-api, of the worker
  Drain,            \* ADMIN_SHUTDOWN_TIMEOUT
  SoftOfAdmin, SoftOfWorker,  \* softStopTimeout of each
  HardStop,         \* hardStopTimeout
  KillAfter         \* the host: from SIGTERM to SIGKILL

ASSUME ProgramsAssumption ==
  /\ {Drain, SoftOfAdmin, SoftOfWorker, HardStop, KillAfter} \subseteq Nat
  /\ Drain + SoftOfAdmin + HardStop < KillAfter /\ Patience < KillAfter

VARIABLES
  proc,    \* proc[p]: its phase, since when; when it was told to stop; its client of River
  serving  \* serving[p]: when the request in flight began, or Never

programs == <<proc, serving>>

Processes == Admins \cup Workers
NotYet == -1
Down == [phase |-> "down", since |-> 0, term |-> NotYet, river |-> "off"]
Up == [phase |-> "up", since |-> 0, term |-> NotYet, river |-> "off"]

ProgramsTypeOK ==
  /\ \A p \in Processes : /\ proc[p].phase \in {"down", "up", "drain", "loops", "soft", "hard", "closing"}
                          /\ proc[p].river \in {"off", "on", "failed"} /\ proc[p].term \in Nat \cup {NotYet}
  /\ serving \in [Processes -> Nat \cup {NotYet}]

ProgramsInit ==
  /\ \E up \in SUBSET Processes : (plan.part # "programs" => up = {})
       /\ proc = [p \in Processes |-> IF p \in up THEN [Up EXCEPT !.river = "on"] ELSE Down]
  /\ serving = [p \in Processes |-> NotYet]

Alive(p) == proc[p].phase # "down"
(* River takes jobs: its client has started and was not told to stop yet.   *)
Taking(p) == proc[p].river = "on" /\ proc[p].phase \in {"up", "drain", "loops"}
Goes(p, phase) == proc' = [proc EXCEPT ![p].phase = phase, ![p].since = now]

-----------------------------------------------------------------------------
(* RunService opens the port and starts the background, runBackground the   *)
(* client of River; if that fails, HTTP is stopped.  The worker starts the  *)
(* client itself and ends if it cannot.                                     *)
Start(p) == Arrival("programs") /\ ~Alive(p) /\ proc' = [proc EXCEPT ![p] = Up] /\ UNCHANGED serving
RiverStarts(p) ==
  /\ proc[p].phase \in {"up", "drain", "loops"} /\ proc[p].river = "off"
  /\ proc' = [proc EXCEPT ![p].river = "on"] /\ UNCHANGED <<clock, serving>>
BackgroundFails(p) ==
  /\ proc[p].phase \in {"up", "drain", "loops"} /\ proc[p].river = "off"
  /\ IF p \in Workers THEN proc' = [proc EXCEPT ![p] = Down]
     ELSE proc' = [proc EXCEPT ![p].river = "failed",
                               ![p].phase = IF @ = "up" THEN "drain" ELSE @,
                               ![p].since = IF proc[p].phase = "up" THEN now ELSE @]
  /\ UNCHANGED <<clock, serving>>

(* SIGTERM: no new request; the background does not see it yet.             *)
TerminateAtOnce(p) == IF p \in Admins THEN "soft" ELSE "loops"
Terminates(p) == IF p \in Admins THEN "drain" ELSE "loops"
Terminate(p) ==
  /\ Arrival("programs") /\ Alive(p) /\ proc[p].term = NotYet
  /\ proc' = [proc EXCEPT ![p].term = now,
                          ![p].phase = IF @ = "up" THEN Terminates(p) ELSE @,
                          ![p].since = IF proc[p].phase = "up" THEN now ELSE @]
  /\ UNCHANGED serving

(* httpx.Serve: Shutdown waits for the requests in flight, so long; those   *)
(* that are slower go on.                                                  *)
Drained(p) ==
  /\ proc[p].phase = "drain" /\ (serving[p] = NotYet \/ now >= proc[p].since + Drain)
  /\ Goes(p, "loops") /\ UNCHANGED <<clock, serving>>

(* The cleaner or the relay ends, its statement rolled back; then           *)
(* queue.Stop: no new jobs, those that run may end; after softStopTimeout   *)
(* they are cancelled, after hardStopTimeout nobody waits for them.         *)
LoopsEnd(p) ==
  /\ proc[p].phase = "loops" /\ proc[p].river # "off"
  /\ Goes(p, IF proc[p].river = "on" THEN "soft" ELSE "closing") /\ UNCHANGED <<clock, serving>>
SoftStopOfWorker(p) == SoftOfWorker
SoftStop(p) == IF p \in Admins THEN SoftOfAdmin ELSE SoftOfWorker
Stopped(p, running) ==
  /\ proc[p].phase \in {"soft", "hard"}
  /\ ~running \/ (proc[p].phase = "hard" /\ now >= proc[p].since + HardStop)
  /\ Goes(p, "closing") /\ UNCHANGED <<clock, serving>>
CancelJobs(p, running) ==
  /\ proc[p].phase = "soft" /\ running /\ now >= proc[p].since + SoftStop(p)
  /\ Goes(p, "hard") /\ UNCHANGED <<clock, serving>>

(* pool.Close waits for the connections in use; the process ends.           *)
Ends(p) ==
  /\ proc[p].phase = "closing" /\ serving[p] = NotYet
  /\ proc' = [proc EXCEPT ![p] = Down] /\ UNCHANGED <<clock, serving>>

(* A crash; the SIGKILL of the host.                                       *)
Dies(p) ==
  /\ Alive(p) /\ proc' = [proc EXCEPT ![p] = Down] /\ serving' = [serving EXCEPT ![p] = NotYet]
  /\ \/ Arrival("programs")
     \/ proc[p].term # NotYet /\ now >= proc[p].term + KillAfter /\ UNCHANGED clock

(* A request is accepted; it ends, one way or the other, by its deadline.   *)
Accepts(p) ==
  /\ Arrival("programs") /\ p \in Admins /\ proc[p].phase = "up" /\ serving[p] = NotYet
  /\ serving' = [serving EXCEPT ![p] = now] /\ UNCHANGED proc
Replied(p) == serving[p] # NotYet /\ serving' = [serving EXCEPT ![p] = NotYet] /\ UNCHANGED <<clock, proc>>

(* Nobody outlasts a deadline: a wait that is over ends.                    *)
Deadline(p) ==
  CASE proc[p].phase = "drain" -> proc[p].since + Drain
    [] proc[p].phase = "loops" -> proc[p].since
    [] proc[p].phase = "soft"  -> proc[p].since + SoftStop(p)
    [] proc[p].phase = "hard"  -> proc[p].since + HardStop
    [] proc[p].phase = "closing" -> IF serving[p] = NotYet THEN proc[p].since ELSE now + Micro
    [] OTHER -> now + Micro
ProgramsInTime ==
  \A p \in Processes : /\ now + Micro <= Deadline(p)
                       /\ proc[p].term # NotYet => now + Micro <= proc[p].term + KillAfter
                       /\ serving[p] # NotYet => now + Micro <= serving[p] + Patience

ProgramsNext ==
  \E p \in Processes : Start(p) \/ RiverStarts(p) \/ BackgroundFails(p) \/ Terminate(p) \/ Drained(p)
                       \/ LoopsEnd(p) \/ Accepts(p) \/ Replied(p)

-----------------------------------------------------------------------------
(* A process of admin-api that is told to stop ends by itself before the    *)
(* host kills it, whatever its requests and jobs do; and while a request    *)
(* may still be answered within the drain, the background takes the jobs it *)
(* leaves, unless it has failed itself.                                    *)
StopsInOrder ==
  \A p \in Admins :
    /\ Alive(p) /\ proc[p].term # NotYet => now < proc[p].term + KillAfter
    /\ serving[p] # NotYet /\ proc[p].term # NotYet /\ now < proc[p].term + Drain =>
         proc[p].phase = "drain" \/ proc[p].river = "failed"
=============================================================================

----------------------------- MODULE HumanCheck -----------------------------
(***************************************************************************)
(* Proof of work (backend/internal/platform/humancheck): a challenge with   *)
(* a deadline, a solution that is accepted once, its mark kept until the    *)
(* deadline and then deleted by the clean-up.  The deadline is checked      *)
(* first, the mark is inserted by a statement of its own.  What Verify      *)
(* refuses without looking at the marks (a forged solution, a key that      *)
(* left the list) is left out.                                             *)
(***************************************************************************)
EXTENDS EdgeClock, Sequences, Functions

CONSTANTS
  Challenges, \* bound: challenges, each with its solution
  ChallengeTTL, Second

ASSUME HumanAssumption == {ChallengeTTL, Second} \subseteq Nat \ {0} /\ ChallengeTTL >= Second

VARIABLES
  expires,  \* expires[s]: the deadline in the challenge, or 0
  marks,    \* humancheck_spent: the deadlines stored with the solutions
  proof,    \* proof[c]: the request of client c that brings a solution
  sweep,    \* the clean-up between its subquery and its DELETE
  accepted  \* accepted[s]: when the solution was accepted, since marks were last lost

human == <<expires, marks, proof, sweep, accepted>>

NoProof == [pc |-> "idle", of |-> None, at |-> 0]

NoSweep == [pc |-> "idle", at |-> 0, seen |-> {}]

HumanTypeOK ==
  /\ expires \in [Challenges -> Nat] /\ accepted \in [Challenges -> Seq(Nat)]
  /\ DOMAIN marks \subseteq Challenges /\ \A s \in DOMAIN marks : marks[s] \in Nat
  /\ proof \in [Clients -> [pc : {"idle", "spend"}, of : Challenges \cup {None}, at : Nat]]
  /\ sweep \in [pc : {"idle", "delete"}, at : Nat, seen : SUBSET Challenges]

HumanInit ==
  /\ expires = [s \in Challenges |-> 0] /\ marks = <<>> /\ proof = [c \in Clients |-> NoProof]
  /\ sweep = NoSweep /\ accepted = [s \in Challenges |-> <<>>]

(* The deadline is written in whole seconds.                               *)
NewChallenge(s) ==
  /\ Arrival("human") /\ expires[s] = 0
  /\ expires' = [expires EXCEPT ![s] = ((now + ChallengeTTL) \div Second) * Second]
  /\ UNCHANGED <<marks, proof, sweep, accepted>>

Verify(c, s) ==
  /\ Arrival("human") /\ proof[c] = NoProof /\ now < expires[s]
  /\ proof' = [proof EXCEPT ![c] = [pc |-> "spend", of |-> s, at |-> now]]
  /\ UNCHANGED <<expires, marks, sweep, accepted>>

(* The mark with the deadline of its challenge; ON CONFLICT DO NOTHING.    *)
MarkedNow(s)   == now
MarkedUntil(s) == expires[s]
Mark(s) == marks' = [q \in DOMAIN marks \cup {s} |-> IF q = s THEN MarkedUntil(s) ELSE marks[q]]
Spend(c) ==
  LET s == proof[c].of IN
  /\ proof[c].pc = "spend" /\ s \notin DOMAIN marks /\ Mark(s)
  /\ accepted' = [accepted EXCEPT ![s] = Append(@, now)]
  /\ proof' = [proof EXCEPT ![c] = NoProof] /\ UNCHANGED <<clock, expires, sweep>>
Repeated(c) ==
  /\ proof[c].pc = "spend" /\ proof[c].of \in DOMAIN marks
  /\ proof' = [proof EXCEPT ![c] = NoProof] /\ UNCHANGED <<clock, expires, marks, sweep, accepted>>

(* The request fails before its statement, or after it: the mark stays and  *)
(* nobody was let in.                                                      *)
SpendUnheard(c) ==
  /\ proof[c].pc = "spend" /\ (UNCHANGED marks \/ (proof[c].of \notin DOMAIN marks /\ Mark(proof[c].of)))
  /\ proof' = [proof EXCEPT ![c] = NoProof] /\ UNCHANGED <<clock, expires, sweep, accepted>>

(* The clean-up deletes what is behind its reading of the clock.           *)
SelectMarks ==
  /\ sweep.pc = "idle" /\ \E s \in DOMAIN marks : marks[s] < now
  /\ sweep' = [pc |-> "delete", at |-> now, seen |-> {s \in DOMAIN marks : marks[s] < now}]
  /\ UNCHANGED <<clock, expires, marks, proof, accepted>>
DeleteMarks ==
  /\ sweep.pc = "delete" /\ sweep' = NoSweep
  /\ marks' = Restrict(marks, {s \in DOMAIN marks : s \notin sweep.seen \/ marks[s] >= sweep.at})
  /\ UNCHANGED <<clock, expires, proof, accepted>>

(* The database crashes: an unlogged table is empty afterwards.            *)
CrashMarks ==
  /\ DOMAIN marks # {} /\ marks' = <<>> /\ accepted' = [s \in Challenges |-> <<>>]
  /\ sweep' = NoSweep /\ UNCHANGED <<clock, expires, proof>>

HumanNext ==
  \/ \E s \in Challenges : NewChallenge(s) \/ \E c \in Clients : Verify(c, s)
  \/ \E c \in Clients : Spend(c) \/ Repeated(c) \/ SpendUnheard(c)
  \/ SelectMarks \/ DeleteMarks \/ CrashMarks

-----------------------------------------------------------------------------
(* A solution is accepted once as long as its challenge lives.             *)
SpentWhileLive ==
  \A s \in Challenges : \A i \in 2..Len(accepted[s]) : accepted[s][i] > expires[s]

(* A solution is accepted once: pow.go says that a repeat does not get      *)
(* through when the clean-up has already deleted the mark.                 *)
SpentOnce == \A s \in Challenges : Len(accepted[s]) <= 1
=============================================================================

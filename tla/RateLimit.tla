------------------------------ MODULE RateLimit ------------------------------
(***************************************************************************)
(* The limit of requests by GCRA (backend/internal/platform/ratelimit):    *)
(* one row of rate_limits per key, one UPSERT per check, here for one key. *)
(* The clock is read by the process, before its statement reaches the      *)
(* database; the row may be deleted by the clean-up and lost with the      *)
(* database's crash, for the table is UNLOGGED.                            *)
(*                                                                         *)
(* A duration is a number of units, Micro of them in a microsecond; the    *)
(* clock advances by microseconds, finer readings are cut by the driver.   *)
(***************************************************************************)
EXTENDS EdgeClock, Sequences, FiniteSets

VARIABLES
  tat,    \* the row: the theoretical arrival time, or NoRow
  asks,   \* asks[c]: the call of Allow by client c
  purge,  \* the clean-up between its subquery and its DELETE
  spent,  \* what was spent since the table was last lost: when, by whom, after how many deletions
  erased, \* how often the clean-up deleted the row since
  told    \* the last RetryAfter: until when, and what had been spent by then

limits == <<tat, asks, purge, spent, erased, told>>

NoRow   == -1
Quiet   == [pc |-> "idle", at |-> 0]
Resting == [pc |-> "idle", at |-> 0]
NotTold == [until |-> 0, spent |-> -1]

(* Policy: T is cut to microseconds, the window is T * burst.              *)
IntervalRaw == plan.policy.period \div plan.policy.limit
Interval    == ((plan.policy.period \div plan.policy.limit) \div Micro) * Micro
Burst       == IF plan.policy.burst > 0 THEN plan.policy.burst ELSE plan.policy.limit
Window      == Interval * Burst

(* make_interval of seconds: the database rounds to microseconds.          *)
Rounded(d) == ((d + Micro \div 2) \div Micro) * Micro

LimitsTypeOK ==
  /\ tat \in Nat \cup {NoRow}
  /\ asks \in [Clients -> [pc : {"idle", "take", "refused"}, at : Nat]]
  /\ purge \in [pc : {"idle", "delete"}, at : Nat]
  /\ spent \in Seq([at : Nat, by : {"allow", "add", "unchecked"}, era : 0..erased])
  /\ erased \in Nat
  /\ told \in [until : Int, spent : Nat \cup {-1}]

LimitsInit ==
  /\ tat = NoRow /\ asks = [c \in Clients |-> Quiet]
  /\ purge = Resting /\ spent = <<>> /\ erased = 0 /\ told = NotTold

Later(a, b) == IF a < b THEN b ELSE a

(* The statement Take: a fresh row needs no check, a window is not less     *)
(* than an interval.                                                       *)
Fits(t)  == tat = NoRow \/ Later(tat, t) + Rounded(Interval) <= t + Rounded(Window)
Shift(t) == Later(tat, t) + Rounded(Interval)
Spends(t, by) == tat' = Shift(t) /\ spent' = Append(spent, [at |-> t, by |-> by, era |-> erased]) /\ UNCHANGED erased

Asked(c) == Arrival("limits") /\ asks[c] = Quiet /\ asks' = [asks EXCEPT ![c] = [pc |-> "take", at |-> now]]
            /\ UNCHANGED <<tat, purge, spent, erased, told>>
Take(c) ==
  /\ asks[c].pc = "take" /\ Fits(asks[c].at) /\ Spends(asks[c].at, "allow")
  /\ asks' = [asks EXCEPT ![c] = Quiet] /\ UNCHANGED <<clock, purge, told>>
Refuse(c) ==
  /\ asks[c].pc = "take" /\ ~Fits(asks[c].at)
  /\ asks' = [asks EXCEPT ![c].pc = "refused"] /\ UNCHANGED <<clock, tat, purge, spent, erased, told>>

(* RetryAfter, from the row as it is by then; no row: an interval; never    *)
(* less than a millisecond, which is more than a tick here.                *)
RetryAfter(t) == IF tat = NoRow THEN Interval ELSE Later(Later(tat, t) - t + Interval - Window, Micro)
GetTAT(c) ==
  /\ asks[c].pc = "refused"
  /\ told' = [until |-> asks[c].at + RetryAfter(asks[c].at), spent |-> Len(spent)]
  /\ asks' = [asks EXCEPT ![c] = Quiet] /\ UNCHANGED <<clock, tat, purge, spent, erased>>

(* The store is not available: the middleware lets the request pass.       *)
StoreFails(c) == asks[c] # Quiet /\ asks' = [asks EXCEPT ![c] = Quiet] /\ UNCHANGED <<clock, tat, purge, spent, erased, told>>

(* The clean-up: the subquery sees a snapshot, the outer WHERE is checked   *)
(* again on the row that is there.                                         *)
Select ==
  /\ purge.pc = "idle" /\ tat # NoRow /\ tat < now
  /\ purge' = [pc |-> "delete", at |-> now] /\ UNCHANGED <<clock, tat, asks, spent, erased, told>>
Erased == tat # NoRow /\ tat < purge.at
DeleteExpired ==
  /\ purge.pc = "delete" /\ purge' = Resting
  /\ tat' = IF Erased THEN NoRow ELSE tat
  /\ erased' = IF Erased THEN erased + 1 ELSE erased
  /\ UNCHANGED <<clock, asks, spent, told>>

(* The database crashes: an unlogged table is empty afterwards.            *)
CrashLimits ==
  /\ tat # NoRow /\ tat' = NoRow /\ spent' = <<>> /\ erased' = 0 /\ told' = NotTold
  /\ purge' = Resting /\ UNCHANGED <<clock, asks>>

LimitsNext ==
  \/ \E c \in Clients : Asked(c) \/ Take(c) \/ Refuse(c) \/ GetTAT(c) \/ StoreFails(c)
  \/ Select \/ DeleteExpired \/ CrashLimits

-----------------------------------------------------------------------------
(* Whoever was let through fits the policy with what was spent before.  A   *)
(* request may have read the clock before the clean-up that forgot a burst  *)
(* did: each clean-up in between costs up to the age of a request.  What is *)
(* counted after a look (Add after Over) is ahead by no more than the       *)
(* requests that run at once, the age of a request, for each is counted at  *)
(* a moment of its own, and those that could not look.                     *)
Unchecked(i, j) == Cardinality({k \in i..j : spent[k].by = "unchecked"})
Bounded ==
  \A i, j \in DOMAIN spent : i < j /\ spent[j].by # "unchecked" =>
    (j - i + 1 - Burst) * Interval <= spent[j].at - spent[i].at + (spent[j].era - spent[i].era) * Patience +
      (IF spent[j].by = "allow" THEN 0 ELSE Patience + (Cardinality(Clients) + Unchecked(i, j)) * Interval)

(* Whoever is refused does not fit the policy as it is written (its exact   *)
(* interval is the period by the limit), unless a request that read the     *)
(* clock later was served first; and not after the time a refusal named,    *)
(* if nothing was spent since.                                             *)
RefusedRightly ==
  \A c \in Clients : asks[c].pc = "take" /\ asks'[c].pc = "refused" =>
    /\ \E i \in DOMAIN spent :
         \/ spent[i].at > asks[c].at
         \/ (Len(spent) - i + 2 - Burst) * plan.policy.period > (asks[c].at - spent[i].at) * plan.policy.limit
    /\ told.spent = Len(spent) => asks[c].at < told.until
==============================================================================

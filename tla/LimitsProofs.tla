---------------------------- MODULE LimitsProofs ----------------------------
(***************************************************************************)
(* Theorem about the limits of requests, for every policy, any number of   *)
(* requests at a time and any number of visits: the limit is the policy,   *)
(* no more and no less, and counts everybody for themselves.               *)
(*                                                                         *)
(* One row: tat lies an interval for each later spend behind every spend   *)
(* (Owing) and no further than behind one of them (Exact), so it grows by  *)
(* what was counted and by nothing else; a request let through found all   *)
(* that was due within the window (AllowedOnly).  A deletion forgets only  *)
(* what is over, but a slow request may come back to an empty row with an  *)
(* older clock: each deletion costs the age of a request (Due, era).       *)
(*                                                                         *)
(* Many rows: the messages the hops leave tell the process who calls       *)
(* (Resolved), a request is told to ask for all that is known of its       *)
(* caller and nothing else (Asks), a key is of one caller in one class     *)
(* (KeysApart), and no key has more marks than its limit (Marked).         *)
(***************************************************************************)
EXTENDS EdgeProofs

-----------------------------------------------------------------------------
(* Limits.  Intervals are whole microseconds, so that the database rounds   *)
(* nothing.                                                                *)
LEMMA Divided == ASSUME NEW a \in Nat, NEW b \in Nat \ {0} PROVE a \div b \in Nat /\ b * (a \div b) <= a /\ a < b * (a \div b) + b
  OBVIOUS
LEMMA Quotient ==
  ASSUME NEW m \in Nat \ {0}, NEW q \in Nat, NEW p \in Nat, m * p <= q * m + (m \div 2), q * m + (m \div 2) < m * p + m
  PROVE  p = q
  OBVIOUS
LEMMA Monotone == ASSUME NEW a \in Int, NEW b \in Int, a <= b, NEW c \in Nat PROVE a * c <= b * c
  OBVIOUS
LEMMA Distributes == ASSUME NEW a \in Int, NEW b \in Int, NEW c \in Int PROVE (a + b) * c = a * c + b * c /\ (a - b) * c = a * c - b * c
  OBVIOUS
LEMMA Assoc == ASSUME NEW a \in Int, NEW b \in Int, NEW c \in Int PROVE (a * b) * c = a * (b * c) /\ a * b = b * a
  OBVIOUS
LEMMA MicroWhole == ASSUME NEW q \in Nat PROVE Rounded(q * Micro) = q * Micro
<1> DEFINE h == q * Micro + (Micro \div 2)
           p == h \div Micro
<1>1. Micro \in Nat \ {0} /\ Micro \div 2 \in Nat
  BY ClockAssumption
<1>2. q * Micro \in Nat /\ h \in Nat
  BY <1>1
<1>3. p \in Nat /\ Micro * p <= h /\ h < Micro * p + Micro
  BY <1>1, <1>2, Divided
<1> HIDE DEF p
<1>4. p = q
  BY <1>1, <1>3, Quotient
<1> QED
  BY <1>4 DEF Rounded, p

LEMMA PolicyIs ==
  ASSUME plan \in Plans
  PROVE  /\ Interval \in Nat /\ Burst \in Nat \ {0} /\ Window = Interval * Burst /\ Window \in Nat /\ Interval <= Window
         /\ Rounded(Interval) = Interval /\ Rounded(Window) = Window
         /\ plan.policy.limit \in Nat \ {0} /\ plan.policy.period \in Nat \ {0}
         /\ Interval * plan.policy.limit <= plan.policy.period
<1>1. Micro \in Nat \ {0} /\ plan.policy.limit \in Nat \ {0} /\ plan.policy.period \in Nat \ {0} /\ plan.policy.burst \in Nat
  BY ClockAssumption
<1> DEFINE raw == plan.policy.period \div plan.policy.limit
           q   == raw \div Micro
<1>2. raw \in Nat /\ plan.policy.limit * raw <= plan.policy.period
  BY <1>1, Divided
<1> HIDE DEF raw
<1>3. q \in Nat /\ Micro * q <= raw
  BY <1>1, <1>2, Divided
<1> HIDE DEF q
<1>4. Interval = q * Micro
  BY DEF Interval, q, raw
<1>5. Burst \in Nat \ {0}
  BY <1>1 DEF Burst
<1>6. Interval \in Nat /\ Interval <= raw
  BY <1>1, <1>2, <1>3, <1>4
<1>7. Interval * plan.policy.limit <= plan.policy.period
  BY <1>1, <1>2, <1>6, Monotone, Assoc
<1>8. Window = Interval * Burst
  BY DEF Window
<1>9. Window = (q * Burst) * Micro /\ q * Burst \in Nat
  BY <1>1, <1>3, <1>4, <1>5, <1>8
<1>10. Rounded(Interval) = Interval /\ Rounded(Window) = Window
  BY <1>3, <1>4, <1>9, MicroWhole
<1>11. Window \in Nat /\ Interval <= Window
  BY <1>5, <1>6, <1>8
<1> QED
  BY <1>1, <1>5, <1>6, <1>7, <1>8, <1>10, <1>11

LEMMA MaxOf ==
  ASSUME NEW S, NEW m \in Nat, S \subseteq 0..m, S # {}
  PROVE  \E x \in S : \A y \in S : y <= x
<1> DEFINE T == {m - y : y \in S}
<1>1. T \subseteq Nat /\ T # {}
  <2>1. \A y \in S : m - y \in Nat
    OBVIOUS
  <2> QED
    BY <2>1
<1>2. PICK n \in T : \A k \in T : ~(<<k, n>> \in OpToRel(<, Nat))
  BY <1>1, WFMin, NatLessThanWellFounded, Zenon
<1>3. \A k \in T : ~(k < n)
  BY <1>1, <1>2 DEF OpToRel
<1>4. PICK x \in S : n = m - x
  OBVIOUS
<1>5. \A y \in S : ~(m - y < m - x)
  BY <1>3, <1>4
<1> QED
  BY <1>4, <1>5
-----------------------------------------------------------------------------
(* Everything from i to m was spent on the row: it is due by r, each of the  *)
(* e eras costs the age of a request.                                       *)
Due(i, m, r, e) == spent[i].at + (m - i + 1) * Interval <= r + (e - spent[i].era) * Patience
SpentRow == [at : Nat, by : {"allow", "add", "unchecked"}, era : Nat]

InTurn ==
  /\ \A k \in 1..Len(spent) : spent[k].at <= now /\ spent[k].era <= erased
  /\ \A k, l \in 1..Len(spent) : k < l => spent[k].at <= spent[l].at + Patience /\ spent[k].era <= spent[l].era
(* The row is ahead of all that was spent, and of one of them exactly.      *)
Reach == IF tat = NoRow THEN now - Patience ELSE tat
(* AllowedOnly: who was let through fitted into the window with all that    *)
(* was due at that time.  ToldRightly: who was told to wait, and until when. *)
Owing == \A i \in 1..Len(spent) : Due(i, Len(spent), Reach, erased)
Exact == tat # NoRow => \E i \in 1..Len(spent) : tat = spent[i].at + (Len(spent) - i + 1) * Interval
AllowedOnly ==
  \A j \in 1..Len(spent) : spent[j].by = "allow" => \A i \in 1..j : Due(i, j, spent[j].at + Window, spent[j].era)
ToldRightly == told.spent <= Len(spent) /\ (told.spent = Len(spent) => tat = NoRow \/ tat + Interval <= told.until + Window)
(* The requests under way are young; a behaviour asks for one part.         *)
Ages ==
  \A c \in Clients :
    /\ asks[c].pc # "idle" => asks[c].at <= now /\ now <= asks[c].at + Patience
    /\ visit[c].pc # "idle" => visit[c].since <= now /\ now <= visit[c].since + Patience
    /\ visit[c].pc \in {"load", "put", "add"} => visit[c].since <= visit[c].at /\ visit[c].at <= now
OnePart ==
  /\ plan.part # "limits" => \A c \in Clients : asks[c].pc = "idle"
  /\ plan.part # "cookies" => \A c \in Clients : visit[c].pc = "idle"
  /\ \A k \in 1..Len(spent) : spent[k].by = "allow" <=> plan.part = "limits"
(* Who counted what after which look: look[l] were spent when the request   *)
(* that spent the l-th looked, seen[c] when c did.                          *)
Counted(look, who) ==
  /\ look \in [1..Len(spent) -> Nat] /\ who \in [1..Len(spent) -> Clients]
  /\ \A l \in 1..Len(spent) : spent[l].by = "add" =>
       /\ look[l] < l
       /\ \A k \in 1..Len(spent) : k < l /\ who[k] = who[l] => k <= look[l]
       /\ \A i \in 1..look[l] : Due(i, look[l], spent[l].at + Window - Interval, spent[l].era)
SeenBy(c, v, k, who) ==
  /\ k <= Len(spent) /\ \A j \in 1..Len(spent) : who[j] = c => j <= k
  /\ v.pc = "over" => v.row # Unread /\
       \A i \in 1..k : Due(i, k, IF v.row = NoRow THEN v.since - Patience ELSE v.row, erased)
  /\ v.pc # "over" /\ v.row # Unread => \A i \in 1..k : Due(i, k, v.at + Window - Interval, erased)
Looked(look, who, seen) ==
  /\ Counted(look, who) /\ seen \in [Clients -> Nat]
  /\ \A c \in Clients : visit[c].pc # "idle" => SeenBy(c, visit[c], seen[c], who)
Ghosts == \E look, who, seen : Looked(look, who, seen)

(* What the limits hold at any time.                                        *)
LimitsTypes ==
  /\ now \in Nat /\ plan \in Plans /\ tat \in Nat \cup {NoRow} /\ erased \in Nat /\ spent \in Seq(SpentRow)
  /\ asks \in [Clients -> [pc : {"idle", "take", "refused"}, at : Nat]]
  /\ purge \in [pc : {"idle", "delete"}, at : Nat] /\ (purge.pc = "delete" => purge.at <= now)
  /\ told \in [until : Int, spent : Int]
  /\ visit \in [Clients -> VisitRow(Int)]
LimitsInv ==
  /\ LimitsTypes /\ InTurn /\ Owing /\ Exact /\ AllowedOnly /\ ToldRightly /\ Ages /\ OnePart
  /\ Ghosts

LEMMA LimitsStart == Init => LimitsInv
<1> SUFFICES ASSUME Init PROVE LimitsInv
  OBVIOUS
<1>1. /\ now = 0 /\ plan \in Plans /\ tat = NoRow /\ asks = [c \in Clients |-> Quiet] /\ purge = Resting
      /\ spent = <<>> /\ erased = 0 /\ told = NotTold /\ visit = [c \in Clients |-> Away]
  BY DEF Init, ClockInit, LimitsInit, CookiesInit
<1>2. Len(spent) = 0 /\ spent \in Seq(SpentRow)
  BY <1>1, EmptySeq
<1>3. 1..Len(spent) = {}
  BY <1>2
<1>4. LimitsTypes
  BY <1>1, <1>2 DEF LimitsTypes, Quiet, Resting, NotTold, Away, NoRow, VisitRow
<1>5. InTurn /\ Owing /\ Exact /\ AllowedOnly /\ ToldRightly
  BY <1>1, <1>2, <1>3 DEF InTurn, Owing, Exact, AllowedOnly, ToldRightly, NotTold
<1>6. Ages /\ OnePart
  BY <1>1, <1>3 DEF Ages, OnePart, Quiet, Away
<1>7. Ghosts
  <2> DEFINE seen == [c \in Clients |-> 0]
             none == [k \in 1..Len(spent) |-> 0]
  <2>1. \A c \in Clients : visit[c].pc = "idle"
    BY <1>1 DEF Away
  <2>2. seen \in [Clients -> Nat] /\ none \in [1..Len(spent) -> Nat] /\ none \in [1..Len(spent) -> Clients]
    BY <1>3
  <2> HIDE DEF seen, none
  <2>3. Looked(none, none, seen)
    BY <1>3, <2>1, <2>2 DEF Looked, Counted
  <2> QED
    BY <2>3 DEF Ghosts
<1> QED
  BY <1>4, <1>5, <1>6, <1>7 DEF LimitsInv

(* The arithmetic of the limit.                                             *)
LEMMA BoundOfAllowed ==
  ASSUME NEW a \in Nat, NEW b \in Nat, NEW e \in Int, NEW n \in Int, NEW t \in Nat, NEW B \in Nat,
         a + n * t <= b + t * B + e
  PROVE  (n - B) * t <= b - a + e + 0
<1>1. (n - B) * t = n * t - B * t /\ B * t = t * B /\ n * t \in Int /\ B * t \in Int
  BY Distributes, Assoc
<1> QED
  BY <1>1
LEMMA BoundOfAdded ==
  ASSUME NEW a \in Nat, NEW b \in Nat, NEW y \in Nat, NEW e \in Nat, NEW f \in Nat, NEW p \in Nat, NEW t \in Nat, NEW B \in Nat,
         NEW m \in Nat, NEW u \in Nat, NEW n \in Nat, n <= m + u,
         a + m * t <= y + t * B - t + e, y <= b + p, e <= f
  PROVE  (n - B) * t <= b - a + f + (p + u * t)
<1>1. n * t <= (m + u) * t /\ (m + u) * t = m * t + u * t /\ (n - B) * t = n * t - B * t /\ B * t = t * B
  BY Monotone, Distributes, Assoc
<1>2. n * t \in Nat /\ m * t \in Nat /\ u * t \in Nat /\ B * t \in Nat
  OBVIOUS
<1> DEFINE nt == n * t
           mt == m * t
           ut == u * t
           bt == B * t
<1> HIDE DEF nt, mt, ut, bt
<1>3. /\ nt <= mt + ut /\ (n - B) * t = nt - bt /\ a + mt <= y + bt - t + e
      /\ nt \in Nat /\ mt \in Nat /\ ut \in Nat /\ bt \in Nat
  BY <1>1, <1>2 DEF nt, mt, ut, bt
<1>4. nt - bt <= b - a + f + (p + ut)
  BY <1>3
<1> QED
  BY <1>3, <1>4 DEF ut
LEMMA BoundOfFew ==
  ASSUME NEW a \in Nat, NEW b \in Nat, NEW f \in Nat, NEW p \in Nat, NEW t \in Nat, NEW B \in Nat,
         NEW u \in Nat, NEW n \in Nat, n <= u, a <= b + p
  PROVE  (n - B) * t <= b - a + f + (p + u * t)
<1>1. n - B \in Int /\ n - B <= u
  OBVIOUS
<1>2. (n - B) * t <= u * t
  BY <1>1, Monotone
<1>3. (n - B) * t \in Int /\ u * t \in Nat
  BY <1>1
<1> DEFINE l == (n - B) * t
           r == u * t
<1> HIDE DEF l, r
<1>4. l <= r /\ l \in Int /\ r \in Nat
  BY <1>2, <1>3 DEF l, r
<1>5. l <= b - a + f + (p + r)
  BY <1>4
<1> QED
  BY <1>5 DEF l, r
LEMMA ErasCost == ASSUME NEW e \in Nat, NEW f \in Nat, NEW g \in Nat, e <= f, f <= g, NEW p \in Nat
                  PROVE  /\ (f - e) * p \in Nat /\ (g - e) * p \in Nat /\ (f - e) * p <= (g - e) * p
<1>1. f - e \in Nat /\ g - e \in Nat /\ f - e <= g - e
  OBVIOUS
<1> QED
  BY <1>1, Monotone

(* Who counts without another look in between is another client each time.  *)
LEMMA CountedOnce ==
  ASSUME NEW x \in Nat, NEW j \in Nat, x <= j, NEW A, NEW U, NEW T, NEW who,
         (x + 1)..j \subseteq A \cup U, IsFiniteSet(U), IsFiniteSet(T),
         A \subseteq (x + 1)..j, \A k \in A : who[k] \in T, \A k, l \in A : who[k] = who[l] => k = l
  PROVE  j - x <= Cardinality(T) + Cardinality(U)
<1>1. IsFiniteSet((x + 1)..j) /\ Cardinality((x + 1)..j) = j - x
  <2>1. x + 1 \in Int /\ j \in Int
    OBVIOUS
  <2>2. /\ IsFiniteSet((x + 1)..j)
        /\ Cardinality((x + 1)..j) = IF x + 1 > j THEN 0 ELSE j - (x + 1) + 1
    BY <2>1, FS_Interval
  <2> QED
    BY <2>2
<1> DEFINE f == [k \in A |-> who[k]]
<1>2. f \in Injection(A, T)
  BY DEF Injection, IsInjective
<1>3. IsFiniteSet(A) /\ Cardinality(A) <= Cardinality(T)
  BY <1>2, FS_Injection
<1>4. IsFiniteSet(A \cup U) /\ Cardinality(A \cup U) = Cardinality(A) + Cardinality(U) - Cardinality(A \cap U)
  BY <1>3, FS_Union
<1>5. IsFiniteSet(A \cap U)
  BY <1>3, FS_Intersection
<1>6. Cardinality((x + 1)..j) <= Cardinality(A \cup U)
  BY <1>4, FS_Subset
<1>7. /\ Cardinality(A) \in Nat /\ Cardinality(U) \in Nat /\ Cardinality(T) \in Nat
      /\ Cardinality(A \cap U) \in Nat /\ Cardinality(A \cup U) \in Nat
  BY <1>3, <1>4, <1>5, FS_CardinalityType
<1> QED
  BY <1>1, <1>3, <1>4, <1>6, <1>7

LEMMA BoundedNow == LimitsInv => Bounded
<1> SUFFICES ASSUME LimitsInv, NEW i \in DOMAIN spent, NEW j \in DOMAIN spent, i < j, spent[j].by # "unchecked"
             PROVE  (j - i + 1 - Burst) * Interval <=
                      spent[j].at - spent[i].at + (spent[j].era - spent[i].era) * Patience +
                      (IF spent[j].by = "allow" THEN 0 ELSE Patience + (Cardinality(Clients) + Unchecked(i, j)) * Interval)
  BY DEF Bounded
<1>1. /\ DOMAIN spent = 1..Len(spent) /\ Len(spent) \in Nat /\ \A k \in 1..Len(spent) : spent[k] \in SpentRow
  BY LenProperties, ElementOfSeq DEF LimitsInv, LimitsTypes
<1>2. i \in 1..Len(spent) /\ j \in 1..Len(spent) /\ i \in Nat /\ j \in Nat
  BY <1>1
<1>3. /\ spent[i].at \in Nat /\ spent[j].at \in Nat /\ spent[i].era \in Nat /\ spent[j].era \in Nat
      /\ spent[j].by \in {"allow", "add"}
  BY <1>1, <1>2 DEF SpentRow
<1>4. Interval \in Nat /\ Burst \in Nat /\ Window = Interval * Burst /\ Patience \in Nat /\ IsFiniteSet(Clients)
  BY PolicyIs, ClockAssumption DEF LimitsInv, LimitsTypes
<1>5. spent[i].at <= spent[j].at + Patience /\ spent[i].era <= spent[j].era
  BY <1>2 DEF LimitsInv, InTurn
<1> DEFINE f == (spent[j].era - spent[i].era) * Patience
           n == j - i + 1
           ext == IF spent[j].by = "allow" THEN 0 ELSE Patience + (Cardinality(Clients) + Unchecked(i, j)) * Interval
<1> HIDE DEF ext
<1>6. f \in Nat
  BY <1>3, <1>4, <1>5, ErasCost
<1>7. n \in Nat
  BY <1>2
<1>8. ASSUME spent[j].by = "allow" PROVE (n - Burst) * Interval <= spent[j].at - spent[i].at + f + ext
  <2>1. Due(i, j, spent[j].at + Window, spent[j].era)
    BY <1>2, <1>8 DEF LimitsInv, AllowedOnly
  <2>2. spent[i].at + n * Interval <= spent[j].at + Interval * Burst + f
    BY <2>1, <1>4 DEF Due
  <2> HIDE DEF n, f
  <2>3. (n - Burst) * Interval <= spent[j].at - spent[i].at + f + 0
    BY <2>2, <1>3, <1>4, <1>6, <1>7, BoundOfAllowed
  <2>4. ext = 0
    BY <1>8 DEF ext
  <2> QED
    BY <2>3, <2>4
<1>9. ASSUME spent[j].by = "add" PROVE (n - Burst) * Interval <= spent[j].at - spent[i].at + f + ext
  <2>1. PICK look, who, seen : Looked(look, who, seen)
    BY DEF LimitsInv, Ghosts
  <2> DEFINE K == {k \in i..j : spent[k].by = "add"}
             L == {look[k] : k \in K}
             U == {k \in i..j : spent[k].by = "unchecked"}
             u == Cardinality(Clients) + Cardinality(U)
  <2>2. \A k \in i..j : k \in 1..Len(spent) /\ k \in Nat
    BY <1>1, <1>2
  <2>3. j \in K /\ \A k \in K : k \in 1..Len(spent) /\ k \in i..j /\ spent[k].by = "add"
    BY <1>2, <1>9, <2>2
  <2>4. \A k \in K : look[k] \in Nat /\ look[k] < k
    BY <2>1, <2>3 DEF Looked, Counted
  <2>5. L \subseteq 0..j /\ L # {}
    BY <1>2, <2>2, <2>3, <2>4
  <2>6. PICK X \in L : \A x \in L : x <= X
    BY <1>2, <2>5, MaxOf
  <2>7. PICK y \in K : X = look[y]
    BY <2>6
  <2>8. IsFiniteSet(i..j) /\ IsFiniteSet(U)
    <3>1. IsFiniteSet(i..j)
      BY <1>2, FS_Interval
    <3> QED
      BY <3>1, FS_Subset
  <2>9. u \in Nat /\ u = Cardinality(Clients) + Unchecked(i, j)
    BY <1>4, <2>8, FS_CardinalityType DEF Unchecked
  <2>10. ASSUME NEW x \in Nat, x <= j, X <= x, i <= x + 1 PROVE j - x <= u
    <3> DEFINE A == {k \in (x + 1)..j : spent[k].by = "add"}
    <3>1. \A k \in (x + 1)..j : k \in i..j
      BY <1>2, <2>10
    <3>2. \A k \in i..j : spent[k] \in SpentRow /\ spent[k].by # "allow"
      <4>1. spent[j].by # "allow" /\ plan.part # "limits"
        BY <1>2, <1>9 DEF LimitsInv, OnePart
      <4> QED
        BY <4>1, <1>1, <2>2 DEF LimitsInv, OnePart
    <3>3. (x + 1)..j \subseteq A \cup U
      BY <3>1, <3>2 DEF SpentRow
    <3>4. \A k \in A : k \in K /\ k \in 1..Len(spent) /\ k \in Nat /\ x < k
      BY <3>1, <2>2, <2>10
    <3>5. \A k \in A : who[k] \in Clients
      BY <3>4, <2>1 DEF Looked, Counted
    <3>6. ASSUME NEW k \in A, NEW l \in A, who[k] = who[l] PROVE k = l
      <4>1. look[k] <= x /\ look[l] <= x /\ look[k] \in Nat /\ look[l] \in Nat
        <5>1. look[k] \in L /\ look[l] \in L
          BY <3>4, <3>6
        <5>2. look[k] <= X /\ look[l] <= X /\ X \in Nat
          BY <5>1, <2>5, <2>6
        <5>3. look[k] \in Nat /\ look[l] \in Nat
          BY <3>4, <2>4, <3>6
        <5> QED
          BY <5>2, <5>3, <2>10
      <4>2. CASE k < l
        BY <4>1, <4>2, <3>4, <3>6, <2>3, <2>10, <2>1 DEF Looked, Counted
      <4>3. CASE l < k
        BY <4>1, <4>3, <3>4, <3>6, <2>3, <2>10, <2>1 DEF Looked, Counted
      <4> QED
        BY <4>2, <4>3, <3>4, <3>6
    <3>7. A \subseteq (x + 1)..j
      OBVIOUS
    <3> HIDE DEF A, U, K, L, u, f, n
    <3>8. j - x <= Cardinality(Clients) + Cardinality(U)
      BY <1>2, <1>4, <2>8, <2>10, <3>3, <3>5, <3>6, <3>7, CountedOnce
    <3> QED
      BY <3>8 DEF u
  <2>11. X \in Nat /\ X < y /\ y \in i..j /\ y \in 1..Len(spent)
    BY <2>3, <2>4, <2>7
  <2>12. spent[y].at \in Nat /\ spent[y].era \in Nat /\ spent[y].at <= spent[j].at + Patience /\ spent[y].era <= spent[j].era
         /\ spent[i].era <= spent[y].era
    <3>1. spent[y].at \in Nat /\ spent[y].era \in Nat
      BY <1>1, <2>11 DEF SpentRow
    <3>2. y = j \/ (y < j /\ y \in 1..Len(spent))
      BY <1>2, <2>11
    <3>3. y = i \/ (i < y /\ y \in 1..Len(spent))
      BY <1>2, <2>11
    <3>4. y < j => spent[y].at <= spent[j].at + Patience /\ spent[y].era <= spent[j].era
      BY <1>2, <2>11 DEF LimitsInv, InTurn
    <3>5. i < y => spent[i].era <= spent[y].era
      BY <1>2, <2>11 DEF LimitsInv, InTurn
    <3> QED
      BY <3>1, <3>2, <3>3, <3>4, <3>5, <1>3, <1>4
  <2>13. (n - Burst) * Interval <= spent[j].at - spent[i].at + f + (Patience + u * Interval)
    <3>1. CASE X < i
      <4>1. i - 1 \in Nat /\ i - 1 <= j /\ X <= i - 1 /\ i <= (i - 1) + 1 /\ j - (i - 1) = n
        BY <1>2, <2>11, <3>1
      <4>2. n <= u
        BY <4>1, <2>10
      <4> HIDE DEF n, f, u, K, L, U
      <4> QED
        BY <4>2, <1>3, <1>4, <1>5, <1>6, <1>7, <2>9, BoundOfFew
    <3>2. CASE i <= X
      <4> DEFINE m == X - i + 1
                 e == (spent[y].era - spent[i].era) * Patience
      <4>1. X <= j /\ i <= X + 1 /\ m \in Nat /\ n = m + (j - X)
        BY <1>2, <2>11, <3>2
      <4>2. j - X <= u
        BY <4>1, <2>10, <2>11
      <4>3. n <= m + u
        BY <4>1, <4>2, <2>9, <2>11, <1>2
      <4>4. Due(i, X, spent[y].at + Window - Interval, spent[y].era)
        <5>1. i \in 1..look[y]
          BY <1>2, <2>7, <2>11, <3>2
        <5> QED
          BY <5>1, <2>1, <2>3, <2>7 DEF Looked, Counted
      <4>5. spent[i].at + m * Interval <= spent[y].at + Interval * Burst - Interval + e
        BY <4>4, <1>4 DEF Due
      <4>6. e \in Nat /\ e <= f
        BY <1>3, <1>4, <2>12, ErasCost
      <4> HIDE DEF n, f, u, m, e, K, L, U
      <4> QED
        BY <4>1, <4>3, <4>5, <4>6, <1>3, <1>4, <1>6, <1>7, <2>9, <2>12, BoundOfAdded
    <3> QED
      BY <1>2, <2>11, <3>1, <3>2
  <2>14. ext = Patience + u * Interval
    BY <1>9, <2>9 DEF ext
  <2> HIDE DEF u, f, n
  <2> QED
    BY <2>13, <2>14
<1>10. (n - Burst) * Interval <= spent[j].at - spent[i].at + f + ext
  BY <1>3, <1>8, <1>9
<1>11. j - i + 1 - Burst = n - Burst
  BY <1>2, <1>4
<1> HIDE DEF n, f
<1> QED
  BY <1>10, <1>11, Zenon DEF ext, f

LEMMA ExactRefusal ==
  ASSUME NEW a \in Nat, NEW t \in Nat, a <= t, NEW k \in Int, NEW I \in Nat, NEW lim \in Nat \ {0}, NEW per \in Nat, I * lim <= per,
         t - a < k * I
  PROVE  (t - a) * lim < k * per
<1>1. k > 0 /\ k \in Nat
  OBVIOUS
<1>2. (t - a) * lim < (k * I) * lim
  OBVIOUS
<1>3. (k * I) * lim = k * (I * lim)
  BY Assoc
<1>4. k * (I * lim) <= k * per
  BY <1>1, Monotone, Assoc
<1>5. (t - a) * lim \in Int /\ (k * I) * lim \in Int /\ k * per \in Int
  BY <1>1
<1> QED
  BY <1>2, <1>3, <1>4, <1>5
LEMMA BurstTimes == ASSUME NEW I \in Nat, NEW B \in Nat, NEW k \in Int PROVE (k + 1 - B) * I = k * I + I - I * B
  OBVIOUS

(* Who does not fit.                                                        *)
LEMMA RefusedWell ==
  ASSUME LimitsInv, NEW c \in Clients, ~Fits(asks[c].at)
  PROVE  /\ \E i \in DOMAIN spent :
              \/ spent[i].at > asks[c].at
              \/ (Len(spent) - i + 2 - Burst) * plan.policy.period > (asks[c].at - spent[i].at) * plan.policy.limit
         /\ told.spent = Len(spent) => asks[c].at < told.until
<1> DEFINE t == asks[c].at
           n == Len(spent)
<1>1. /\ DOMAIN spent = 1..n /\ n \in Nat /\ (\A k \in 1..n : spent[k] \in SpentRow) /\ t \in Nat
      /\ tat \in Nat \cup {NoRow} /\ told.until \in Int
  BY LenProperties, ElementOfSeq DEF LimitsInv, LimitsTypes
<1>2. /\ Interval \in Nat /\ Burst \in Nat \ {0} /\ Window = Interval * Burst /\ Window \in Nat /\ Interval <= Window
      /\ plan.policy.limit \in Nat \ {0} /\ plan.policy.period \in Nat \ {0}
      /\ Interval * plan.policy.limit <= plan.policy.period /\ Rounded(Interval) = Interval /\ Rounded(Window) = Window
  BY PolicyIs DEF LimitsInv, LimitsTypes
<1>3. tat # NoRow /\ ~(Later(tat, t) + Interval <= t + Window)
  BY <1>2 DEF Fits
<1>4. tat \in Nat /\ tat > t /\ tat + Interval > t + Window
  <2>1. tat \in Nat
    BY <1>1, <1>3
  <2>2. CASE tat < t
    <3>1. Later(tat, t) = t
      BY <2>2 DEF Later
    <3> HIDE DEF t
    <3>2. t + Interval <= t + Window
      BY <1>1, <1>2
    <3> QED
      BY <3>1, <3>2, <1>3
  <2>3. CASE ~(tat < t)
    <3>1. Later(tat, t) = tat
      BY <2>3 DEF Later
    <3> HIDE DEF t
    <3>2. PICK i, w : i = Interval /\ w = Window
      OBVIOUS
    <3>3. i \in Nat /\ w \in Nat /\ i <= w /\ ~(tat + i <= t + w) /\ t \in Nat
      BY <3>1, <3>2, <1>1, <1>2, <1>3
    <3>4. tat > t /\ tat + i > t + w
      BY <3>3, <2>1
    <3> QED
      BY <3>2, <3>4, <2>1
  <2> QED
    BY <2>2, <2>3
<1>5. PICK i \in 1..n : tat = spent[i].at + (n - i + 1) * Interval
  BY <1>3 DEF LimitsInv, Exact
<1> DEFINE k == n - i + 1
<1>6. spent[i].at \in Nat /\ k \in Nat
  BY <1>1 DEF SpentRow
<1>7. ASSUME spent[i].at <= t
      PROVE  (k + 1 - Burst) * plan.policy.period > (t - spent[i].at) * plan.policy.limit
  <2>1. (k + 1 - Burst) * Interval = k * Interval + Interval - Interval * Burst /\ k * Interval \in Nat
    BY <1>2, <1>6, BurstTimes
  <2>2. tat = spent[i].at + k * Interval
    BY <1>5
  <2> HIDE DEF k
  <2>3. t - spent[i].at < (k + 1 - Burst) * Interval
    BY <2>1, <2>2, <1>1, <1>2, <1>4, <1>6
  <2>4. k + 1 - Burst \in Int
    BY <1>2, <1>6
  <2> QED
    BY <2>3, <2>4, <1>1, <1>2, <1>6, <1>7, ExactRefusal
<1>8. k + 1 - Burst = n - i + 2 - Burst
  BY <1>1, <1>2
<1>9. told.spent = n => t < told.until
  BY <1>1, <1>2, <1>3, <1>4 DEF LimitsInv, ToldRightly
<1>10. spent[i].at > t \/ (n - i + 2 - Burst) * plan.policy.period > (t - spent[i].at) * plan.policy.limit
  <2>1. CASE spent[i].at > t
    BY <2>1
  <2>2. CASE spent[i].at <= t
    BY <2>2, <1>7, <1>8
  <2> QED
    BY <2>1, <2>2, <1>1, <1>6
<1> QED
  BY <1>1, <1>9, <1>10

-----------------------------------------------------------------------------
(* While nothing is spent, what is due stays due.                           *)
LEMMA PolicyStays == plan' = plan => Interval' = Interval /\ Window' = Window
  BY DEF Interval, Window, Burst
LEMMA RowStays ==
  ASSUME LimitsInv, plan' = plan, now' \in Nat, now <= now', spent' = spent, erased' = erased, tat' = tat
  PROVE  InTurn' /\ Owing' /\ Exact' /\ AllowedOnly'
<1>1. /\ Interval' = Interval /\ Window' = Window /\ Len(spent) \in Nat /\ (\A k \in 1..Len(spent) : spent[k] \in SpentRow)
      /\ now \in Nat /\ erased \in Nat /\ Patience \in Nat
  BY PolicyStays, ClockAssumption, LenProperties, ElementOfSeq DEF LimitsInv, LimitsTypes
<1>2. InTurn'
  <2>1. \A k \in 1..Len(spent) : spent[k].at \in Nat
    BY <1>1 DEF SpentRow
  <2>2. \A k \in 1..Len(spent) : spent[k].at <= now' /\ spent[k].era <= erased
    BY <1>1, <2>1 DEF LimitsInv, InTurn
  <2> QED
    BY <2>2 DEF LimitsInv, InTurn
<1>3. Exact'
  BY <1>1 DEF LimitsInv, Exact
<1>4. AllowedOnly'
  BY <1>1 DEF LimitsInv, AllowedOnly, Due
<1>5. Owing'
  <2>1. CASE tat # NoRow
    BY <1>1, <2>1 DEF LimitsInv, Owing, Due, Reach
  <2>2. CASE tat = NoRow
    <3> SUFFICES ASSUME NEW i \in 1..Len(spent)
                 PROVE  spent[i].at + (Len(spent) - i + 1) * Interval <= now' - Patience + (erased - spent[i].era) * Patience
      BY <1>1, <2>2 DEF Owing, Due, Reach
    <3> DEFINE x == (Len(spent) - i + 1) * Interval
               y == (erased - spent[i].era) * Patience
    <3>1. spent[i].at + x <= now - Patience + y
      BY <2>2 DEF LimitsInv, Owing, Due, Reach
    <3>2. x \in Int /\ y \in Int /\ spent[i].at \in Nat
      <4>1. Interval \in Nat /\ spent[i].at \in Nat /\ spent[i].era \in Nat
        BY <1>1, PolicyIs DEF LimitsInv, LimitsTypes, SpentRow
      <4> QED
        BY <1>1, <4>1
    <3> HIDE DEF x, y
    <3>3. spent[i].at + x <= now' - Patience + y
      BY <1>1, <3>1, <3>2
    <3> QED
      BY <3>3 DEF x, y
  <2> QED
    BY <2>1, <2>2
<1> QED
  BY <1>2, <1>3, <1>4, <1>5

(* A spend: the row goes on by an interval, from the later of itself and    *)
(* the clock of the request.                                                *)
LEMMA OneMoreDue ==
  ASSUME NEW a \in Nat, NEW k \in Int, NEW I \in Nat, NEW r \in Int, NEW q \in Int, NEW e \in Int, a + k * I <= r + e, r <= q
  PROVE  a + (k + 1) * I <= q + I + e
<1>1. (k + 1) * I = k * I + I /\ k * I \in Int
  OBVIOUS
<1> QED
  BY <1>1
LEMMA SpendWell ==
  ASSUME LimitsInv, plan' = plan, now' = now, told' = told, NEW t \in Nat, t <= now, now <= t + Patience,
         NEW by \in {"allow", "add", "unchecked"}, Spends(t, by)
  PROVE  /\ spent' \in Seq(SpentRow) /\ tat' \in Nat /\ erased' = erased
         /\ Len(spent') = Len(spent) + 1 /\ spent'[Len(spent) + 1] = [at |-> t, by |-> by, era |-> erased]
         /\ \A k \in 1..Len(spent) : spent'[k] = spent[k]
         /\ InTurn' /\ Owing' /\ Exact' /\ ToldRightly'
<1> DEFINE n == Len(spent)
           row == [at |-> t, by |-> by, era |-> erased]
<1>1. /\ n \in Nat /\ (\A k \in 1..n : spent[k] \in SpentRow) /\ now \in Nat /\ erased \in Nat /\ Patience \in Nat
      /\ tat \in Nat \cup {NoRow} /\ Interval \in Nat /\ Rounded(Interval) = Interval /\ told.spent \in Int
  BY ClockAssumption, PolicyIs, LenProperties, ElementOfSeq DEF LimitsInv, LimitsTypes
<1>2. Interval' = Interval /\ Window' = Window
  BY PolicyStays
<1>3. row \in SpentRow
  BY <1>1 DEF SpentRow
<1>4. spent' = Append(spent, row) /\ erased' = erased /\ tat' = Later(tat, t) + Interval
  BY <1>1 DEF Spends, Shift
<1>5. spent' \in Seq(SpentRow) /\ Len(spent') = n + 1 /\ spent'[n + 1] = row /\ \A k \in 1..n : spent'[k] = spent[k]
  <2>1. spent \in Seq(SpentRow)
    BY DEF LimitsInv, LimitsTypes
  <2> HIDE DEF row
  <2> QED
    BY <2>1, <1>3, <1>4, AppendProperties
<1>6. Later(tat, t) \in Nat /\ t <= Later(tat, t) /\ Reach <= Later(tat, t) /\ (tat # NoRow /\ Later(tat, t) # t => Later(tat, t) = tat)
  <2>1. CASE tat = NoRow
    <3>1. Later(tat, t) = t /\ Reach = now - Patience
      BY <2>1 DEF Later, NoRow, Reach
    <3> QED
      BY <3>1, <2>1, <1>1
  <2>2. CASE tat # NoRow
    <3>1. Reach = tat /\ tat \in Nat
      BY <2>2, <1>1 DEF Reach
    <3>2. Later(tat, t) = IF tat < t THEN t ELSE tat
      BY DEF Later
    <3> QED
      BY <3>1, <3>2
  <2> QED
    BY <2>1, <2>2
<1>7. tat' \in Nat /\ tat' # NoRow
  BY <1>1, <1>4, <1>6 DEF NoRow
<1>8. \A k \in 1..n + 1 : k \in 1..n \/ k = n + 1
  BY <1>1
<1>9. row.at = t /\ row.era = erased
  OBVIOUS
<1> HIDE DEF row, n
<1>10. InTurn'
  <2>1. \A k \in 1..n : spent[k].at <= now /\ spent[k].era <= erased /\ spent[k].at \in Nat
    BY <1>1 DEF LimitsInv, InTurn, n, SpentRow
  <2>2. \A k \in 1..n : spent[k].at <= t + Patience
    BY <2>1, <1>1
  <2>3. \A k \in 1..n + 1 : spent'[k].at <= now' /\ spent'[k].era <= erased'
    BY <2>1, <1>1, <1>4, <1>5, <1>8, <1>9
  <2>4. ASSUME NEW k \in 1..n + 1, NEW l \in 1..n + 1, k < l
        PROVE  spent'[k].at <= spent'[l].at + Patience /\ spent'[k].era <= spent'[l].era
    <3>1. k \in 1..n
      BY <1>1, <2>4
    <3>2. CASE l \in 1..n
      BY <2>4, <3>1, <3>2, <1>5 DEF LimitsInv, InTurn, n
    <3>3. CASE l = n + 1
      BY <3>1, <3>3, <2>1, <2>2, <1>5, <1>9
    <3> QED
      BY <1>8, <3>2, <3>3
  <2> QED
    BY <2>3, <2>4, <1>5 DEF InTurn
<1> DEFINE m == n + 1
<1>0. m \in Nat /\ m = n + 1 /\ Len(spent') = m /\ m \in 1..m /\ (\A k \in 1..m : k \in 1..n \/ k = m) /\ (\A k \in 1..n : k \in 1..m)
      /\ spent'[m].at = t /\ spent'[m].era = erased
  BY <1>1, <1>5, <1>8, <1>9
<1> HIDE DEF m
<1>11. Owing'
  <2>1. ASSUME NEW i \in 1..m
        PROVE  spent'[i].at + (m - i + 1) * Interval <= tat' + (erased - spent'[i].era) * Patience
    <3>1. CASE i = m
      <4>1. (m - i + 1) * Interval = Interval /\ (erased - spent'[i].era) * Patience = 0 /\ spent'[i].at = t
        BY <3>1, <1>1, <1>0
      <4>2. t + Interval <= tat' + 0
        BY <1>1, <1>4, <1>6
      <4> QED
        BY <4>1, <4>2
    <3>2. CASE i \in 1..n
      <4> DEFINE k == n - i + 1
                 e == (erased - spent[i].era) * Patience
                 r == Reach
      <4>1. spent[i].at + k * Interval <= r + e
        BY <3>2 DEF LimitsInv, Owing, Due, n
      <4>2. spent[i].at \in Nat /\ k \in Int /\ e \in Int /\ r \in Int /\ m - i + 1 = k + 1
        <5>1. spent[i].at \in Nat /\ spent[i].era \in Nat
          BY <3>2, <1>1 DEF SpentRow
        <5>2. r \in Int
          BY <1>1 DEF Reach, NoRow
        <5>3. k \in Int /\ m - i + 1 = k + 1
          BY <1>1, <1>0, <3>2
        <5>4. erased - spent[i].era \in Int
          BY <5>1, <1>1
        <5>5. e \in Int
          BY <5>4, <1>1
        <5> QED
          BY <5>1, <5>2, <5>3, <5>5
      <4> HIDE DEF k, e, r
      <4>3. spent[i].at + (k + 1) * Interval <= Later(tat, t) + Interval + e
        BY <4>1, <4>2, <1>1, <1>6, OneMoreDue DEF r
      <4> QED
        BY <4>2, <4>3, <3>2, <1>4, <1>5 DEF e
    <3> QED
      BY <1>0, <3>1, <3>2
  <2>2. Reach' = tat'
    BY <1>7 DEF Reach
  <2> QED
    BY <2>1, <2>2, <1>2, <1>4, <1>0 DEF Owing, Due
<1>12. Exact'
  <2>1. ASSUME Later(tat, t) = t PROVE \E i \in 1..m : tat' = spent'[i].at + (m - i + 1) * Interval
    <3>1. (m - m + 1) * Interval = Interval
      BY <1>1, <1>0
    <3> QED
      BY <3>1, <2>1, <1>4, <1>0
  <2>2. ASSUME Later(tat, t) # t PROVE \E i \in 1..m : tat' = spent'[i].at + (m - i + 1) * Interval
    <3>1. tat # NoRow /\ Later(tat, t) = tat
      BY <2>2, <1>6 DEF Later, NoRow
    <3>2. PICK i \in 1..n : tat = spent[i].at + (n - i + 1) * Interval
      BY <3>1 DEF LimitsInv, Exact, n
    <3> DEFINE k == n - i + 1
    <3>3. i \in 1..m /\ spent'[i] = spent[i] /\ m - i + 1 = k + 1 /\ k \in Int
      BY <1>1, <1>5, <1>0, <3>2
    <3>4. spent[i].at \in Nat
      BY <1>1 DEF SpentRow
    <3>5. tat = spent[i].at + k * Interval
      BY <3>2
    <3> HIDE DEF k
    <3>6. (k + 1) * Interval = k * Interval + Interval /\ k * Interval \in Int
      BY <1>1, <3>3
    <3>7. tat' = spent'[i].at + (k + 1) * Interval
      <4> DEFINE x == k * Interval
      <4>1. tat = spent[i].at + x /\ x \in Int /\ (k + 1) * Interval = x + Interval
        BY <3>5, <3>6
      <4> HIDE DEF x
      <4>2. tat' = spent[i].at + (x + Interval)
        BY <4>1, <3>1, <3>4, <1>1, <1>4
      <4> QED
        BY <4>1, <4>2, <3>3
    <3> QED
      BY <3>3, <3>7
  <2> QED
    BY <2>1, <2>2, <1>2, <1>0 DEF Exact
<1>13. ToldRightly'
  BY <1>1, <1>5 DEF LimitsInv, ToldRightly, n
<1> QED
  BY <1>4, <1>5, <1>7, <1>10, <1>11, <1>12, <1>13 DEF n, row

-----------------------------------------------------------------------------
(* Steps that spend nothing.                                               *)
LEMMA DueMore ==
  ASSUME LimitsInv, NEW i \in 1..Len(spent), NEW m \in Nat, NEW r \in Int, NEW q \in Int, r <= q, NEW e \in Int, Due(i, m, r, e)
  PROVE  Due(i, m, q, e)
<1>1. Interval \in Nat /\ Patience \in Nat /\ Len(spent) \in Nat /\ spent[i] \in SpentRow
  BY PolicyIs, ClockAssumption, LenProperties, ElementOfSeq DEF LimitsInv, LimitsTypes
<1> DEFINE x == (m - i + 1) * Interval
           y == (e - spent[i].era) * Patience
<1>2. x \in Int /\ y \in Int /\ spent[i].at \in Nat
  <2>1. m - i + 1 \in Int /\ e - spent[i].era \in Int /\ spent[i].at \in Nat
    BY <1>1 DEF SpentRow
  <2> QED
    BY <1>1, <2>1
<1>3. spent[i].at + x <= r + y
  BY DEF Due
<1> HIDE DEF x, y
<1>4. spent[i].at + x <= q + y
  BY <1>2, <1>3
<1> QED
  BY <1>4 DEF Due, x, y
LEMMA DueErased ==
  ASSUME LimitsInv, NEW i \in 1..Len(spent), NEW m \in Nat, NEW r \in Int, Due(i, m, r, erased), plan' = plan, spent' = spent,
         erased' \in Nat, erased <= erased'
  PROVE  spent'[i].at + (m - i + 1) * Interval' <= r + (erased' - spent'[i].era) * Patience
<1>1. /\ Interval \in Nat /\ Patience \in Nat /\ Len(spent) \in Nat /\ spent[i] \in SpentRow /\ erased \in Nat
      /\ Interval' = Interval
  BY PolicyIs, PolicyStays, ClockAssumption, LenProperties, ElementOfSeq DEF LimitsInv, LimitsTypes
<1> DEFINE x == (m - i + 1) * Interval
           y == (erased - spent[i].era) * Patience
           z == (erased' - spent[i].era) * Patience
<1>2. x \in Int /\ y \in Int /\ z \in Int /\ y <= z /\ spent[i].at \in Nat
  <2>1. spent[i].at \in Nat /\ spent[i].era \in Nat
    BY <1>1 DEF SpentRow
  <2>2. m - i + 1 \in Int
    BY <1>1
  <2>3. erased - spent[i].era \in Int /\ erased' - spent[i].era \in Int /\ erased - spent[i].era <= erased' - spent[i].era
    BY <1>1, <2>1
  <2>4. x \in Int
    BY <1>1, <2>2
  <2>5. y \in Int /\ z \in Int
    BY <1>1, <2>3
  <2>6. y <= z
    BY <1>1, <2>3, Monotone
  <2> QED
    BY <2>1, <2>4, <2>5, <2>6
<1>3. spent[i].at + x <= r + y
  BY DEF Due
<1> HIDE DEF x, y, z
<1>4. spent[i].at + x <= r + z
  BY <1>2, <1>3
<1> QED
  BY <1>1, <1>4 DEF x, z

LEMMA SeenStays ==
  ASSUME LimitsInv, plan' = plan, spent' = spent, erased' \in Nat, erased <= erased',
         NEW c, NEW v \in VisitRow(Int), NEW k \in Nat, NEW who, SeenBy(c, v, k, who)
  PROVE  SeenBy(c, v, k, who)'
<1>1. /\ Interval' = Interval /\ Window' = Window /\ Interval \in Nat /\ Window \in Nat /\ Patience \in Nat
      /\ Len(spent) \in Nat /\ k <= Len(spent)
  BY PolicyIs, PolicyStays, ClockAssumption, LenProperties DEF LimitsInv, LimitsTypes, SeenBy
<1>2. \A i \in 1..k : i \in 1..Len(spent)
  BY <1>1
<1> DEFINE r == IF v.row = NoRow THEN v.since - Patience ELSE v.row
           q == v.at + Window - Interval
<1>3. r \in Int /\ q \in Int
  BY <1>1 DEF VisitRow
<1>4. v.pc = "over" => v.row # Unread /\ \A i \in 1..k : Due(i, k, r, erased)
  BY DEF SeenBy
<1>5. v.pc # "over" /\ v.row # Unread => \A i \in 1..k : Due(i, k, q, erased)
  BY DEF SeenBy
<1>6. q = v.at + Window' - Interval'
  BY <1>1
<1> HIDE DEF r, q
<1>7. v.pc = "over" => \A i \in 1..k : spent'[i].at + (k - i + 1) * Interval' <= r + (erased' - spent'[i].era) * Patience
  BY <1>2, <1>3, <1>4, DueErased
<1>8. v.pc # "over" /\ v.row # Unread =>
        \A i \in 1..k : spent'[i].at + (k - i + 1) * Interval' <= q + (erased' - spent'[i].era) * Patience
  BY <1>2, <1>3, <1>5, DueErased
<1>9. k <= Len(spent') /\ \A j \in 1..Len(spent') : who[j] = c => j <= k
  BY DEF SeenBy
<1>10. r = IF v.row = NoRow THEN v.since - Patience ELSE v.row
  BY DEF r
<1> QED
  BY <1>4, <1>6, <1>7, <1>8, <1>9, <1>10 DEF SeenBy, Due

LEMMA CountedStays ==
  ASSUME plan' = plan, spent' = spent, NEW look, NEW who, Counted(look, who) PROVE Counted(look, who)'
  BY PolicyStays DEF Counted, Due

LEMMA GhostsStay ==
  ASSUME LimitsInv, plan' = plan, spent' = spent, erased' \in Nat, erased <= erased',
         \A c \in Clients : visit'[c] = visit[c] \/ visit'[c].pc = "idle"
  PROVE  Ghosts'
<1>1. PICK look, who, seen : Looked(look, who, seen)
  BY DEF LimitsInv, Ghosts
<1>2. Counted(look, who)' /\ seen \in [Clients -> Nat]
  BY <1>1, CountedStays DEF Looked
<1>3. ASSUME NEW c \in Clients, visit'[c].pc # "idle" PROVE SeenBy(c, visit[c], seen[c], who)' /\ visit'[c] = visit[c]
  <2>1. visit[c] \in VisitRow(Int) /\ seen[c] \in Nat /\ visit'[c] = visit[c]
    BY <1>2, <1>3 DEF LimitsInv, LimitsTypes
  <2>2. PICK v : v = visit[c]
    OBVIOUS
  <2>3. PICK k : k = seen[c]
    OBVIOUS
  <2>4. SeenBy(c, v, k, who)'
    BY <1>1, <1>3, <2>1, <2>2, <2>3, SeenStays DEF Looked
  <2>5. v = visit'[c]
    BY <2>1, <2>2
  <2> QED
    BY <2>1, <2>3, <2>4, <2>5
<1> QED
  BY <1>2, <1>3 DEF Looked, Ghosts

LEMMA RowKept ==
  ASSUME LimitsInv, plan' = plan, now' \in Nat, now <= now', tat' = tat, spent' = spent, erased' = erased,
         LimitsTypes', Ages', OnePart', ToldRightly', Ghosts'
  PROVE  LimitsInv'
  BY RowStays DEF LimitsInv

(* A request of the limiter, or the clean-up, goes on.                      *)
AskRow == [pc : {"idle", "take", "refused"}, at : Nat]
LEMMA AskMoves ==
  ASSUME LimitsInv, plan' = plan, now' = now, tat' = tat, spent' = spent, erased' = erased, visit' = visit,
         told' = told \/ (told' \in [until : Int, spent : Int] /\ ToldRightly'),
         NEW c, NEW a \in AskRow, asks' = [asks EXCEPT ![c] = a] \/ asks' = asks,
         a.pc # "idle" => plan.part = "limits" /\ a.at <= now /\ now <= a.at + Patience,
         purge' = purge \/ purge' = [pc |-> "delete", at |-> now]
  PROVE  LimitsInv'
<1>1. /\ now \in Nat /\ erased \in Nat /\ asks \in [Clients -> AskRow] /\ purge \in [pc : {"idle", "delete"}, at : Nat]
      /\ told \in [until : Int, spent : Int]
  BY DEF LimitsInv, LimitsTypes, AskRow
<1>2. told' \in [until : Int, spent : Int] /\ ToldRightly'
  <2>1. CASE told' = told
    BY <1>1, <2>1, PolicyStays DEF LimitsInv, ToldRightly
  <2> QED
    BY <2>1
<1>3. asks' \in [Clients -> AskRow]
  BY <1>1
<1>4. LimitsTypes'
  BY <1>1, <1>2, <1>3 DEF LimitsInv, LimitsTypes, AskRow
<1>5. \A d \in Clients : asks'[d].pc # "idle" => plan.part = "limits" /\ asks'[d].at <= now /\ now <= asks'[d].at + Patience
  <2> SUFFICES ASSUME NEW d \in Clients, asks'[d].pc # "idle"
               PROVE  plan.part = "limits" /\ asks'[d].at <= now /\ now <= asks'[d].at + Patience
    OBVIOUS
  <2>1. asks'[d] = a \/ asks'[d] = asks[d]
    BY <1>1
  <2>2. asks[d].pc # "idle" => plan.part = "limits" /\ asks[d].at <= now /\ now <= asks[d].at + Patience
    BY DEF LimitsInv, Ages, OnePart
  <2> QED
    BY <2>1, <2>2
<1>6. Ages'
  BY <1>5 DEF LimitsInv, Ages
<1>7. OnePart'
  BY <1>5 DEF LimitsInv, OnePart
<1>8. Ghosts'
  BY <1>1, GhostsStay
<1> QED
  BY <1>1, <1>2, <1>4, <1>6, <1>7, <1>8, RowKept

LEMMA AskedWell == ASSUME LimitsInv, visit' = visit, NEW c \in Clients, Asked(c) PROVE LimitsInv'
<1> DEFINE a == [pc |-> "take", at |-> now]
<1>1. now \in Nat /\ Patience \in Nat
  BY ClockAssumption DEF LimitsInv, LimitsTypes
<1>2. a \in AskRow /\ a.pc = "take" /\ a.at = now
  BY <1>1 DEF AskRow
<1>3. /\ plan' = plan /\ now' = now /\ tat' = tat /\ spent' = spent /\ erased' = erased /\ told' = told /\ purge' = purge
      /\ asks' = [asks EXCEPT ![c] = a] /\ plan.part = "limits"
  BY DEF Asked, Arrival
<1>4. a.at <= now /\ now <= a.at + Patience
  BY <1>1, <1>2
<1> HIDE DEF a
<1> QED
  BY <1>2, <1>3, <1>4, AskMoves
LEMMA RefuseWell == ASSUME LimitsInv, visit' = visit, NEW c \in Clients, Refuse(c) PROVE LimitsInv'
<1>1. asks \in [Clients -> AskRow] /\ asks[c] \in AskRow /\ asks[c].pc = "take"
  BY DEF LimitsInv, LimitsTypes, AskRow, Refuse
<1> DEFINE a == [asks[c] EXCEPT !.pc = "refused"]
<1>2. a \in AskRow /\ a.pc = "refused" /\ a.at = asks[c].at
  BY <1>1 DEF AskRow
<1>3. plan.part = "limits" /\ a.at <= now /\ now <= a.at + Patience
  BY <1>1, <1>2 DEF LimitsInv, OnePart, Ages
<1>4. asks' = [asks EXCEPT ![c] = a]
  BY <1>1 DEF Refuse
<1>5. plan' = plan /\ now' = now /\ tat' = tat /\ spent' = spent /\ erased' = erased /\ told' = told /\ purge' = purge
  BY DEF Refuse, clock
<1> QED
  BY <1>2, <1>3, <1>4, <1>5, AskMoves
LEMMA QuietRow == Quiet \in AskRow /\ Quiet.pc = "idle"
  BY DEF Quiet, AskRow
LEMMA StoreFailsWell == ASSUME LimitsInv, visit' = visit, NEW c \in Clients, StoreFails(c) PROVE LimitsInv'
<1>1. /\ plan' = plan /\ now' = now /\ tat' = tat /\ spent' = spent /\ erased' = erased /\ told' = told /\ purge' = purge
      /\ asks' = [asks EXCEPT ![c] = Quiet]
  BY DEF StoreFails, clock
<1> QED
  BY <1>1, QuietRow, AskMoves
LEMMA GetTATWell == ASSUME LimitsInv, visit' = visit, NEW c \in Clients, GetTAT(c) PROVE LimitsInv'
<1> DEFINE t == asks[c].at
           r == RetryAfter(t)
<1>1. /\ plan' = plan /\ now' = now /\ tat' = tat /\ spent' = spent /\ erased' = erased /\ purge' = purge
      /\ asks' = [asks EXCEPT ![c] = Quiet] /\ told' = [until |-> t + r, spent |-> Len(spent)]
  BY DEF GetTAT, clock
<1>2. /\ t \in Nat /\ tat \in Nat \cup {NoRow} /\ Interval \in Nat /\ Window \in Nat /\ Micro \in Nat /\ Len(spent) \in Nat
      /\ Interval' = Interval /\ Window' = Window
  BY <1>1, PolicyIs, PolicyStays, ClockAssumption, LenProperties DEF LimitsInv, LimitsTypes
<1> DEFINE l == Later(tat, t)
           x == l - t + Interval - Window
<1>3. tat # NoRow => l \in Nat /\ tat <= l
  BY <1>2 DEF Later
<1> HIDE DEF l, t
<1>4. tat # NoRow => x \in Int /\ x <= Later(x, Micro) /\ Later(x, Micro) \in Int
  <2> HIDE DEF x
  <2>1. tat # NoRow => x \in Int
    BY <1>2, <1>3 DEF x
  <2> QED
    BY <2>1, <1>2 DEF Later
<1>5. r = IF tat = NoRow THEN Interval ELSE Later(x, Micro)
  BY DEF RetryAfter, l
<1> HIDE DEF r
<1>6. r \in Int /\ (tat # NoRow => x <= r)
  BY <1>2, <1>4, <1>5
<1>7. tat # NoRow => tat + Interval <= (t + r) + Window
  BY <1>2, <1>3, <1>6
<1>8. told' \in [until : Int, spent : Int]
  BY <1>1, <1>2, <1>6
<1>9. ToldRightly'
  BY <1>1, <1>2, <1>7 DEF ToldRightly
<1> QED
  BY <1>1, <1>8, <1>9, QuietRow, AskMoves
LEMMA SelectWell == ASSUME LimitsInv, visit' = visit, Select PROVE LimitsInv'
<1>1. /\ plan' = plan /\ now' = now /\ tat' = tat /\ spent' = spent /\ erased' = erased /\ told' = told
      /\ asks' = asks /\ purge' = [pc |-> "delete", at |-> now]
  BY DEF Select, clock
<1> QED
  BY <1>1, QuietRow, AskMoves

(* The clean-up, and a crash.                                               *)
LEMMA EraMore ==
  ASSUME NEW a \in Nat, NEW x \in Int, NEW r \in Int, NEW e \in Int, NEW f \in Int, f = e + 1, NEW p \in Nat, NEW n \in Int,
         a + x <= r + e * p, r <= n
  PROVE  a + x <= n - p + f * p
<1>1. f * p = e * p + p /\ e * p \in Int
  OBVIOUS
<1> DEFINE y == e * p
<1> HIDE DEF y
<1>2. f * p = y + p /\ y \in Int /\ a + x <= r + y
  BY <1>1 DEF y
<1>3. a + x <= n - p + (y + p)
  BY <1>2
<1> QED
  BY <1>2, <1>3
LEMMA DeletedWell == ASSUME LimitsInv, visit' = visit, DeleteExpired PROVE LimitsInv'
<1>1. /\ plan' = plan /\ now' = now /\ spent' = spent /\ told' = told /\ asks' = asks /\ purge' = Resting
      /\ purge.pc = "delete" /\ purge.at <= now /\ purge.at \in Nat
  BY DEF DeleteExpired, clock, LimitsInv, LimitsTypes
<1>2. CASE ~Erased
  <2>1. tat' = tat /\ erased' = erased
    BY <1>2 DEF DeleteExpired
  <2>2. LimitsTypes' /\ ToldRightly' /\ Ages' /\ OnePart' /\ now \in Nat
    BY <1>1, <2>1, PolicyStays DEF LimitsInv, LimitsTypes, ToldRightly, Ages, OnePart, Resting
  <2>3. Ghosts'
    BY <1>1, <2>1, GhostsStay DEF LimitsInv, LimitsTypes
  <2> QED
    BY <1>1, <2>1, <2>2, <2>3, RowKept
<1>3. CASE Erased
  <2>1. tat' = NoRow /\ erased' = erased + 1 /\ tat # NoRow /\ tat < purge.at
    BY <1>3 DEF DeleteExpired, Erased
  <2>2. /\ now \in Nat /\ erased \in Nat /\ Len(spent) \in Nat /\ Interval \in Nat /\ Patience \in Nat /\ Interval' = Interval
        /\ Window' = Window /\ (\A k \in 1..Len(spent) : spent[k] \in SpentRow) /\ tat \in Nat
    BY <1>1, <2>1, PolicyIs, PolicyStays, ClockAssumption, LenProperties, ElementOfSeq DEF LimitsInv, LimitsTypes
  <2>3. LimitsTypes'
    BY <1>1, <2>1, <2>2 DEF LimitsInv, LimitsTypes, Resting
  <2>4. ToldRightly' /\ Ages' /\ OnePart' /\ Exact'
    BY <1>1, <2>1 DEF LimitsInv, ToldRightly, Ages, OnePart, Exact
  <2>5. AllowedOnly'
    BY <1>1, <2>2 DEF LimitsInv, AllowedOnly, Due
  <2>6. InTurn'
    <3>1. \A k \in 1..Len(spent) : spent[k].era <= erased + 1
      <4>1. \A k \in 1..Len(spent) : spent[k].era <= erased /\ spent[k].era \in Nat
        BY <2>2 DEF LimitsInv, InTurn, SpentRow
      <4> QED
        BY <4>1, <2>2
    <3> QED
      BY <1>1, <2>1, <3>1 DEF LimitsInv, InTurn
  <2>7. Owing'
    <3> SUFFICES ASSUME NEW i \in 1..Len(spent)
                 PROVE  spent[i].at + (Len(spent) - i + 1) * Interval <= now - Patience + ((erased + 1) - spent[i].era) * Patience
      BY <1>1, <2>1, <2>2 DEF Owing, Due, Reach
    <3> DEFINE x == (Len(spent) - i + 1) * Interval
               e == erased - spent[i].era
               f == (erased + 1) - spent[i].era
    <3>1. spent[i].at + x <= tat + e * Patience
      BY <2>1 DEF LimitsInv, Owing, Due, Reach
    <3>2. spent[i].at \in Nat /\ spent[i].era \in Nat
      BY <2>2 DEF SpentRow
    <3>3. e \in Int /\ f \in Int /\ f = e + 1
      BY <2>2, <3>2
    <3>4. x \in Int
      <4>1. Len(spent) - i + 1 \in Int
        BY <2>2
      <4> QED
        BY <4>1, <2>2
    <3>5. tat <= now
      BY <1>1, <2>1, <2>2
    <3> HIDE DEF x, e, f
    <3>6. spent[i].at + x <= now - Patience + f * Patience
      BY <2>2, <3>1, <3>2, <3>3, <3>4, <3>5, EraMore
    <3> QED
      BY <3>6 DEF x, f
  <2>8. Ghosts'
    BY <1>1, <2>1, <2>2, GhostsStay
  <2> QED
    BY <2>3, <2>4, <2>5, <2>6, <2>7, <2>8 DEF LimitsInv
<1> QED
  BY <1>2, <1>3
LEMMA CrashWell == ASSUME LimitsInv, visit' = visit, CrashLimits PROVE LimitsInv'
<1>1. /\ plan' = plan /\ now' = now /\ asks' = asks /\ tat' = NoRow /\ spent' = <<>> /\ erased' = 0 /\ told' = NotTold
      /\ purge' = Resting
  BY DEF CrashLimits, clock
<1>2. Len(spent') = 0 /\ spent' \in Seq(SpentRow) /\ 1..Len(spent') = {}
  <2>1. Len(spent') = 0 /\ spent' \in Seq(SpentRow)
    BY <1>1, EmptySeq
  <2> QED
    BY <2>1
<1>3. LimitsTypes'
  BY <1>1, <1>2 DEF LimitsInv, LimitsTypes, Resting, NotTold
<1>4. InTurn' /\ Owing' /\ Exact' /\ AllowedOnly' /\ ToldRightly'
  BY <1>1, <1>2 DEF InTurn, Owing, Exact, AllowedOnly, ToldRightly, NotTold
<1>5. Ages' /\ OnePart'
  BY <1>1, <1>2 DEF LimitsInv, Ages, OnePart
<1>6. Ghosts'
  <2>1. PICK look, who, seen : Looked(look, who, seen)
    BY DEF LimitsInv, Ghosts
  <2> DEFINE none == [k \in 1..Len(spent') |-> 0]
             zero == [c \in Clients |-> 0]
  <2>2. /\ none \in [1..Len(spent') -> Nat] /\ none \in [1..Len(spent') -> Clients] /\ zero \in [Clients -> Nat]
        /\ \A c \in Clients : zero[c] = 0
    BY <1>2
  <2> HIDE DEF none, zero
  <2>3. \A c \in Clients : visit[c].pc = "over" => visit[c].row # Unread
    BY <2>1 DEF Looked, SeenBy
  <2>4. PICK l2, w2, s2 : l2 = none /\ w2 = none /\ s2 = zero
    OBVIOUS
  <2>5. Counted(l2, w2)'
    BY <1>2, <2>2, <2>4 DEF Counted
  <2>6. \A c \in Clients : SeenBy(c, visit[c], s2[c], w2)'
    <3> SUFFICES ASSUME NEW c \in Clients PROVE SeenBy(c, visit[c], s2[c], w2)'
      OBVIOUS
    <3>1. s2[c] = 0 /\ 1..0 = {}
      BY <2>2, <2>4
    <3> QED
      BY <1>1, <1>2, <2>3, <3>1 DEF SeenBy
  <2>7. Looked(l2, w2, s2)'
    BY <1>1, <2>2, <2>4, <2>5, <2>6 DEF Looked
  <2> QED
    BY <2>7 DEF Ghosts
<1> QED
  BY <1>3, <1>4, <1>5, <1>6 DEF LimitsInv

(* A request is let through.                                                *)
LEMMA NoGuests == ASSUME LimitsInv, plan.part = "limits" PROVE \A c \in Clients : visit[c].pc = "idle"
  BY DEF LimitsInv, OnePart
LEMMA TakeWell == ASSUME LimitsInv, visit' = visit, NEW c \in Clients, Take(c) PROVE LimitsInv'
<1> DEFINE t == asks[c].at
           n == Len(spent)
<1>1. /\ plan' = plan /\ now' = now /\ told' = told /\ purge' = purge /\ asks' = [asks EXCEPT ![c] = Quiet]
      /\ asks[c].pc = "take" /\ Fits(t) /\ Spends(t, "allow")
  BY DEF Take, clock
<1>2. /\ plan.part = "limits" /\ t <= now /\ now <= t + Patience /\ t \in Nat
  BY <1>1 DEF LimitsInv, LimitsTypes, OnePart, Ages
<1>3. /\ spent' \in Seq(SpentRow) /\ tat' \in Nat /\ erased' = erased
      /\ Len(spent') = n + 1 /\ spent'[n + 1] = [at |-> t, by |-> "allow", era |-> erased]
      /\ \A k \in 1..n : spent'[k] = spent[k]
      /\ InTurn' /\ Owing' /\ Exact' /\ ToldRightly'
  <2> HIDE DEF t
  <2> QED
    BY <1>1, <1>2, SpendWell DEF n
<1>4. /\ Interval' = Interval /\ Window' = Window /\ Interval \in Nat /\ Window \in Nat /\ Interval <= Window
      /\ Rounded(Interval) = Interval /\ Rounded(Window) = Window /\ n \in Nat /\ tat \in Nat \cup {NoRow}
  BY <1>1, PolicyIs, PolicyStays, LenProperties DEF LimitsInv, LimitsTypes
<1> HIDE DEF t, n
<1>5. tat' <= t + Window
  <2>1. tat' = Later(tat, t) + Interval
    BY <1>1, <1>4 DEF Spends, Shift
  <2>2. CASE tat = NoRow
    <3>1. Later(tat, t) = t
      BY <2>2, <1>2 DEF Later, NoRow
    <3> QED
      BY <2>1, <3>1, <1>2, <1>4
  <2>3. CASE tat # NoRow
    <3>1. Later(tat, t) + Interval <= t + Window
      BY <2>3, <1>1, <1>4 DEF Fits
    <3> QED
      BY <2>1, <3>1
  <2> QED
    BY <2>2, <2>3
<1>6. \A k \in 1..n + 1 : k \in 1..n \/ k = n + 1
  BY <1>4
<1>7. AllowedOnly'
  <2>1. ASSUME NEW j \in 1..n + 1, spent'[j].by = "allow", NEW i \in 1..j
        PROVE  spent'[i].at + (j - i + 1) * Interval <= spent'[j].at + Window + (spent'[j].era - spent'[i].era) * Patience
    <3>1. CASE j \in 1..n
      <4>1. i \in 1..n
        BY <3>1, <1>4
      <4>2. spent'[j] = spent[j] /\ spent'[i] = spent[i]
        BY <4>1, <3>1, <1>3
      <4>3. Due(i, j, spent[j].at + Window, spent[j].era)
        BY <4>2, <3>1, <2>1 DEF LimitsInv, AllowedOnly, n
      <4> QED
        BY <4>2, <4>3 DEF Due
    <3>2. CASE j = n + 1
      <4>1. i \in 1..Len(spent') /\ Reach' = tat'
        BY <3>2, <1>3 DEF Reach, NoRow
      <4>2. spent'[i].at + (Len(spent') - i + 1) * Interval' <= tat' + (erased' - spent'[i].era) * Patience
        BY <4>1, <1>3 DEF Owing, Due
      <4>3. spent'[j].at = t /\ spent'[j].era = erased /\ Len(spent') = j
        BY <3>2, <1>3
      <4> DEFINE x == (j - i + 1) * Interval
                 y == (erased - spent'[i].era) * Patience
      <4>4. spent'[i] \in SpentRow /\ Patience \in Nat /\ erased \in Nat
        BY <4>1, <1>3, ElementOfSeq, ClockAssumption DEF LimitsInv, LimitsTypes
      <4>5. spent'[i].at \in Nat /\ spent'[i].era \in Nat
        BY <4>4 DEF SpentRow
      <4>6. j - i + 1 \in Int /\ erased - spent'[i].era \in Int
        BY <4>4, <4>5, <1>4
      <4>7. x \in Int /\ y \in Int
        BY <4>4, <4>6, <1>4
      <4>8. spent'[i].at + x <= tat' + y
        BY <4>2, <4>3, <1>3, <1>4
      <4> HIDE DEF x, y
      <4>9. spent'[i].at + x <= t + Window + y
        BY <4>5, <4>7, <4>8, <1>2, <1>3, <1>4, <1>5
      <4> QED
        BY <4>3, <4>9 DEF x, y
    <3> QED
      BY <1>6, <3>1, <3>2
  <2> QED
    BY <2>1, <1>3, <1>4 DEF AllowedOnly, Due
<1>8. asks' \in [Clients -> AskRow]
  BY <1>1, QuietRow DEF LimitsInv, LimitsTypes, AskRow
<1>9. LimitsTypes'
  BY <1>1, <1>3, <1>8 DEF LimitsInv, LimitsTypes, AskRow
<1>10. \A d \in Clients : asks'[d].pc # "idle" => asks'[d] = asks[d]
  BY <1>1, QuietRow DEF LimitsInv, LimitsTypes
<1>11. Ages'
  BY <1>1, <1>10 DEF LimitsInv, Ages
<1>12. OnePart'
  <2>1. spent'[n + 1].by = "allow"
    BY <1>3
  <2>2. \A k \in 1..n + 1 : spent'[k].by = "allow"
    BY <2>1, <1>2, <1>3, <1>6 DEF LimitsInv, OnePart, n
  <2> QED
    BY <1>1, <1>2, <1>3, <2>2, NoGuests DEF OnePart
<1>13. Ghosts'
  <2>1. PICK c0 : c0 = c
    OBVIOUS
  <2> DEFINE none == [k \in 1..Len(spent') |-> 0]
             by == [k \in 1..Len(spent') |-> c0]
             zero == [d \in Clients |-> 0]
  <2>2. /\ none \in [1..Len(spent') -> Nat] /\ by \in [1..Len(spent') -> Clients] /\ zero \in [Clients -> Nat]
    BY <2>1
  <2> HIDE DEF none, by, zero
  <2>3. PICK l2, w2, s2 : l2 = none /\ w2 = by /\ s2 = zero
    OBVIOUS
  <2>4. \A k \in 1..Len(spent') : spent'[k].by = "allow"
    BY <1>1, <1>2, <1>12 DEF OnePart
  <2>5. Counted(l2, w2)'
    BY <2>2, <2>3, <2>4 DEF Counted
  <2>6. \A d \in Clients : visit'[d].pc = "idle"
    BY <1>2, NoGuests
  <2>7. Looked(l2, w2, s2)'
    BY <2>2, <2>3, <2>5, <2>6 DEF Looked
  <2> QED
    BY <2>7 DEF Ghosts
<1> QED
  BY <1>3, <1>7, <1>9, <1>11, <1>12, <1>13 DEF LimitsInv
(* A request of the session layer goes on, before it counts.               *)
LEMMA VisitMoves ==
  ASSUME LimitsInv, plan.part = "cookies", UNCHANGED limits, plan' = plan, now' = now,
         NEW c \in Clients, NEW v \in VisitRow(Int), visit' = [visit EXCEPT ![c] = v],
         v.pc # "idle" => v.since <= now /\ now <= v.since + Patience,
         v.pc \in {"load", "put", "add"} => v.since <= v.at /\ v.at <= now,
         \A look, who, seen : Looked(look, who, seen) /\ v.pc # "idle" => \E k \in Nat : SeenBy(c, v, k, who)
  PROVE  LimitsInv'
<1>1. /\ tat' = tat /\ spent' = spent /\ erased' = erased /\ told' = told /\ asks' = asks /\ purge' = purge
  BY DEF limits
<1>2. visit \in [Clients -> VisitRow(Int)] /\ now \in Nat /\ erased \in Nat
  BY DEF LimitsInv, LimitsTypes
<1>3. visit' \in [Clients -> VisitRow(Int)] /\ visit'[c] = v /\ \A d \in Clients : d # c => visit'[d] = visit[d]
  BY <1>2
<1>4. LimitsTypes'
  BY <1>1, <1>3 DEF LimitsInv, LimitsTypes
<1>5. ToldRightly' /\ OnePart'
  BY <1>1, PolicyStays DEF LimitsInv, ToldRightly, OnePart
<1>6. Ages'
  <2> SUFFICES ASSUME NEW d \in Clients
               PROVE  /\ asks[d].pc # "idle" => asks[d].at <= now /\ now <= asks[d].at + Patience
                      /\ visit'[d].pc # "idle" => visit'[d].since <= now /\ now <= visit'[d].since + Patience
                      /\ visit'[d].pc \in {"load", "put", "add"} => visit'[d].since <= visit'[d].at /\ visit'[d].at <= now
    BY <1>1 DEF Ages
  <2>1. CASE d = c
    BY <2>1, <1>3 DEF LimitsInv, Ages
  <2>2. CASE d # c
    BY <2>2, <1>3 DEF LimitsInv, Ages
  <2> QED
    BY <2>1, <2>2
<1>7. Ghosts'
  <2>1. PICK look, who, seen : Looked(look, who, seen)
    BY DEF LimitsInv, Ghosts
  <2>2. PICK k \in Nat : v.pc # "idle" => SeenBy(c, v, k, who)
    BY <2>1
  <2>3. PICK s2 : s2 = [seen EXCEPT ![c] = k]
    OBVIOUS
  <2>4. s2 \in [Clients -> Nat] /\ s2[c] = k /\ \A d \in Clients : d # c => s2[d] = seen[d]
    BY <2>1, <2>3 DEF Looked
  <2>5. Counted(look, who)'
    BY <1>1, <2>1, CountedStays DEF Looked
  <2>6. ASSUME NEW d \in Clients, visit'[d].pc # "idle" PROVE SeenBy(d, visit'[d], s2[d], who)
    <3>1. CASE d = c
      BY <3>1, <2>2, <2>4, <2>6, <1>3
    <3>2. CASE d # c
      BY <3>2, <2>1, <2>4, <2>6, <1>3 DEF Looked
    <3> QED
      BY <3>1, <3>2
  <2>7. ASSUME NEW d \in Clients, visit'[d].pc # "idle" PROVE SeenBy(d, visit[d], s2[d], who)'
    <3>1. PICK w : w = visit'[d]
      OBVIOUS
    <3>2. PICK l : l = s2[d]
      OBVIOUS
    <3>3. w \in VisitRow(Int) /\ l \in Nat /\ SeenBy(d, w, l, who)
      BY <3>1, <3>2, <2>4, <2>6, <2>7, <1>3
    <3>4. SeenBy(d, w, l, who)'
      BY <3>3, <1>1, <1>2, SeenStays
    <3> QED
      BY <3>1, <3>2, <3>4
  <2>8. Looked(look, who, s2)'
    BY <2>4, <2>5, <2>7 DEF Looked
  <2> QED
    BY <2>8 DEF Ghosts
<1> QED
  BY <1>1, <1>2, <1>4, <1>5, <1>6, <1>7, RowKept

LEMMA VisitWell == ASSUME LimitsInv, plan.part = "cookies", NEW c \in Clients, NEW k \in Cookies, Visit(c, k) PROVE LimitsInv'
<1> DEFINE v == [pc |-> "over", key |-> k, since |-> now, at |-> 0, row |-> tat]
<1>1. /\ now \in Nat /\ Patience \in Nat /\ tat \in Nat \cup {NoRow} /\ Len(spent) \in Nat /\ tat \in Int /\ tat # Unread
  BY ClockAssumption, LenProperties DEF LimitsInv, LimitsTypes, NoRow, Unread
<1>2. UNCHANGED limits /\ plan' = plan /\ now' = now /\ visit' = [visit EXCEPT ![c] = v]
  BY DEF Visit, Arrival
<1>3. v \in VisitRow(Int) /\ v.pc = "over" /\ v.since = now /\ v.row = tat
  BY <1>1 DEF VisitRow
<1> HIDE DEF v
<1>4. ASSUME NEW look, NEW who, NEW seen, Looked(look, who, seen) PROVE SeenBy(c, v, Len(spent), who)
  <2>1. \A i \in 1..Len(spent) : Due(i, Len(spent), IF tat = NoRow THEN now - Patience ELSE tat, erased)
    BY DEF LimitsInv, Owing, Reach
  <2> QED
    BY <2>1, <1>1, <1>3 DEF SeenBy
<1>5. v.since <= now /\ now <= v.since + Patience
  BY <1>1, <1>3
<1>6. \A look, who, seen : Looked(look, who, seen) /\ v.pc # "idle" => \E l \in Nat : SeenBy(c, v, l, who)
  BY <1>1, <1>4
<1> QED
  BY <1>2, <1>3, <1>5, <1>6, VisitMoves
LEMMA AwayRow == Away \in VisitRow(Int) /\ Away.pc = "idle"
  BY DEF Away, VisitRow, NoRow
LEMMA LeavesWell ==
  ASSUME LimitsInv, plan.part = "cookies", NEW c \in Clients, TooMany(c) \/ VisitFails(c) PROVE LimitsInv'
<1>1. UNCHANGED limits /\ plan' = plan /\ now' = now /\ visit' = [visit EXCEPT ![c] = Away]
  BY DEF TooMany, VisitFails, clock
<1> QED
  BY <1>1, AwayRow, VisitMoves

LEMMA HasWell ==
  ASSUME LimitsInv, plan.part = "cookies", NEW c \in Clients, NEW row \in {visit[c].row, Unread}, Has(c, row) PROVE LimitsInv'
<1> DEFINE known == visit[c].key \in DOMAIN until /\ now < until[visit[c].key]
           p == IF known THEN "add" ELSE "load"
<1>1. p \in {"load", "add"}
  OBVIOUS
<1> HIDE DEF known
<1>2. /\ UNCHANGED limits /\ plan' = plan /\ now' = now /\ visit[c].pc = "over"
      /\ row = Unread \/ (row = visit[c].row /\ ~Over(row))
      /\ visit' = [visit EXCEPT ![c].pc = p, ![c].row = row, ![c].at = now]
  BY DEF Has, clock, known
<1> HIDE DEF p
<1> DEFINE v == [visit[c] EXCEPT !.pc = p, !.row = row, !.at = now]
<1>3. visit[c] \in VisitRow(Int) /\ now \in Nat /\ Patience \in Nat /\ Interval \in Nat /\ Window \in Nat /\ Interval <= Window
  BY PolicyIs, ClockAssumption DEF LimitsInv, LimitsTypes
<1>4. row \in Int
  BY <1>3 DEF VisitRow, Unread
<1>5. v \in VisitRow(Int) /\ v.pc = p /\ v.row = row /\ v.at = now /\ v.since = visit[c].since
  BY <1>1, <1>3, <1>4 DEF VisitRow
<1>6. visit' = [visit EXCEPT ![c] = v]
  BY <1>2
<1> HIDE DEF v
<1>7. visit[c].since <= now /\ now <= visit[c].since + Patience
  BY <1>2 DEF LimitsInv, Ages
<1>8. visit[c].since \in Nat /\ visit[c].row \in Int
  BY <1>3 DEF VisitRow
<1>9. ASSUME NEW look, NEW who, NEW seen, Looked(look, who, seen) PROVE seen[c] \in Nat /\ SeenBy(c, v, seen[c], who)
  <2> DEFINE k == seen[c]
             r == IF visit[c].row = NoRow THEN visit[c].since - Patience ELSE visit[c].row
             q == now + Window - Interval
  <2>1. k \in Nat /\ SeenBy(c, visit[c], k, who)
    BY <1>2, <1>9 DEF Looked
  <2>2. k <= Len(spent) /\ (\A j \in 1..Len(spent) : who[j] = c => j <= k) /\ (\A i \in 1..k : Due(i, k, r, erased))
    BY <1>2, <2>1 DEF SeenBy
  <2>3. r \in Int /\ q \in Int
    BY <1>3, <1>8
  <2>4. row # Unread => r <= q
    <3>1. CASE visit[c].row = NoRow
      <4>1. r = visit[c].since - Patience
        BY <3>1
      <4> QED
        BY <4>1, <1>3, <1>7, <1>8
    <3>2. CASE visit[c].row # NoRow
      <4>1. row # Unread => visit[c].row - now <= Window - Interval
        BY <3>2, <1>2, <1>3, <1>8 DEF Over
      <4> QED
        BY <3>2, <4>1, <1>3, <1>8
    <3> QED
      BY <3>1, <3>2
  <2>5. Len(spent) \in Nat /\ erased \in Int
    BY LenProperties DEF LimitsInv, LimitsTypes
  <2>6. \A i \in 1..k : i \in 1..Len(spent)
    BY <2>1, <2>2, <2>5
  <2> HIDE DEF k, r, q
  <2>7. row # Unread => \A i \in 1..k : Due(i, k, q, erased)
    BY <2>1, <2>2, <2>3, <2>4, <2>5, <2>6, DueMore
  <2>8. SeenBy(c, v, k, who)
    BY <1>1, <1>5, <2>2, <2>7 DEF SeenBy, q
  <2> QED
    BY <2>1, <2>8 DEF k
<1>10. v.since <= now /\ now <= v.since + Patience /\ v.since <= v.at /\ v.at <= now
  BY <1>3, <1>5, <1>7
<1>11. \A look, who, seen : Looked(look, who, seen) /\ v.pc # "idle" => \E l \in Nat : SeenBy(c, v, l, who)
  BY <1>9
<1> QED
  BY <1>2, <1>5, <1>6, <1>10, <1>11, VisitMoves

LEMMA GoesOnWell ==
  ASSUME LimitsInv, plan.part = "cookies", NEW c \in Clients, NEW p \in {"put", "add"}, visit[c].pc \in {"load", "put"},
         UNCHANGED limits, plan' = plan, now' = now, visit' = [visit EXCEPT ![c].pc = p, ![c].at = now]
  PROVE  LimitsInv'
<1> DEFINE v == [visit[c] EXCEPT !.pc = p, !.at = now]
<1>3. visit[c] \in VisitRow(Int) /\ now \in Nat /\ Patience \in Nat /\ Interval \in Nat /\ Window \in Nat /\ Interval <= Window
  BY PolicyIs, ClockAssumption DEF LimitsInv, LimitsTypes
<1>5. v \in VisitRow(Int) /\ v.pc = p /\ v.row = visit[c].row /\ v.at = now /\ v.since = visit[c].since
  BY <1>3 DEF VisitRow
<1>6. visit' = [visit EXCEPT ![c] = v]
  OBVIOUS
<1> HIDE DEF v
<1>7. visit[c].since <= now /\ now <= visit[c].since + Patience /\ visit[c].at <= now
  BY DEF LimitsInv, Ages
<1>8. visit[c].since \in Nat /\ visit[c].row \in Int /\ visit[c].at \in Nat
  BY <1>3 DEF VisitRow
<1>9. ASSUME NEW look, NEW who, NEW seen, Looked(look, who, seen) PROVE seen[c] \in Nat /\ SeenBy(c, v, seen[c], who)
  <2> DEFINE k == seen[c]
             r == visit[c].at + Window - Interval
             q == now + Window - Interval
  <2>1. k \in Nat /\ SeenBy(c, visit[c], k, who)
    BY <1>9 DEF Looked
  <2>2. /\ k <= Len(spent) /\ (\A j \in 1..Len(spent) : who[j] = c => j <= k)
        /\ visit[c].row # Unread => \A i \in 1..k : Due(i, k, r, erased)
    BY <2>1 DEF SeenBy
  <2>3. r \in Int /\ q \in Int /\ r <= q
    BY <1>3, <1>7, <1>8
  <2>5. Len(spent) \in Nat /\ erased \in Int
    BY LenProperties DEF LimitsInv, LimitsTypes
  <2>6. \A i \in 1..k : i \in 1..Len(spent)
    BY <2>1, <2>2, <2>5
  <2> HIDE DEF k, r, q
  <2>7. visit[c].row # Unread => \A i \in 1..k : Due(i, k, q, erased)
    BY <2>1, <2>2, <2>3, <2>5, <2>6, DueMore
  <2>8. SeenBy(c, v, k, who)
    BY <1>5, <2>2, <2>7 DEF SeenBy, q
  <2> QED
    BY <2>1, <2>8 DEF k
<1>10. v.since <= now /\ now <= v.since + Patience /\ v.since <= v.at /\ v.at <= now
  BY <1>3, <1>5, <1>7
<1>11. \A look, who, seen : Looked(look, who, seen) /\ v.pc # "idle" => \E l \in Nat : SeenBy(c, v, l, who)
  BY <1>9
<1> QED
  BY <1>5, <1>6, <1>10, <1>11, VisitMoves
LEMMA InvalidWell == ASSUME LimitsInv, plan.part = "cookies", NEW c \in Clients, Invalid(c) \/ Put(c) PROVE LimitsInv'
<1>1. CASE Invalid(c)
  BY <1>1, GoesOnWell DEF Invalid, clock
<1>2. CASE Put(c)
  BY <1>2, GoesOnWell DEF Put, clock
<1> QED
  BY <1>1, <1>2

(* A refusal is counted.                                                    *)
LEMMA AddWell == ASSUME LimitsInv, plan.part = "cookies", NEW c \in Clients, Add(c) PROVE LimitsInv'
<1> DEFINE t == visit[c].at
           n == Len(spent)
           by == IF visit[c].row = Unread THEN "unchecked" ELSE "add"
<1>1. /\ plan' = plan /\ now' = now /\ told' = told /\ purge' = purge /\ asks' = asks /\ visit' = [visit EXCEPT ![c] = Away]
      /\ visit[c].pc = "add" /\ Spends(t, by)
  BY DEF Add, clock
<1>2. visit[c] \in VisitRow(Int) /\ t \in Nat /\ visit[c].since \in Nat /\ now \in Nat /\ Patience \in Nat
  <2>1. visit[c] \in VisitRow(Int)
    BY DEF LimitsInv, LimitsTypes
  <2> QED
    BY <2>1, ClockAssumption DEF LimitsInv, LimitsTypes, VisitRow
<1>3. t <= now /\ now <= t + Patience
  <2>1. visit[c].since <= t /\ t <= now /\ now <= visit[c].since + Patience
    BY <1>1 DEF LimitsInv, Ages
  <2> QED
    BY <2>1, <1>2
<1>4. by \in {"allow", "add", "unchecked"} /\ by # "allow" /\ (by = "add" <=> visit[c].row # Unread)
  OBVIOUS
<1>5. /\ spent' \in Seq(SpentRow) /\ tat' \in Nat /\ erased' = erased
      /\ Len(spent') = n + 1 /\ spent'[n + 1] = [at |-> t, by |-> by, era |-> erased]
      /\ \A k \in 1..n : spent'[k] = spent[k]
      /\ InTurn' /\ Owing' /\ Exact' /\ ToldRightly'
  <2> HIDE DEF t, by
  <2> QED
    BY <1>1, <1>2, <1>3, <1>4, SpendWell DEF n
<1>6. /\ Interval' = Interval /\ Window' = Window /\ n \in Nat /\ erased \in Nat
  BY <1>1, PolicyStays, LenProperties DEF LimitsInv, LimitsTypes
<1> HIDE DEF t, n, by
<1>7. \A k \in 1..n + 1 : k \in 1..n \/ k = n + 1
  BY <1>6
<1>8. visit' \in [Clients -> VisitRow(Int)] /\ visit'[c].pc = "idle" /\ \A d \in Clients : d # c => visit'[d] = visit[d]
  BY <1>1, AwayRow DEF LimitsInv, LimitsTypes
<1>9. LimitsTypes'
  BY <1>1, <1>5, <1>8 DEF LimitsInv, LimitsTypes
<1>10. Ages'
  BY <1>1, <1>8 DEF LimitsInv, Ages
<1>11. \A k \in 1..n + 1 : spent'[k].by # "allow"
  <2>1. \A k \in 1..n : spent[k].by # "allow"
    BY DEF LimitsInv, OnePart, n
  <2> QED
    BY <2>1, <1>4, <1>5, <1>7
<1>12. OnePart' /\ AllowedOnly'
  BY <1>1, <1>5, <1>11 DEF LimitsInv, OnePart, AllowedOnly
<1>13. Ghosts'
  <2>1. PICK look, who, seen : Looked(look, who, seen)
    BY DEF LimitsInv, Ghosts
  <2>2. PICK c0 : c0 = c
    OBVIOUS
  <2>3. PICK l2 : l2 = [l \in 1..n + 1 |-> IF l = n + 1 THEN seen[c0] ELSE look[l]]
    OBVIOUS
  <2>4. PICK w2 : w2 = [l \in 1..n + 1 |-> IF l = n + 1 THEN c0 ELSE who[l]]
    OBVIOUS
  <2>5. /\ look \in [1..n -> Nat] /\ who \in [1..n -> Clients] /\ seen \in [Clients -> Nat] /\ n + 1 \in 1..n + 1
        /\ \A l \in 1..n : l \in 1..n + 1 /\ l # n + 1
    BY <1>6, <2>1 DEF Looked, Counted, n
  <2>6. /\ l2 \in [1..n + 1 -> Nat] /\ w2 \in [1..n + 1 -> Clients] /\ l2[n + 1] = seen[c] /\ w2[n + 1] = c
        /\ \A l \in 1..n : l2[l] = look[l] /\ w2[l] = who[l]
    <3>1. l2 \in [1..n + 1 -> Nat]
      BY <1>7, <2>2, <2>3, <2>5
    <3>2. w2 \in [1..n + 1 -> Clients]
      BY <1>7, <2>2, <2>4, <2>5
    <3> QED
      BY <2>2, <2>3, <2>4, <2>5, <3>1, <3>2
  <2>7. seen[c] \in Nat /\ SeenBy(c, visit[c], seen[c], who)
    BY <1>1, <2>1 DEF Looked
  <2>8. PICK m \in Nat : m = n + 1
    BY <1>6
  <2>9. ASSUME NEW l \in 1..m, spent'[l].by = "add"
        PROVE  /\ l2[l] < l
               /\ \A k \in 1..m : k < l /\ w2[k] = w2[l] => k <= l2[l]
               /\ \A i \in 1..l2[l] : Due(i, l2[l], spent[l].at + Window - Interval, spent[l].era)'
    <3>1. CASE l \in 1..n
      <4>1. look[l] < l /\ look[l] \in Nat /\ l \in Nat /\ l <= n
        BY <3>1, <2>1, <2>5, <2>9, <1>5 DEF Looked, Counted, n
      <4>2. \A k \in 1..m : k < l => k \in 1..n
        BY <4>1, <1>6
      <4>3. \A k \in 1..m : k < l /\ w2[k] = w2[l] => k <= look[l]
        BY <4>2, <3>1, <2>1, <2>6, <2>9, <1>5 DEF Looked, Counted, n
      <4>4. \A i \in 1..look[l] : Due(i, look[l], spent[l].at + Window - Interval, spent[l].era) /\ i \in 1..n
        BY <4>1, <3>1, <2>1, <2>9, <1>5, <1>6 DEF Looked, Counted, n
      <4>5. \A i \in 1..look[l] : Due(i, l2[l], spent[l].at + Window - Interval, spent[l].era)'
        BY <4>4, <3>1, <2>6, <1>5, <1>6 DEF Due
      <4> QED
        BY <4>1, <4>3, <4>5, <3>1, <2>6
    <3>2. CASE l = n + 1
      <4>1. visit[c].row # Unread
        BY <3>2, <2>9, <1>4, <1>5
      <4>2. /\ seen[c] <= n /\ (\A j \in 1..n : who[j] = c => j <= seen[c])
            /\ \A i \in 1..seen[c] : Due(i, seen[c], t + Window - Interval, erased)
        BY <4>1, <2>7, <1>1 DEF SeenBy, n, t
      <4>3. \A i \in 1..seen[c] : i \in 1..n
        BY <4>2, <2>7, <1>6
      <4>4. l2[l] = seen[c] /\ w2[l] = c
        BY <3>2, <2>6
      <4>5. l2[l] < l
        BY <4>2, <4>4, <2>7, <3>2, <1>6
      <4>6. \A k \in 1..m : k < l => k \in 1..n
        BY <3>2, <1>6
      <4>7. \A k \in 1..m : k < l /\ w2[k] = w2[l] => k <= l2[l]
        BY <4>2, <4>4, <4>6, <2>6
      <4>8. \A i \in 1..l2[l] : Due(i, l2[l], spent[l].at + Window - Interval, spent[l].era)'
        BY <4>2, <4>3, <4>4, <3>2, <1>5, <1>6 DEF Due
      <4> QED
        BY <4>5, <4>7, <4>8
    <3> QED
      BY <2>8, <1>7, <3>1, <3>2
  <2>10. Counted(l2, w2)'
    BY <2>6, <2>8, <2>9, <1>5 DEF Counted
  <2>11. ASSUME NEW d \in Clients, visit'[d].pc # "idle" PROVE SeenBy(d, visit[d], seen[d], w2)'
    <3>1. d # c /\ visit'[d] = visit[d]
      BY <2>11, <1>8
    <3>2. SeenBy(d, visit[d], seen[d], who) /\ seen[d] \in Nat
      BY <3>1, <2>1, <2>11 DEF Looked
    <3>3. PICK v : v = visit[d]
      OBVIOUS
    <3>4. PICK k : k = seen[d]
      OBVIOUS
    <3>5. /\ k \in Nat /\ k <= n /\ \A j \in 1..n : who[j] = d => j <= k
      BY <3>2, <3>4 DEF SeenBy, n
    <3>6. k <= m /\ \A i \in 1..k : i \in 1..n
      BY <3>5, <2>8, <1>6
    <3>7. \A j \in 1..m : w2[j] = d => j <= k
      <4>1. \A j \in 1..m : w2[j] = d => j \in 1..n
        BY <2>8, <2>6, <3>1, <1>7
      <4> QED
        BY <4>1, <3>5, <2>6
    <3>8. v.pc = "over" => v.row # Unread /\ \A i \in 1..k : Due(i, k, IF v.row = NoRow THEN v.since - Patience ELSE v.row, erased)
      BY <3>2, <3>3, <3>4 DEF SeenBy
    <3>9. v.pc # "over" /\ v.row # Unread => \A i \in 1..k : Due(i, k, v.at + Window - Interval, erased)
      BY <3>2, <3>3, <3>4 DEF SeenBy
    <3>10. v.pc = "over" => v.row # Unread /\ \A i \in 1..k : Due(i, k, IF v.row = NoRow THEN v.since - Patience ELSE v.row, erased)'
      BY <3>6, <3>8, <1>5, <1>6 DEF Due
    <3>11. v.pc # "over" /\ v.row # Unread => \A i \in 1..k : Due(i, k, v.at + Window - Interval, erased)'
      BY <3>6, <3>9, <1>5, <1>6 DEF Due
    <3>12. SeenBy(d, v, k, w2)'
      BY <3>6, <3>7, <3>10, <3>11, <2>8, <1>5 DEF SeenBy
    <3> QED
      BY <3>12, <3>1, <3>3, <3>4
  <2>12. Looked(l2, w2, seen)'
    BY <2>5, <2>10, <2>11 DEF Looked
  <2> QED
    BY <2>12 DEF Ghosts
<1> QED
  BY <1>5, <1>9, <1>10, <1>12, <1>13 DEF LimitsInv

(* Time passes.                                                            *)
LEMMA TickWell == ASSUME LimitsInv, Tick PROVE LimitsInv'
<1>1. /\ plan' = plan /\ now' = now + Micro /\ (\A t \in Since : now + Micro <= t + Patience) /\ UNCHANGED limits /\ visit' = visit
  BY DEF Tick, Passes, cookies
<1>2. /\ tat' = tat /\ spent' = spent /\ erased' = erased /\ told' = told /\ asks' = asks /\ purge' = purge
  BY <1>1 DEF limits
<1>3. now \in Nat /\ now' \in Nat /\ now <= now' /\ erased \in Nat /\ Patience \in Nat
  BY <1>1, ClockAssumption DEF LimitsInv, LimitsTypes
<1>4. purge.at \in Nat /\ asks \in [Clients -> AskRow] /\ visit \in [Clients -> VisitRow(Int)]
  BY DEF LimitsInv, LimitsTypes, AskRow
<1>5. purge.pc = "delete" => purge.at <= now'
  BY <1>3, <1>4 DEF LimitsInv, LimitsTypes
<1>6. LimitsTypes'
  BY <1>1, <1>2, <1>3, <1>5 DEF LimitsInv, LimitsTypes
<1>7. ToldRightly' /\ OnePart'
  BY <1>1, <1>2, PolicyStays DEF LimitsInv, ToldRightly, OnePart
<1>8. Ages'
  <2> SUFFICES ASSUME NEW c \in Clients
               PROVE  /\ asks[c].pc # "idle" => asks[c].at <= now' /\ now' <= asks[c].at + Patience
                      /\ visit[c].pc # "idle" => visit[c].since <= now' /\ now' <= visit[c].since + Patience
                      /\ visit[c].pc \in {"load", "put", "add"} => visit[c].since <= visit[c].at /\ visit[c].at <= now'
    BY <1>1, <1>2 DEF Ages
  <2>1. asks[c] \in AskRow /\ visit[c] \in VisitRow(Int)
    BY <1>4
  <2>2. asks[c].at \in Nat /\ visit[c].since \in Nat /\ visit[c].at \in Nat
    BY <2>1 DEF AskRow, VisitRow
  <2>3. asks[c].pc # "idle" => asks[c].at \in Since
    BY DEF Since, Quiet
  <2>4. visit[c].pc # "idle" => visit[c].since \in Since
    BY DEF Since, Away
  <2>5. asks[c].pc # "idle" => asks[c].at <= now' /\ now' <= asks[c].at + Patience
    BY <1>1, <1>3, <2>2, <2>3 DEF LimitsInv, Ages
  <2>6. visit[c].pc # "idle" => visit[c].since <= now' /\ now' <= visit[c].since + Patience
    BY <1>1, <1>3, <2>2, <2>4 DEF LimitsInv, Ages
  <2>7. visit[c].pc \in {"load", "put", "add"} => visit[c].since <= visit[c].at /\ visit[c].at <= now'
    BY <1>1, <1>3, <2>2 DEF LimitsInv, Ages
  <2> QED
    BY <2>5, <2>6, <2>7
<1>9. Ghosts'
  BY <1>1, <1>2, <1>3, GhostsStay
<1> QED
  BY <1>1, <1>2, <1>3, <1>6, <1>7, <1>8, <1>9, RowKept
LEMMA LimitsKeeps == LimitsInv /\ [Next]_edge => LimitsInv'
<1> SUFFICES ASSUME LimitsInv, [Next]_edge PROVE LimitsInv'
  OBVIOUS
<1>1. CASE Tick
  BY <1>1, TickWell
<1>2. CASE LimitsNext /\ UNCHANGED cookies
  <2>1. visit' = visit
    BY <1>2 DEF cookies
  <2> QED
    BY <1>2, <2>1, AskedWell, TakeWell, RefuseWell, GetTATWell, StoreFailsWell, SelectWell, DeletedWell, CrashWell DEF LimitsNext
<1>3. CASE plan.part = "cookies" /\ CookiesNext
  BY <1>3, VisitWell, LeavesWell, HasWell, InvalidWell, AddWell DEF CookiesNext
<1>4. CASE UNCHANGED <<plan, now, limits, cookies>>
  <2>1. /\ plan' = plan /\ now' = now /\ tat' = tat /\ spent' = spent /\ erased' = erased /\ told' = told /\ asks' = asks
        /\ purge' = purge /\ visit' = visit
    BY <1>4 DEF limits, cookies
  <2>2. now \in Nat /\ erased \in Nat
    BY DEF LimitsInv, LimitsTypes
  <2>3. LimitsTypes' /\ Ages' /\ OnePart' /\ ToldRightly'
    BY <2>1, PolicyStays DEF LimitsInv, LimitsTypes, Ages, OnePart, ToldRightly
  <2>4. Ghosts'
    BY <2>1, <2>2, GhostsStay
  <2> QED
    BY <2>1, <2>2, <2>3, <2>4, RowKept
<1>5. CASE UNCHANGED edge
  BY <1>4, <1>5 DEF edge, clock
<1> QED
  BY <1>1, <1>2, <1>3, <1>4, <1>5, HumanStill, PlayersStill, PipelineStill, ListsStill, ProgramsStill, HealthStill,
     CallersStill, BlobsStill DEF Next

(* The limit is as the policy says when it changes.                         *)
LEMMA LimitsSay == LimitsInv /\ LimitsInv' /\ [Next]_edge => (limits' # limits => Bounded' /\ RefusedRightly)
<1> SUFFICES ASSUME LimitsInv, LimitsInv', [Next]_edge PROVE Bounded' /\ RefusedRightly
  OBVIOUS
<1>1. Bounded'
  <2>1. (LimitsInv => Bounded)'
    BY BoundedNow, PTL
  <2> QED
    BY <2>1
<1>2. ASSUME NEW c \in Clients, asks[c].pc = "take", asks'[c].pc = "refused" PROVE ~Fits(asks[c].at)
  <2>1. asks' # asks /\ asks \in [Clients -> AskRow]
    BY <1>2 DEF LimitsInv, LimitsTypes, AskRow
  <2>2. LimitsNext
    <3>1. CASE Tick
      BY <3>1, <2>1 DEF Tick, limits
    <3>2. CASE CookiesNext
      BY <3>2, <2>1 DEF CookiesNext, Visit, TooMany, Has, Invalid, Put, Add, VisitFails, limits
    <3>3. CASE UNCHANGED limits
      BY <3>3, <2>1 DEF limits
    <3> QED
      BY <3>1, <3>2, <3>3 DEF Next, edge
  <2>3. PICK d \in Clients : Asked(d) \/ Take(d) \/ Refuse(d) \/ GetTAT(d) \/ StoreFails(d)
    BY <2>1, <2>2 DEF LimitsNext, Select, DeleteExpired, CrashLimits
  <2>4. d = c
    BY <2>1, <2>3, <1>2 DEF Asked, Take, Refuse, GetTAT, StoreFails
  <2>5. Refuse(c)
    BY <2>1, <2>3, <2>4, <1>2 DEF Asked, Take, GetTAT, StoreFails, Quiet
  <2> QED
    BY <2>5 DEF Refuse
<1>3. RefusedRightly
  BY <1>2, RefusedWell DEF RefusedRightly
<1> QED
  BY <1>1, <1>3
-----------------------------------------------------------------------------
(* Callers.  Settings under which a process starts, and the ways a request  *)
(* comes there.                                                            *)
Starts(s) == PublicStarts(s) \/ AdminStarts(s)
Bare(s)   == /\ s.routes = {<<>>} /\ s.proxies = {} /\ s.bffs = {} /\ s.api = "public"
Hosted(s) == /\ s.routes = {<<"proxy">>, <<"bff", "proxy">>, <<"bff">>} /\ s.proxies = {"proxy"} /\ s.bffs = {"bff"}
             /\ s.secrets = {"next", "current"} /\ s.header = "" /\ s.api = "public"
BehindCDN(s) == /\ s.routes = {<<"node", "proxy">>, <<"bff", "proxy">>} /\ s.proxies = {"proxy"} /\ s.bffs = {"bff"}
                /\ s.secrets = {"next", "current"} /\ s.header = "CF-Connecting-IP" /\ s.api = "public"
OfStaff(s) == /\ s.routes = {<<"node", "proxy">>} /\ s.proxies = {"proxy"} /\ s.bffs = {}
              /\ s.header = "CF-Connecting-IP" /\ s.api = "admin"
Items == {<<>>, <<[class |-> "geo_nearest", kind |-> "ip", burst |-> 2]>>, <<[class |-> "default", kind |-> "device", burst |-> Off]>>}
LEMMA Single == ASSUME NEW x PROVE DOMAIN <<x>> = {1} /\ <<x>>[1] = x
  OBVIOUS
LEMMA KnownClasses == DOMAIN DefaultRules = {"default", "auth", "geo_nearest", "staff_auth"}
  BY DEF DefaultRules
LEMMA Addresses == Addrs = {"home", "work", "node", "proxy", "bff", "lan"}
  BY DEF Addrs, Public
LEMMA HowItStarts ==
  ASSUME NEW s \in Settings, Starts(s)
  PROVE  /\ Bare(s) \/ Hosted(s) \/ BehindCDN(s) \/ OfStaff(s)
         /\ s.items \in Items /\ (s.allow = {} \/ s.allow = {"work"})
<1> DEFINE Plain == [api |-> "public", routes |-> {<<>>}, proxies |-> {}, bffs |-> {}, secrets |-> {},
                     header |-> "", allow |-> {}, items |-> <<>>]
           Host  == [Plain EXCEPT !.routes = {<<"proxy">>, <<"bff", "proxy">>, <<"bff">>}, !.proxies = {"proxy"},
                             !.bffs = {"bff"}, !.secrets = {"next", "current"}]
           Cdn   == [Host EXCEPT !.routes = {<<"node", "proxy">>, <<"bff", "proxy">>}, !.header = "CF-Connecting-IP"]
           Staff == [Cdn EXCEPT !.api = "admin", !.routes = {<<"node", "proxy">>}, !.bffs = {}, !.secrets = {}]
           Typo  == <<[class |-> "geo_naerest", kind |-> "ip", burst |-> 2]>>
<1>1. ValidPeer(s)
  BY DEF Starts, PublicStarts, AdminStarts
<1>2. ValidHeader(s) /\ Sound(s.proxies) /\ (s.bffs # {} => s.secrets # {}) /\ ShortSecret \notin s.secrets
  BY <1>1 DEF ValidPeer
<1>3. s.api = "public" => StrayClasses(s) = {}
  BY DEF Starts, PublicStarts, AdminStarts
<1>4. s.api = "admin" => Sound(s.allow)
  BY DEF Starts, PublicStarts, AdminStarts, ValidAllowlist
<1>5. s \in {Plain, Host, Cdn, Staff, [Staff EXCEPT !.allow = {"work"}],
      [Plain EXCEPT !.header = "CF-Connecting-IP"], [Host EXCEPT !.header = "X-Real-IP"],
      [Host EXCEPT !.header = "no token"], [Host EXCEPT !.proxies = Addrs], [Host EXCEPT !.secrets = {}],
      [Host EXCEPT !.secrets = {"current", ShortSecret}], [Staff EXCEPT !.allow = Addrs],
      [Plain EXCEPT !.items = <<[class |-> "geo_nearest", kind |-> "ip", burst |-> 2]>>],
      [Plain EXCEPT !.items = <<[class |-> "default", kind |-> "device", burst |-> Off]>>],
      [Plain EXCEPT !.items = Typo]}
  BY DEF Settings
<1>6. s # [Plain EXCEPT !.header = "CF-Connecting-IP"]
  BY <1>2 DEF ValidHeader
<1>7. s # [Host EXCEPT !.header = "X-Real-IP"]
  BY <1>2 DEF ValidHeader, OfVisitor
<1>8. s # [Host EXCEPT !.header = "no token"]
  BY <1>2 DEF ValidHeader, IsToken
<1>9. s # [Host EXCEPT !.proxies = Addrs]
  BY <1>2 DEF Sound
<1>10. s # [Host EXCEPT !.secrets = {}]
  BY <1>2
<1>11. s # [Host EXCEPT !.secrets = {"current", ShortSecret}]
  BY <1>2
<1>12. s # [Staff EXCEPT !.allow = Addrs]
  BY <1>4 DEF Sound
<1>13. s # [Plain EXCEPT !.items = Typo]
  <2> SUFFICES ASSUME s = [Plain EXCEPT !.items = Typo] PROVE FALSE
    OBVIOUS
  <2>1. s.api = "public" /\ s.items = Typo
    OBVIOUS
  <2>2. 1 \in DOMAIN s.items /\ s.items[1].class = "geo_naerest"
    <3>1. PICK x : x = [class |-> "geo_naerest", kind |-> "ip", burst |-> 2]
      OBVIOUS
    <3>2. s.items = <<x>> /\ x.class = "geo_naerest"
      BY <2>1, <3>1
    <3> QED
      BY <3>2, Single
  <2>3. "geo_naerest" \in Classes(s)
    BY <2>2 DEF Classes
  <2>4. "geo_naerest" \notin DOMAIN DefaultRules
    BY KnownClasses
  <2>5. "geo_naerest" \notin Contract(s.api)
    BY <2>1 DEF Contract
  <2>6. "geo_naerest" \in StrayClasses(s)
    BY <2>3, <2>4, <2>5 DEF StrayClasses
  <2> QED
    BY <2>1, <2>6, <1>3
<1>14. s \in {Plain, Host, Cdn, Staff, [Staff EXCEPT !.allow = {"work"}],
      [Plain EXCEPT !.items = <<[class |-> "geo_nearest", kind |-> "ip", burst |-> 2]>>],
      [Plain EXCEPT !.items = <<[class |-> "default", kind |-> "device", burst |-> Off]>>]}
  <2> HIDE DEF Plain, Host, Cdn, Staff, Typo
  <2> QED
    BY <1>5, <1>6, <1>7, <1>8, <1>9, <1>10, <1>11, <1>12, <1>13
<1>15. CASE s = Plain
  BY <1>15 DEF Bare, Items
<1>16. CASE s = Host
  BY <1>16 DEF Hosted, Items
<1>17. CASE s = Cdn
  BY <1>17 DEF BehindCDN, Items
<1>18. CASE s = Staff
  BY <1>18 DEF OfStaff, Items
<1>19. CASE s = [Staff EXCEPT !.allow = {"work"}]
  BY <1>19 DEF OfStaff, Items
<1>20. CASE s = [Plain EXCEPT !.items = <<[class |-> "geo_nearest", kind |-> "ip", burst |-> 2]>>]
  BY <1>20 DEF Bare, Items
<1>21. CASE s = [Plain EXCEPT !.items = <<[class |-> "default", kind |-> "device", burst |-> Off]>>]
  BY <1>21 DEF Bare, Items
<1> HIDE DEF Plain, Host, Cdn, Staff
<1> QED
  BY <1>14, <1>15, <1>16, <1>17, <1>18, <1>19, <1>20, <1>21

(* What a visit is.                                                         *)
Hops == [ip : Addrs \cup {"?"}, six : BOOLEAN]
Coming(s, v) ==
  /\ v.from \in {"home", "work"} /\ v.six \in BOOLEAN /\ v.prior \in Seq(Hops) /\ v.route \in s.routes
  /\ v.who \in {0, 1, 2} /\ v.device \in {"", "d1", "d2"} /\ v.label \in {"", "d1", "too long"}
  /\ v.class \in {"", "geo_nearest", "staff_auth"}
  /\ v.device # "" => v.who # Nobody
  /\ v.label # "" => v.route \in {<<"bff">>, <<"bff", "proxy">>}
LEMMA Direct ==
  ASSUME NEW s \in Settings, Starts(s)
  PROVE  LET direct == CHOOSE r \in s.routes : "bff" \notin {r[i] : i \in DOMAIN r} IN
         direct \in s.routes /\ \A r \in s.routes : r # direct => r \in {<<"bff">>, <<"bff", "proxy">>}
<1> DEFINE Far(r) == "bff" \notin {r[i] : i \in DOMAIN r}
           direct == CHOOSE r \in s.routes : Far(r)
<1>1. Far(<<>>) /\ Far(<<"proxy">>) /\ Far(<<"node", "proxy">>)
  OBVIOUS
<1>2. ~Far(<<"bff">>) /\ ~Far(<<"bff", "proxy">>)
  <2>1. <<"bff">>[1] = "bff" /\ 1 \in DOMAIN <<"bff">> /\ <<"bff", "proxy">>[1] = "bff" /\ 1 \in DOMAIN <<"bff", "proxy">>
    OBVIOUS
  <2> QED
    BY <2>1
<1> HIDE DEF Far
<1>3. \E r \in s.routes : Far(r)
  BY <1>1, HowItStarts DEF Bare, Hosted, BehindCDN, OfStaff
<1>4. direct \in s.routes /\ Far(direct)
  BY <1>3
<1> HIDE DEF direct
<1>5. \A r \in s.routes : r # direct => r \in {<<"bff">>, <<"bff", "proxy">>}
  <2>1. \/ s.routes = {<<>>} \/ s.routes = {<<"proxy">>, <<"bff", "proxy">>, <<"bff">>}
        \/ s.routes = {<<"node", "proxy">>, <<"bff", "proxy">>} \/ s.routes = {<<"node", "proxy">>}
    BY HowItStarts DEF Bare, Hosted, BehindCDN, OfStaff
  <2>2. PICK x, y, z, b, bp : x = <<>> /\ y = <<"proxy">> /\ z = <<"node", "proxy">> /\ b = <<"bff">> /\ bp = <<"bff", "proxy">>
    OBVIOUS
  <2>3. ~Far(b) /\ ~Far(bp)
    BY <1>2, <2>2
  <2>4. s.routes = {x} \/ s.routes = {y, bp, b} \/ s.routes = {z, bp} \/ s.routes = {z}
    BY <2>1, <2>2
  <2>5. \A r \in s.routes : r # direct => r = b \/ r = bp
    BY <2>3, <2>4, <1>4
  <2> QED
    BY <2>2, <2>5
<1> QED
  BY <1>4, <1>5 DEF direct, Far
LEMMA WhoComes == ASSUME NEW s \in Settings, Starts(s), NEW v \in Visits(s) PROVE Coming(s, v)
<1> DEFINE limited == CHOOSE k \in Contract(s.api) : k # ""
           direct  == CHOOSE r \in s.routes : "bff" \notin {r[i] : i \in DOMAIN r}
           devices == IF s.api = "public" THEN {"d1", "d2"} ELSE {""}
<1>1. direct \in s.routes /\ \A r \in s.routes : r # direct => r \in {<<"bff">>, <<"bff", "proxy">>}
  BY Direct
<1>2. limited \in {"geo_nearest", "staff_auth"}
  BY DEF Contract
<1>3. Priors \subseteq Seq(Hops) /\ <<>> \in Seq(Hops)
  <2>1. IP("lan") \in Hops /\ IP("work") \in Hops /\ Garbled \in Hops /\ IP("home") \in Hops /\ IP("proxy") \in Hops
    BY Addresses DEF IP, Garbled, Hops
  <2> QED
    BY <2>1 DEF Priors
<1>4. devices \subseteq {"", "d1", "d2"}
  OBVIOUS
<1>5. \/ v \in [from : {"home", "work"}, six : {FALSE}, prior : Priors, route : {direct},
                who : {Nobody}, device : {""}, label : {""}, class : {limited}]
      \/ v \in [from : {"home", "work"}, six : {TRUE}, prior : {<<>>}, route : s.routes,
                who : {Nobody}, device : {""}, label : {""}, class : {limited}]
      \/ v \in [from : {"home"}, six : {FALSE}, prior : {<<>>}, route : {direct},
                who : {1, 2}, device : devices, label : {""}, class : {""}]
      \/ v \in [from : {"home", "work"}, six : {FALSE}, prior : {<<>>}, route : s.routes \ {direct},
                who : {Nobody}, device : {""}, label : {"d1", "too long"}, class : {""}]
  BY DEF Visits
<1> HIDE DEF limited, direct, devices
<1>6. v.from \in {"home", "work"} /\ v.six \in BOOLEAN
  BY <1>5
<1>7. v.prior \in Seq(Hops)
  BY <1>3, <1>5
<1>8. v.route \in s.routes /\ (v.label # "" => v.route \in {<<"bff">>, <<"bff", "proxy">>})
  <2>1. (v.route = direct \/ v.route \in s.routes) /\ (v.label # "" => v.route \in s.routes /\ v.route # direct)
    BY <1>5
  <2> QED
    BY <2>1, <1>1
<1>9. v.who \in {0, 1, 2} /\ (v.device # "" => v.who # Nobody)
  <2>1. (v.who = Nobody /\ v.device = "") \/ v.who \in {1, 2}
    BY <1>5
  <2>2. v.who = Nobody \/ v.who \in {1, 2}
    BY <2>1
  <2>3. v.who \in {0, 1, 2}
    BY <2>2 DEF Nobody
  <2>4. ASSUME v.device # "" PROVE v.who # Nobody
    <3>1. v.who \in {1, 2}
      BY <2>1, <2>4
    <3> QED
      BY <3>1 DEF Nobody
  <2> QED
    BY <2>3, <2>4
<1>10. v.device \in {"", "d1", "d2"}
  BY <1>4, <1>5
<1>11. v.label \in {"", "d1", "too long"}
  BY <1>5
<1>12. v.class \in {"", "geo_nearest", "staff_auth"}
  BY <1>2, <1>5
<1> QED
  BY <1>6, <1>7, <1>8, <1>9, <1>10, <1>11, <1>12 DEF Coming

(* The address of the connection, whatever was written in front of it.      *)
Sender(v) == [ip |-> v.from, six |-> v.six]
LEMMA Headed ==
  ASSUME NEW v
  PROVE  LET m == Headers(v) IN
         m.remote = Sender(v) /\ m.forwarded = v.prior /\ m.cdn = <<>> /\ m.client = Garbled /\ m.secret = ""
  BY DEF Headers, Sender
LEMMA Lengths ==
  /\ Len(<<>>) = 0 /\ Len(<<"proxy">>) = 1 /\ Len(<<"bff">>) = 1 /\ Len(<<"bff", "proxy">>) = 2 /\ Len(<<"node", "proxy">>) = 2
  /\ <<"proxy">>[1] = "proxy" /\ <<"bff">>[1] = "bff"
  /\ <<"bff", "proxy">>[1] = "bff" /\ <<"bff", "proxy">>[2] = "proxy"
  /\ <<"node", "proxy">>[1] = "node" /\ <<"node", "proxy">>[2] = "proxy"
  OBVIOUS
LEMMA SentAtOnce ==
  ASSUME NEW v, v.route = <<>> PROVE LET m == Message(v) IN m.remote = Sender(v)
  BY Lengths, Headed DEF Message
LEMMA SentByProxy ==
  ASSUME NEW v, v.route = <<"proxy">>
  PROVE  LET m == Message(v) IN
         m.remote = Six("proxy") /\ m.forwarded = Append(v.prior, Sender(v)) /\ m.cdn = <<>> /\ m.client = Garbled
<1>1. Message(v) = Hop(Headers(v), "proxy", v)
  BY Lengths DEF Message
<1> QED
  BY <1>1 DEF Hop, Headers, Sender
LEMMA SentByBFF ==
  ASSUME NEW v, v.route = <<"bff">>
  PROVE  LET m == Message(v) IN m.remote = IP("bff") /\ m.client = Sender(v) /\ m.secret = "next" /\ m.device = v.label
<1>1. Message(v) = Hop(Headers(v), "bff", v)
  BY Lengths DEF Message
<1> QED
  BY <1>1 DEF Hop, Headers, Sender
LEMMA SentByBoth ==
  ASSUME NEW v, v.route = <<"bff", "proxy">>
  PROVE  LET m == Message(v) IN
         /\ m.remote = Six("proxy") /\ m.forwarded = Append(<<>>, IP("bff")) /\ m.cdn = <<>>
         /\ m.client = Sender(v) /\ m.secret = "next" /\ m.device = v.label
<1>1. Message(v) = Hop(Hop(Headers(v), "bff", v), "proxy", v)
  BY Lengths DEF Message
<1> QED
  BY <1>1 DEF Hop, Headers, Sender
LEMMA SentByNode ==
  ASSUME NEW v, v.route = <<"node", "proxy">>
  PROVE  LET m == Message(v) IN m.remote = Six("proxy") /\ m.cdn = <<Sender(v)>> /\ m.client = Garbled
<1>1. Message(v) = Hop(Hop(Headers(v), "node", v), "proxy", v)
  BY Lengths DEF Message
<1> QED
  BY <1>1 DEF Hop, Headers, Sender

(* The last address of the list is the answer when nobody trusts it.        *)
LEMMA FromTheRight ==
  ASSUME NEW hops \in Seq(Hops), NEW a, a # Garbled, NEW trusted, ~Within(trusted, Unmap(a)), a \in Hops, NEW last
  PROVE  Append(hops, a) # <<>> /\ Forwarded(Append(hops, a), trusted, last) = Unmap(a)
<1> DEFINE all == Append(hops, a)
           n == Len(all)
<1>1. n \in Nat \ {0} /\ DOMAIN all = 1..n /\ all[n] = a
  BY AppendProperties, LenProperties
<1> HIDE DEF all
<1> DEFINE ends == {i \in DOMAIN all : all[i] = Garbled \/ ~Within(trusted, Unmap(all[i]))}
           end  == CHOOSE i \in ends : \A j \in ends : j <= i
<1>2. n \in ends
  BY <1>1
<1>3. \A i \in ends : i \in Nat /\ i <= n
  BY <1>1
<1>4. end \in ends /\ \A j \in ends : j <= end
  BY <1>2, <1>3
<1>5. end = n
  <2> HIDE DEF end, ends
  <2> QED
    BY <1>1, <1>2, <1>3, <1>4
<1>6. Forwarded(all, trusted, last) = Unmap(all[end])
  <2>1. ends # {} /\ all[end] # Garbled
    BY <1>1, <1>2, <1>5
  <2>2. Forwarded(all, trusted, last) =
          IF ends = {} THEN Unmap(all[1])
          ELSE IF all[end] # Garbled THEN Unmap(all[end])
          ELSE IF end = Len(all) THEN last ELSE Unmap(all[end + 1])
    BY DEF Forwarded
  <2> HIDE DEF end, ends
  <2> QED
    BY <2>1, <2>2
<1>7. all # <<>>
  <2>1. Len(<<>>) = 0
    OBVIOUS
  <2> QED
    BY <2>1, <1>1
<1> QED
  BY <1>1, <1>5, <1>6, <1>7 DEF all

(* What Resolve makes of the address behind the trusted proxies.            *)
LEMMA OfVisitorItself ==
  ASSUME NEW s, NEW m, NEW v, v.label = "", m.client = Garbled,
         \/ ~Within(s.proxies, PeerAddr(m)) /\ PeerAddr(m) = IP(v.from)
         \/ /\ Within(s.proxies, PeerAddr(m))
            /\ \/ FromCDN(HeaderOf(m, s.header)) /\ Unmap(HeaderOf(m, s.header)[1]) = IP(v.from)
               \/ /\ ~FromCDN(HeaderOf(m, s.header)) /\ m.forwarded # <<>>
                  /\ Forwarded(m.forwarded, s.proxies, PeerAddr(m)) = IP(v.from)
  PROVE  Resolve(s, m) = [ip |-> IP(v.from), device |-> Device(v.label)]
<1>1. Device(v.label) = ""
  BY DEF Device
<1> DEFINE cdn   == HeaderOf(m, s.header)
           peer  == PeerAddr(m)
           addr  == IF ~Within(s.proxies, peer) THEN peer
                    ELSE IF FromCDN(cdn) THEN Unmap(cdn[1])
                    ELSE IF m.forwarded # <<>> THEN Forwarded(m.forwarded, s.proxies, peer) ELSE peer
           ofBFF == Within(s.bffs, addr) /\ SecretOK(m.secret, s.secrets) /\ m.client # Garbled
<1>2. Resolve(s, m) = IF ofBFF THEN [ip |-> Unmap(m.client), device |-> Device(m.device)] ELSE [ip |-> addr, device |-> ""]
  BY DEF Resolve
<1>3. addr = IP(v.from)
  OBVIOUS
<1>4. ~ofBFF
  OBVIOUS
<1> HIDE DEF addr, ofBFF
<1> QED
  BY <1>1, <1>2, <1>3, <1>4
LEMMA OfBFF ==
  ASSUME NEW s, NEW m, NEW v, m.client = Sender(v), m.client # Garbled, SecretOK(m.secret, s.secrets), m.device = v.label,
         Within(s.bffs, IP("bff")),
         \/ ~Within(s.proxies, PeerAddr(m)) /\ PeerAddr(m) = IP("bff")
         \/ /\ Within(s.proxies, PeerAddr(m)) /\ ~FromCDN(HeaderOf(m, s.header)) /\ m.forwarded # <<>>
            /\ Forwarded(m.forwarded, s.proxies, PeerAddr(m)) = IP("bff")
  PROVE  Resolve(s, m) = [ip |-> IP(v.from), device |-> Device(v.label)]
<1>1. Unmap(m.client) = IP(v.from)
  BY DEF Unmap, Sender
<1> DEFINE cdn   == HeaderOf(m, s.header)
           peer  == PeerAddr(m)
           addr  == IF ~Within(s.proxies, peer) THEN peer
                    ELSE IF FromCDN(cdn) THEN Unmap(cdn[1])
                    ELSE IF m.forwarded # <<>> THEN Forwarded(m.forwarded, s.proxies, peer) ELSE peer
           ofBFF == Within(s.bffs, addr) /\ SecretOK(m.secret, s.secrets) /\ m.client # Garbled
<1>2. Resolve(s, m) = IF ofBFF THEN [ip |-> Unmap(m.client), device |-> Device(m.device)] ELSE [ip |-> addr, device |-> ""]
  BY DEF Resolve
<1>3. addr = IP("bff")
  OBVIOUS
<1>4. ofBFF
  BY <1>3
<1> HIDE DEF addr, ofBFF
<1> QED
  BY <1>1, <1>2, <1>4
LEMMA SenderIs ==
  ASSUME NEW s \in Settings, Starts(s), NEW v, Coming(s, v)
  PROVE  Sender(v) \in Hops /\ Sender(v) # Garbled /\ Unmap(Sender(v)) = IP(v.from) /\ v.from \in Public
         /\ v.from \notin {"proxy", "bff"}
<1>1. v.from \in {"home", "work"} /\ v.six \in BOOLEAN
  BY DEF Coming
<1>2. Sender(v).ip = v.from /\ Sender(v) \in [ip : {"home", "work"}, six : BOOLEAN]
  BY <1>1 DEF Sender
<1>3. Sender(v) \in Hops
  BY <1>1, Addresses DEF Sender, Hops
<1>4. Garbled.ip = "?"
  BY DEF Garbled
<1> QED
  BY <1>1, <1>2, <1>3, <1>4 DEF Unmap, Public
LEMMA Resolved ==
  ASSUME NEW s \in Settings, Starts(s), NEW v, Coming(s, v)
  PROVE  Resolve(s, Message(v)) = [ip |-> IP(v.from), device |-> Device(v.label)]
<1>1. /\ Sender(v) \in Hops /\ Sender(v) # Garbled /\ Unmap(Sender(v)) = IP(v.from) /\ v.from \in Public
      /\ v.from \notin {"proxy", "bff"}
  BY SenderIs
<1>2. v.route \in s.routes /\ v.prior \in Seq(Hops) /\ (v.label # "" => v.route \in {<<"bff">>, <<"bff", "proxy">>})
  BY DEF Coming
<1>3. PICK direct, proxy, bff, both, node :
        direct = <<>> /\ proxy = <<"proxy">> /\ bff = <<"bff">> /\ both = <<"bff", "proxy">> /\ node = <<"node", "proxy">>
  OBVIOUS
<1>4. direct \notin {bff, both} /\ proxy \notin {bff, both} /\ node \notin {bff, both}
  <2>1. Len(direct) = 0 /\ Len(proxy) = 1 /\ Len(bff) = 1 /\ Len(both) = 2 /\ Len(node) = 2 /\ proxy[1] # bff[1] /\ node[1] # both[1]
    BY <1>3, Lengths
  <2> QED
    BY <2>1
<1>5. /\ v.route = direct => Bare(s)
      /\ v.route = proxy => Hosted(s)
      /\ v.route = bff => Hosted(s)
      /\ v.route = both => Hosted(s) \/ BehindCDN(s)
      /\ v.route = node => BehindCDN(s) \/ OfStaff(s)
      /\ v.route \in {direct, proxy, bff, both, node}
  <2>1. Len(direct) = 0 /\ Len(proxy) = 1 /\ Len(bff) = 1 /\ Len(both) = 2 /\ Len(node) = 2 /\ proxy[1] # bff[1] /\ node[1] # both[1]
    BY <1>3, Lengths
  <2>2. direct # proxy /\ direct # node /\ proxy # node /\ bff # both
    BY <2>1
  <2>3. /\ Bare(s) => s.routes = {direct}
        /\ Hosted(s) => s.routes = {proxy, both, bff}
        /\ BehindCDN(s) => s.routes = {node, both}
        /\ OfStaff(s) => s.routes = {node}
    BY <1>3 DEF Bare, Hosted, BehindCDN, OfStaff
  <2>4. Bare(s) \/ Hosted(s) \/ BehindCDN(s) \/ OfStaff(s)
    BY HowItStarts
  <2> QED
    BY <2>2, <2>3, <2>4, <1>2, <1>4
<1>6. v.route \in {direct, proxy, node} => v.label = ""
  BY <1>2, <1>3, <1>4
<1> DEFINE m == Message(v)
<1>7. CASE v.route = direct
  <2>1. m.remote = Sender(v) /\ m.client = Garbled
    BY <1>3, <1>7, Lengths, Headed DEF Message
  <2>2. s.proxies = {} /\ v.label = ""
    BY <1>5, <1>6, <1>7 DEF Bare
  <2>3. ~Within(s.proxies, PeerAddr(m)) /\ PeerAddr(m) = IP(v.from)
    BY <1>1, <2>1, <2>2 DEF Within, PeerAddr
  <2> HIDE DEF m
  <2> QED
    BY <2>1, <2>2, <2>3, OfVisitorItself DEF m
<1>8. CASE v.route = proxy
  <2>1. m.remote = Six("proxy") /\ m.forwarded = Append(v.prior, Sender(v)) /\ m.cdn = <<>> /\ m.client = Garbled
    BY <1>3, <1>8, SentByProxy
  <2>2. s.proxies = {"proxy"} /\ s.header = "" /\ v.label = ""
    BY <1>5, <1>6, <1>8 DEF Hosted
  <2> HIDE DEF m
  <2>3. PeerAddr(m) = IP("proxy") /\ Within(s.proxies, PeerAddr(m))
    <3>1. PeerAddr(m) = IP("proxy")
      BY <2>1 DEF PeerAddr, Unmap, Six
    <3>2. IP("proxy").ip = "proxy"
      BY DEF IP
    <3> QED
      BY <3>1, <3>2, <2>2 DEF Within
  <2>4. ~FromCDN(HeaderOf(m, s.header))
    BY <2>2, Lengths DEF FromCDN, HeaderOf
  <2>5. ~Within(s.proxies, Unmap(Sender(v)))
    <3>1. IP(v.from).ip = v.from
      BY DEF IP
    <3> QED
      BY <3>1, <1>1, <2>2 DEF Within
  <2>6. m.forwarded # <<>> /\ Forwarded(m.forwarded, s.proxies, PeerAddr(m)) = IP(v.from)
    <3>1. PICK a : a = Sender(v)
      OBVIOUS
    <3>2. PICK l : l = PeerAddr(m)
      OBVIOUS
    <3>3. PICK t : t = s.proxies
      OBVIOUS
    <3>4. Append(v.prior, a) # <<>> /\ Forwarded(Append(v.prior, a), t, l) = Unmap(a)
      BY <3>1, <3>3, <1>1, <1>2, <2>5, FromTheRight
    <3> QED
      BY <3>1, <3>2, <3>3, <3>4, <2>1, <1>1
  <2> QED
    BY <2>1, <2>2, <2>3, <2>4, <2>6, OfVisitorItself DEF m
<1>9. CASE v.route = node
  <2>1. m.remote = Six("proxy") /\ m.cdn = <<Sender(v)>> /\ m.client = Garbled
    BY <1>3, <1>9, SentByNode
  <2>2. s.proxies = {"proxy"} /\ s.header = "CF-Connecting-IP" /\ v.label = ""
    BY <1>5, <1>6, <1>9 DEF BehindCDN, OfStaff
  <2> HIDE DEF m
  <2>3. PeerAddr(m) = IP("proxy") /\ Within(s.proxies, PeerAddr(m))
    <3>1. PeerAddr(m) = IP("proxy")
      BY <2>1 DEF PeerAddr, Unmap, Six
    <3>2. IP("proxy").ip = "proxy"
      BY DEF IP
    <3> QED
      BY <3>1, <3>2, <2>2 DEF Within
  <2>4. HeaderOf(m, s.header) = <<Sender(v)>>
    BY <2>1, <2>2 DEF HeaderOf
  <2>5. FromCDN(HeaderOf(m, s.header)) /\ Unmap(HeaderOf(m, s.header)[1]) = IP(v.from)
    BY <1>1, <2>4 DEF FromCDN, IP
  <2> QED
    BY <2>1, <2>2, <2>3, <2>5, OfVisitorItself DEF m
<1>10. v.route \in {bff, both} => s.proxies = {"proxy"} /\ s.bffs = {"bff"} /\ s.secrets = {"next", "current"}
  BY <1>5 DEF Hosted, BehindCDN
<1>11. CASE v.route = bff
  <2>1. m.remote = IP("bff") /\ m.client = Sender(v) /\ m.secret = "next" /\ m.device = v.label
    BY <1>3, <1>11, SentByBFF
  <2> HIDE DEF m
  <2>2. SecretOK(m.secret, s.secrets) /\ Within(s.bffs, IP("bff"))
    BY <1>10, <1>11, <2>1 DEF SecretOK, Within, IP
  <2>3. ~Within(s.proxies, PeerAddr(m)) /\ PeerAddr(m) = IP("bff")
    BY <1>10, <1>11, <2>1 DEF Within, PeerAddr, Unmap, IP
  <2> QED
    BY <1>1, <2>1, <2>2, <2>3, OfBFF DEF m
<1>12. CASE v.route = both
  <2>1. /\ m.remote = Six("proxy") /\ m.forwarded = Append(<<>>, IP("bff")) /\ m.cdn = <<>>
        /\ m.client = Sender(v) /\ m.secret = "next" /\ m.device = v.label
    BY <1>3, <1>12, SentByBoth
  <2> HIDE DEF m
  <2>2. SecretOK(m.secret, s.secrets) /\ Within(s.bffs, IP("bff"))
    BY <1>10, <1>12, <2>1 DEF SecretOK, Within, IP
  <2>3. PeerAddr(m) = IP("proxy") /\ Within(s.proxies, PeerAddr(m))
    BY <1>10, <1>12, <2>1 DEF Within, PeerAddr, Unmap, IP, Six
  <2>4. ~FromCDN(HeaderOf(m, s.header))
    <3>1. HeaderOf(m, s.header) = <<>>
      BY <1>5, <1>12, <2>1 DEF HeaderOf, Hosted, BehindCDN
    <3> QED
      BY <3>1, Lengths DEF FromCDN
  <2>5. PICK a : a = IP("bff")
    OBVIOUS
  <2>6. a \in Hops /\ a # Garbled /\ Unmap(a) = a /\ ~Within(s.proxies, Unmap(a))
    <3>1. a.ip = "bff" /\ a \in Hops /\ Unmap(a) = a
      BY <2>5, Addresses DEF IP, Hops, Unmap
    <3>2. Garbled.ip = "?"
      BY DEF Garbled
    <3> QED
      BY <3>1, <3>2, <1>10, <1>12 DEF Within
  <2>7. <<>> \in Seq(Hops)
    OBVIOUS
  <2>8. m.forwarded # <<>> /\ Forwarded(m.forwarded, s.proxies, PeerAddr(m)) = IP("bff")
    <3>1. PICK l : l = PeerAddr(m)
      OBVIOUS
    <3>2. PICK t : t = s.proxies
      OBVIOUS
    <3>3. PICK h : h = <<>>
      OBVIOUS
    <3>4. h \in Seq(Hops) /\ Append(h, a) = m.forwarded
      BY <3>3, <2>1, <2>5, <2>7
    <3>5. Append(h, a) # <<>> /\ Forwarded(Append(h, a), t, l) = Unmap(a)
      <4>1. h \in Seq(Hops) /\ a \in Hops /\ a # Garbled /\ ~Within(t, Unmap(a))
        BY <3>2, <3>4, <2>6
      <4> QED
        BY <4>1, FromTheRight
    <3> QED
      BY <3>1, <3>2, <3>4, <3>5, <2>5, <2>6
  <2> QED
    BY <1>1, <2>1, <2>2, <2>3, <2>4, <2>8, OfBFF DEF m
<1> QED
  BY <1>5, <1>7, <1>8, <1>9, <1>11, <1>12

(* Keys and policies.                                                       *)
ClassOf(v) == IF v.class = "" THEN DefaultClass ELSE v.class
Sort(s, kind) == IF kind = "user" THEN SubjectKind(s) ELSE kind
Bearer(kind, v) ==
  IF kind = "ip" THEN IP(v.from) ELSE IF kind = "user" THEN v.who
  ELSE IF v.device # "" THEN <<"s", v.device>> ELSE <<"b", Device(v.label)>>
KeyOf(s, kind, v) == <<Sort(s, kind), ClassOf(v), Bearer(kind, v)>>
Question(s, kind, v) == [key |-> KeyOf(s, kind, v), kind |-> kind, burst |-> Rule(s, v.class)[kind]]
Questions(s, v) == {Question(s, kind, v) : kind \in {k \in Kinds : Known(k, v)}}
Listed(x, q) == \E i \in 1..Len(q) : q[i] = x

LEMMA ClassIs ==
  ASSUME NEW s, NEW v, Coming(s, v)
  PROVE  ClassOf(v) \in DOMAIN DefaultRules
<1>1. v.class \in {"", "geo_nearest", "staff_auth"}
  BY DEF Coming
<1> QED
  BY <1>1, KnownClasses DEF ClassOf, DefaultClass
LEMMA RuleIs ==
  ASSUME setup \in Settings, Starts(setup), NEW v, Coming(setup, v), NEW kind \in Kinds
  PROVE  Rule(setup, v.class)[kind] = InForce(v.class, kind) /\ InForce(v.class, kind) \in Nat
<1> DEFINE class == IF v.class = "" THEN "default" ELSE v.class
           named == {i \in DOMAIN setup.items : setup.items[i].class = class /\ setup.items[i].kind = kind}
           pick  == CHOOSE i \in named : \A j \in named : j <= i
<1>1. class \in DOMAIN DefaultRules
  BY ClassIs DEF ClassOf, DefaultClass
<1>2. InForce(v.class, kind) = IF named = {} THEN DefaultRules[class][kind] ELSE setup.items[pick].burst
  BY DEF InForce
<1>3. Rule(setup, v.class) = ParseRules(setup.items, class)
  BY DEF Rule, DefaultClass
<1>4. Base(class) = DefaultRules[class]
  BY <1>1 DEF Base
<1>5. Rule(setup, v.class)[kind] = IF named = {} THEN Base(class)[kind] ELSE setup.items[pick].burst
  <2> HIDE DEF class
  <2> QED
    BY <1>3 DEF ParseRules, Names
<1>6. DefaultRules[class][kind] \in Nat
  <2>1. \A k \in {"default", "auth", "geo_nearest", "staff_auth"} : \A l \in Kinds : DefaultRules[k][l] \in {0, 1, 2}
    BY DEF DefaultRules, Kinds, Off
  <2> HIDE DEF class
  <2> QED
    BY <2>1, <1>1, KnownClasses
<1>7. named # {} => setup.items[pick].burst \in Nat
  <2>1. setup.items \in Items
    BY HowItStarts
  <2>2. PICK x, y : /\ x = [class |-> "geo_nearest", kind |-> "ip", burst |-> 2]
                    /\ y = [class |-> "default", kind |-> "device", burst |-> Off]
    OBVIOUS
  <2>3. setup.items = <<>> \/ setup.items = <<x>> \/ setup.items = <<y>>
    BY <2>1, <2>2 DEF Items
  <2>4. x.burst \in Nat /\ y.burst \in Nat
    BY <2>2 DEF Off
  <2>5. setup.items = <<>> => DOMAIN setup.items = {}
    OBVIOUS
  <2>6. DOMAIN setup.items = {} \/ (DOMAIN setup.items = {1} /\ setup.items[1].burst \in Nat)
    BY <2>3, <2>4, <2>5, Single
  <2>7. named # {} => named = {1} /\ setup.items[1].burst \in Nat
    BY <2>6
  <2> HIDE DEF named
  <2>8. named = {1} => pick = 1
    <3>1. named = {1} => \E i \in named : \A j \in named : j <= i
      OBVIOUS
    <3>2. named = {1} => pick \in named
      BY <3>1
    <3> QED
      BY <3>2
  <2> HIDE DEF pick
  <2> QED
    BY <2>7, <2>8
<1> HIDE DEF class, named, pick
<1> QED
  BY <1>2, <1>4, <1>5, <1>6, <1>7

(* Different people have different keys.                                    *)
LEMMA KeysApart ==
  ASSUME NEW s, NEW v, NEW w, Coming(s, v), Coming(s, w), NEW k \in Kinds, NEW l \in Kinds, Known(k, v), Known(l, w),
         KeyOf(s, k, v) = KeyOf(s, l, w)
  PROVE  k = l /\ v.class = w.class /\ Shares(k, v, w)
<1>1. Sort(s, k) = Sort(s, l) /\ ClassOf(v) = ClassOf(w) /\ Bearer(k, v) = Bearer(l, w)
  BY DEF KeyOf
<1>2. SubjectKind(s) \in {"user", "staff"}
  BY DEF SubjectKind
<1>3. k = l
  BY <1>1, <1>2 DEF Kinds, Sort
<1>4. v.class = w.class
  <2>1. v.class \in {"", "geo_nearest", "staff_auth"} /\ w.class \in {"", "geo_nearest", "staff_auth"}
    BY DEF Coming
  <2> QED
    <3>1. PICK a, b : a = v.class /\ b = w.class
      OBVIOUS
    <3>2. (IF a = "" THEN "default" ELSE a) = (IF b = "" THEN "default" ELSE b)
      BY <3>1, <1>1 DEF ClassOf, DefaultClass
    <3>3. a \in {"", "geo_nearest", "staff_auth"} /\ b \in {"", "geo_nearest", "staff_auth"}
      BY <2>1, <3>1
    <3>4. CASE a = ""
      <4>1. (IF b = "" THEN "default" ELSE b) = "default"
        BY <3>2, <3>4
      <4>2. b # "default"
        BY <3>3
      <4>3. b = ""
        BY <4>1, <4>2
      <4> QED
        BY <3>1, <3>4, <4>3
    <3>5. CASE a # ""
      <4>1. a = (IF b = "" THEN "default" ELSE b)
        BY <3>2, <3>5
      <4>2. a # "default"
        BY <3>3
      <4>3. b # ""
        BY <4>1, <4>2
      <4>4. a = b
        BY <4>1, <4>3
      <4> QED
        BY <3>1, <4>4
    <3> QED
      BY <3>4, <3>5
<1>5. Whose(k, v) = Whose(k, w)
  <2>1. CASE k = "ip"
    <3>1. IP(v.from) = IP(w.from)
      BY <2>1, <1>1, <1>3 DEF Bearer
    <3> QED
      BY <3>1, <2>1 DEF IP, Whose
  <2>2. CASE k = "user"
    BY <2>2, <1>1, <1>3 DEF Whose, Bearer
  <2>3. CASE k = "device"
    <3>1. /\ v.device # "" \/ Device(v.label) # ""
          /\ w.device # "" \/ Device(w.label) # ""
      BY <2>3, <1>3 DEF Known
    <3>2. /\ Device(v.label) # "" => Device(v.label) = v.label
          /\ Device(w.label) # "" => Device(w.label) = w.label
      BY DEF Device
    <3>3. (IF v.device # "" THEN <<"s", v.device>> ELSE <<"b", Device(v.label)>>)
          = (IF w.device # "" THEN <<"s", w.device>> ELSE <<"b", Device(w.label)>>)
      BY <2>3, <1>1, <1>3 DEF Bearer
    <3>4. \A a, b : <<"s", a>>[1] = "s" /\ <<"b", b>>[1] = "b" /\ <<"s", a>>[2] = a /\ <<"b", b>>[2] = b
      OBVIOUS
    <3>5. \/ v.device # "" /\ w.device # "" /\ v.device = w.device
          \/ v.device = "" /\ w.device = "" /\ v.label = w.label
      BY <3>1, <3>2, <3>3, <3>4
    <3> QED
      BY <3>5, <2>3 DEF Whose
  <2> QED
    BY <2>1, <2>2, <2>3 DEF Kinds
<1> QED
  BY <1>3, <1>4, <1>5 DEF Shares
LEMMA KeyShared ==
  ASSUME NEW s, NEW v, NEW w, NEW k \in Kinds, Known(k, v), Known(k, w), Shares(k, v, w)
  PROVE  KeyOf(s, k, v) = KeyOf(s, k, w)
<1>1. ClassOf(v) = ClassOf(w) /\ Whose(k, v) = Whose(k, w)
  BY DEF Shares, ClassOf
<1>2. CASE k = "ip"
  BY <1>1, <1>2 DEF KeyOf, Bearer, Whose
<1>3. CASE k = "user"
  BY <1>1, <1>3 DEF KeyOf, Bearer, Whose
<1>4. CASE k = "device"
  <2>1. (IF v.device # "" THEN <<"session", v.device>> ELSE <<"label", v.label>>)
        = (IF w.device # "" THEN <<"session", w.device>> ELSE <<"label", w.label>>)
    BY <1>1, <1>4 DEF Whose
  <2>2. \A a, b : /\ <<"session", a>>[1] = "session" /\ <<"label", b>>[1] = "label"
                  /\ <<"session", a>>[2] = a /\ <<"label", b>>[2] = b
    OBVIOUS
  <2>3. \/ v.device # "" /\ w.device # "" /\ v.device = w.device
        \/ v.device = "" /\ w.device = "" /\ v.label = w.label
    BY <2>1, <2>2
  <2> QED
    BY <2>3, <1>1, <1>4 DEF KeyOf, Bearer
<1> QED
  BY <1>2, <1>3, <1>4 DEF Kinds

(* Checks asks for everything that is known of the caller, and nothing else. *)
LEMMA ListedTogether ==
  ASSUME NEW S, NEW a \in Seq(S), NEW b \in Seq(S)
  PROVE  a \o b \in Seq(S) /\ \A x : Listed(x, a \o b) <=> Listed(x, a) \/ Listed(x, b)
<1>1. /\ a \o b \in Seq(S) /\ Len(a \o b) = Len(a) + Len(b) /\ Len(a) \in Nat /\ Len(b) \in Nat
      /\ \A i \in 1..Len(a) + Len(b) : (a \o b)[i] = IF i <= Len(a) THEN a[i] ELSE b[i - Len(a)]
  BY ConcatProperties, LenProperties
<1> DEFINE c == a \o b
<1> HIDE DEF c
<1>2. /\ Len(c) = Len(a) + Len(b)
      /\ \A i \in 1..Len(c) : c[i] = IF i <= Len(a) THEN a[i] ELSE b[i - Len(a)]
  BY <1>1 DEF c
<1>3. ASSUME NEW x, Listed(x, a) PROVE Listed(x, c)
  <2>1. PICK i \in 1..Len(a) : a[i] = x
    BY <1>3 DEF Listed
  <2>2. i \in 1..Len(c) /\ i <= Len(a)
    BY <1>1, <1>2
  <2> QED
    BY <2>1, <2>2, <1>2 DEF Listed
<1>4. ASSUME NEW x, Listed(x, b) PROVE Listed(x, c)
  <2>1. PICK i \in 1..Len(b) : b[i] = x
    BY <1>4 DEF Listed
  <2>2. i + Len(a) \in 1..Len(c) /\ ~(i + Len(a) <= Len(a)) /\ (i + Len(a)) - Len(a) = i
    BY <1>1, <1>2
  <2>3. c[i + Len(a)] = x
    BY <2>1, <2>2, <1>2
  <2> QED
    BY <2>2, <2>3 DEF Listed
<1>5. ASSUME NEW x, Listed(x, c) PROVE Listed(x, a) \/ Listed(x, b)
  <2>1. PICK i \in 1..Len(c) : c[i] = x
    BY <1>5 DEF Listed
  <2>2. CASE i <= Len(a)
    <3>1. i \in 1..Len(a) /\ a[i] = x
      BY <2>1, <2>2, <1>1, <1>2
    <3> QED
      BY <3>1 DEF Listed
  <2>3. CASE ~(i <= Len(a))
    <3>1. i - Len(a) \in 1..Len(b) /\ b[i - Len(a)] = x
      BY <2>1, <2>3, <1>1, <1>2
    <3> QED
      BY <3>1 DEF Listed
  <2> QED
    BY <2>2, <2>3
<1> QED
  BY <1>1, <1>3, <1>4, <1>5 DEF c
LEMMA ListedAlone ==
  ASSUME NEW S, NEW x \in S
  PROVE  /\ <<x>> \in Seq(S) /\ (\A y : Listed(y, <<x>>) <=> y = x)
         /\ <<>> \in Seq(S) /\ (\A y : ~Listed(y, <<>>))
<1>1. <<x>> \in Seq(S) /\ Len(<<x>>) = 1 /\ <<x>>[1] = x /\ 1..1 = {1}
  OBVIOUS
<1>2. <<>> \in Seq(S) /\ Len(<<>>) = 0 /\ 1..0 = {}
  OBVIOUS
<1>3. \A y : Listed(y, <<x>>) <=> y = x
  <2>1. PICK q : q = <<x>>
    OBVIOUS
  <2>2. Len(q) = 1 /\ q[1] = x
    BY <2>1, <1>1
  <2>3. \A y : Listed(y, q) <=> y = x
    BY <2>2, <1>1 DEF Listed
  <2> QED
    BY <2>1, <2>3
<1>4. \A y : ~Listed(y, <<>>)
  <2>1. PICK q : q = <<>>
    OBVIOUS
  <2>2. \A y : ~Listed(y, q)
    BY <2>1, <1>2 DEF Listed
  <2> QED
    BY <2>1, <2>2
<1> QED
  BY <1>1, <1>2, <1>3, <1>4

LEMMA Asks ==
  ASSUME NEW s \in Settings, NEW v, Coming(s, v)
  PROVE  LET q == Checks(s, v, [ip |-> IP(v.from), device |-> Device(v.label)]) IN
         /\ q \in Seq(Questions(s, v)) /\ Len(q) >= 1
         /\ \A kind \in Kinds : Known(kind, v) => Listed(Question(s, kind, v), q)
<1> DEFINE info  == [ip |-> IP(v.from), device |-> Device(v.label)]
           rule  == Rule(s, v.class)
           class == ClassOf(v)
           S     == Questions(s, v)
           Check(key, kind) == [key |-> key, kind |-> kind, burst |-> rule[kind]]
           device == IF v.who # Nobody /\ v.device # "" THEN <<SessionDeviceKey(class, v.device)>>
                     ELSE IF info.device # "" THEN <<BFFDeviceKey(class, info.device)>> ELSE <<>>
           a == <<Check(IPKey(class, info.ip), "ip")>>
           b == IF v.who = Nobody THEN <<>> ELSE <<Check(SubjectKey(class, SubjectKind(s), v.who), "user")>>
           d == [i \in DOMAIN device |-> Check(device[i], "device")]
           q == Checks(s, v, info)
<1>1. q = a \o b \o d
  BY DEF Checks, ClassOf
<1>2. \A kind \in Kinds : Known(kind, v) => Question(s, kind, v) \in S
  BY DEF Questions
<1>3. "ip" \in Kinds /\ "user" \in Kinds /\ "device" \in Kinds
  BY DEF Kinds
<1>4. a \in Seq(S) /\ Listed(Question(s, "ip", v), a)
  <2>1. Check(IPKey(class, info.ip), "ip") = Question(s, "ip", v)
    BY DEF Question, KeyOf, Sort, Bearer, IPKey
  <2>2. Known("ip", v)
    BY DEF Known
  <2>3. PICK x \in S : x = Question(s, "ip", v)
    BY <1>2, <1>3, <2>2
  <2>4. a = <<x>>
    BY <2>1, <2>3
  <2> HIDE DEF a, S
  <2> QED
    BY <2>3, <2>4, ListedAlone
<1>5. b \in Seq(S) /\ (Known("user", v) => Listed(Question(s, "user", v), b))
  <2>1. Known("user", v) <=> v.who # Nobody
    BY DEF Known
  <2>2. CASE v.who = Nobody
    <3>1. b = <<>> /\ ~Known("user", v)
      BY <2>1, <2>2
    <3> QED
      BY <3>1
  <2>3. CASE v.who # Nobody
    <3>1. Check(SubjectKey(class, SubjectKind(s), v.who), "user") = Question(s, "user", v)
      BY DEF Question, KeyOf, Sort, Bearer, SubjectKey
    <3>2. PICK x \in S : x = Question(s, "user", v)
      BY <1>2, <1>3, <2>1, <2>3
    <3>3. b = <<x>>
      BY <2>3, <3>1, <3>2
    <3> HIDE DEF b, S
    <3> QED
      BY <3>2, <3>3, ListedAlone
  <2> QED
    BY <2>2, <2>3
<1>6. d \in Seq(S) /\ (Known("device", v) => Listed(Question(s, "device", v), d))
  <2>1. Known("device", v) <=> v.device # "" \/ Device(v.label) # ""
    BY DEF Known
  <2>2. v.device # "" => v.who # Nobody
    BY DEF Coming
  <2>3. CASE ~Known("device", v)
    <3>1. device = <<>>
      BY <2>1, <2>3
    <3> HIDE DEF device, S
    <3>2. DOMAIN device = {} /\ 1..0 = {}
      BY <3>1
    <3>3. DOMAIN d = {} /\ d = [i \in {} |-> Check(device[i], "device")]
      BY <3>2
    <3>4. d \in [1..0 -> S]
      BY <3>2, <3>3
    <3> HIDE DEF d
    <3>5. d \in Seq(S) /\ Len(d) = 0
      BY <3>2, <3>3, <3>4
    <3> QED
      BY <2>3, <3>5
  <2>4. CASE Known("device", v)
    <3>1. PICK k : k = KeyOf(s, "device", v)
      OBVIOUS
    <3>2. device = <<k>>
      <4>1. CASE v.device # ""
        <5>1. device = <<SessionDeviceKey(class, v.device)>>
          BY <4>1, <2>2
        <5>2. k = SessionDeviceKey(class, v.device)
          BY <3>1, <4>1 DEF KeyOf, Sort, Bearer, SessionDeviceKey, DeviceKey
        <5> QED
          BY <5>1, <5>2
      <4>2. CASE v.device = ""
        <5>1. device = <<BFFDeviceKey(class, Device(v.label))>>
          BY <4>2, <2>1, <2>4
        <5>2. k = BFFDeviceKey(class, Device(v.label))
          BY <3>1, <4>2 DEF KeyOf, Sort, Bearer, BFFDeviceKey, DeviceKey
        <5> QED
          BY <5>1, <5>2
      <4> QED
        BY <4>1, <4>2
    <3>3. Check(k, "device") = Question(s, "device", v)
      BY <3>1 DEF Question
    <3>4. PICK x \in S : x = Question(s, "device", v)
      BY <1>2, <1>3, <2>4
    <3>5. d = <<x>>
      <4> HIDE DEF device
      <4>1. DOMAIN device = {1} /\ device[1] = k
        BY <3>2, Single
      <4>2. d = [i \in {1} |-> x]
        BY <4>1, <3>3, <3>4
      <4>3. [i \in {1} |-> x] = <<x>>
        OBVIOUS
      <4> QED
        BY <4>2, <4>3
    <3> HIDE DEF d, S
    <3> QED
      BY <3>4, <3>5, ListedAlone
  <2> QED
    BY <2>3, <2>4
<1> HIDE DEF a, b, d, q, S
<1>7. /\ q \in Seq(S)
      /\ \A x : Listed(x, q) <=> Listed(x, a) \/ Listed(x, b) \/ Listed(x, d)
  <2>1. PICK ab : ab = a \o b
    OBVIOUS
  <2>2. ab \in Seq(S) /\ \A x : Listed(x, ab) <=> Listed(x, a) \/ Listed(x, b)
    BY <2>1, <1>4, <1>5, ListedTogether
  <2>3. ab \o d \in Seq(S) /\ \A x : Listed(x, ab \o d) <=> Listed(x, ab) \/ Listed(x, d)
    BY <2>2, <1>6, ListedTogether
  <2>4. q = ab \o d
    BY <1>1, <2>1
  <2> QED
    BY <2>2, <2>3, <2>4
<1>8. Len(q) >= 1
  <2>1. Listed(Question(s, "ip", v), q)
    BY <1>4, <1>7
  <2>2. 1..Len(q) # {} /\ Len(q) \in Nat
    BY <1>7, <2>1, LenProperties DEF Listed
  <2> QED
    BY <2>2
<1>9. \A kind \in Kinds : Known(kind, v) => Listed(Question(s, kind, v), q)
  BY <1>4, <1>5, <1>6, <1>7 DEF Kinds
<1> QED
  BY <1>7, <1>8, <1>9 DEF q, S

(* What every request was told, and what was spent.                         *)
On(S, key) == {e \in S : e.key = key}
Heard(s, S, l, r) ==
  /\ r = [pc |-> r.pc, n |-> r.n, v |-> r.v, checks |-> r.checks]
  /\ r.pc \in {"checks", "passed", "unchecked", "refused", "outside"}
  /\ r.n \in Nat /\ l < r.n
  /\ r.v \in Visits(s)
  /\ r.checks \in Seq(Questions(s, r.v))
  /\ \A kind \in Kinds : Known(kind, r.v) =>
       \/ Listed(Question(s, kind, r.v), r.checks)
       \/ Rule(s, r.v.class)[kind] = Off
       \/ [n |-> r.n, v |-> r.v, key |-> KeyOf(s, kind, r.v)] \in S
  /\ r.pc = "checks" => Len(r.checks) >= 1
  /\ r.pc = "passed" => Len(r.checks) = 0
  /\ r.pc = "refused" => Len(r.checks) >= 1 /\ r.checks[1].burst <= Cardinality(On(S, r.checks[1].key))
  /\ s.allow # {} => (r.pc = "outside" <=> r.v.from \notin s.allow)
Marked(s, S) ==
  /\ IsFiniteSet(S)
  /\ \A e \in S : e.v \in Visits(s) /\ \E kind \in Kinds : Known(kind, e.v) /\ e.key = KeyOf(s, kind, e.v)
  /\ \A v \in Visits(s), kind \in Kinds :
       Known(kind, v) => Cardinality(On(S, KeyOf(s, kind, v))) <= Rule(s, v.class)[kind]
HeardAll(s, h, S, l) ==
  /\ l \in Nat /\ (\E R : h \in [Clients -> R])
  /\ \A c \in Clients : h[c] = Absent \/ Heard(s, S, l, h[c])
  /\ \A c, d \in Clients : h[c] # Absent /\ h[d] # Absent /\ h[c].n = h[d].n => c = d
CallersInv ==
  /\ setup \in Settings /\ Starts(setup)
  /\ HeardAll(setup, heard, spends, IF plan.part = "callers" THEN left ELSE 0)
  /\ plan.part # "callers" => \A c \in Clients : heard[c] = Absent
  /\ Marked(setup, spends)

LEMMA OnMore ==
  ASSUME NEW S, NEW T, IsFiniteSet(T), S \subseteq T, NEW key
  PROVE  /\ IsFiniteSet(On(S, key)) /\ Cardinality(On(S, key)) \in Nat /\ Cardinality(On(T, key)) \in Nat
         /\ Cardinality(On(S, key)) <= Cardinality(On(T, key))
<1>1. On(T, key) \in SUBSET T /\ On(S, key) \in SUBSET On(T, key)
  BY DEF On
<1>2. IsFiniteSet(On(T, key))
  BY <1>1, FS_Subset
<1>3. IsFiniteSet(On(S, key)) /\ Cardinality(On(S, key)) <= Cardinality(On(T, key))
  BY <1>1, <1>2, FS_Subset
<1> QED
  BY <1>2, <1>3, FS_CardinalityType

(* Who waits does not mind what the others spend.                           *)
LEMMA HeardStill ==
  ASSUME NEW s, NEW S, NEW T, IsFiniteSet(T), S \subseteq T, NEW l \in Nat, NEW m \in Nat, m <= l, NEW r, Heard(s, S, l, r),
         r.pc = "refused" => r.checks[1].burst \in Nat
  PROVE  Heard(s, T, m, r)
<1>1. m < r.n
  BY DEF Heard
<1>2. r.pc = "refused" => r.checks[1].burst <= Cardinality(On(T, r.checks[1].key))
  <2>1. PICK key, burst : key = r.checks[1].key /\ burst = r.checks[1].burst
    OBVIOUS
  <2>2. Cardinality(On(S, key)) \in Nat /\ Cardinality(On(T, key)) \in Nat /\ Cardinality(On(S, key)) <= Cardinality(On(T, key))
    BY OnMore
  <2>3. r.pc = "refused" => burst \in Nat /\ burst <= Cardinality(On(S, key))
    BY <2>1 DEF Heard
  <2>4. r.pc = "refused" => burst <= Cardinality(On(T, key))
    BY <2>2, <2>3
  <2> QED
    BY <2>1, <2>4
<1>3. \A kind \in Kinds : Known(kind, r.v) =>
        \/ Listed(Question(s, kind, r.v), r.checks)
        \/ Rule(s, r.v.class)[kind] = Off
        \/ [n |-> r.n, v |-> r.v, key |-> KeyOf(s, kind, r.v)] \in T
  BY DEF Heard
<1> QED
  BY <1>1, <1>2, <1>3 DEF Heard

(* A question is one of those of its visit.                                 *)
LEMMA QuestionIs ==
  ASSUME setup \in Settings, Starts(setup), NEW v \in Visits(setup), NEW k \in Questions(setup, v)
  PROVE  /\ k.kind \in Kinds /\ Known(k.kind, v) /\ k = Question(setup, k.kind, v) /\ k.key = KeyOf(setup, k.kind, v)
         /\ k.burst = Rule(setup, v.class)[k.kind] /\ k.burst = InForce(v.class, k.kind) /\ k.burst \in Nat
<1>1. PICK kind \in Kinds : Known(kind, v) /\ k = Question(setup, kind, v)
  BY DEF Questions
<1>2. k.kind = kind /\ k.key = KeyOf(setup, kind, v) /\ k.burst = Rule(setup, v.class)[kind]
  BY <1>1 DEF Question
<1>3. Coming(setup, v)
  BY WhoComes
<1>4. Rule(setup, v.class)[kind] = InForce(v.class, kind) /\ InForce(v.class, kind) \in Nat
  BY <1>3, RuleIs
<1> QED
  BY <1>1, <1>2, <1>4
LEMMA FirstIs == ASSUME NEW S, NEW q \in Seq(S), Len(q) >= 1 PROVE q[1] \in S
<1>1. Len(q) \in Nat
  BY LenProperties
<1>2. 1 \in 1..Len(q)
  BY <1>1
<1> QED
  BY <1>2, ElementOfSeq
LEMMA HeardLasts ==
  ASSUME setup \in Settings, Starts(setup), NEW S, NEW T, IsFiniteSet(T), S \subseteq T,
         NEW l \in Nat, NEW m \in Nat, m <= l, NEW r, Heard(setup, S, l, r)
  PROVE  Heard(setup, T, m, r)
<1>1. r.pc = "refused" => r.checks[1].burst \in Nat
  <2> SUFFICES ASSUME r.pc = "refused" PROVE r.checks[1].burst \in Nat
    OBVIOUS
  <2>1. r.v \in Visits(setup) /\ r.checks \in Seq(Questions(setup, r.v)) /\ Len(r.checks) >= 1
    BY DEF Heard
  <2>2. r.checks[1] \in Questions(setup, r.v)
    BY <2>1, FirstIs
  <2> QED
    BY <2>1, <2>2, QuestionIs
<1> QED
  BY <1>1, HeardStill
LEMMA CallersStart == Init => CallersInv
<1> SUFFICES ASSUME Init PROVE CallersInv
  OBVIOUS
<1>1. /\ setup \in Settings /\ Starts(setup) /\ spends = {} /\ heard = [c \in Clients |-> Absent]
      /\ plan \in Plans /\ left = plan.calls
  BY DEF Init, CallersInit, ClockInit, Starts
<1>2. left \in Nat
  BY <1>1, ClockAssumption
<1>3. heard \in [Clients -> {Absent}] /\ \A c \in Clients : heard[c] = Absent
  BY <1>1
<1>4. (IF plan.part = "callers" THEN left ELSE 0) \in Nat
  BY <1>2
<1>5. HeardAll(setup, heard, spends, IF plan.part = "callers" THEN left ELSE 0)
  BY <1>3, <1>4 DEF HeardAll
<1>6. Marked(setup, spends)
  <2>1. IsFiniteSet(spends)
    BY <1>1, FS_EmptySet
  <2>2. \A key : On(spends, key) = {} /\ Cardinality(On(spends, key)) = 0
    BY <1>1, FS_EmptySet DEF On
  <2>3. ASSUME NEW v \in Visits(setup), NEW kind \in Kinds, Known(kind, v)
        PROVE  Cardinality(On(spends, KeyOf(setup, kind, v))) <= Rule(setup, v.class)[kind]
    <3>1. Coming(setup, v)
      BY <1>1, WhoComes
    <3>2. Rule(setup, v.class)[kind] \in Nat
      BY <1>1, <3>1, RuleIs
    <3> QED
      BY <2>2, <3>2
  <2> QED
    BY <1>1, <2>1, <2>3 DEF Marked
<1> QED
  BY <1>1, <1>3, <1>5, <1>6 DEF CallersInv

LEMMA OneIsHeard ==
  ASSUME setup \in Settings, Starts(setup), NEW h, NEW S, NEW T, IsFiniteSet(T), S \subseteq T, NEW l, NEW m \in Nat, m <= l,
         HeardAll(setup, h, S, l), NEW c \in Clients, NEW r, Heard(setup, T, m, r),
         \A d \in Clients : d # c /\ h[d] # Absent => h[d].n # r.n
  PROVE  HeardAll(setup, [h EXCEPT ![c] = r], T, m)
<1> DEFINE g == [h EXCEPT ![c] = r]
<1>1. PICK R : h \in [Clients -> R]
  BY DEF HeardAll
<1>2. g \in [Clients -> R \cup {r}] /\ g[c] = r /\ \A d \in Clients : d # c => g[d] = h[d]
  BY <1>1
<1> HIDE DEF g
<1>3. l \in Nat
  BY DEF HeardAll
<1>4. ASSUME NEW d \in Clients PROVE g[d] = Absent \/ Heard(setup, T, m, g[d])
  <2>1. CASE d = c
    BY <1>2, <2>1
  <2>2. CASE d # c
    <3>1. h[d] = Absent \/ Heard(setup, S, l, h[d])
      BY DEF HeardAll
    <3>2. Heard(setup, S, l, h[d]) => Heard(setup, T, m, h[d])
      BY <1>3, HeardLasts
    <3> QED
      BY <1>2, <2>2, <3>1, <3>2
  <2> QED
    BY <2>1, <2>2
<1>5. ASSUME NEW d \in Clients, NEW e \in Clients, g[d] # Absent, g[e] # Absent, g[d].n = g[e].n PROVE d = e
  <2>1. \A x, y \in Clients : h[x] # Absent /\ h[y] # Absent /\ h[x].n = h[y].n => x = y
    BY DEF HeardAll
  <2>2. CASE d = c
    BY <1>2, <1>5, <2>2
  <2>3. CASE e = c
    BY <1>2, <1>5, <2>3
  <2>4. CASE d # c /\ e # c
    BY <1>2, <1>5, <2>1, <2>4
  <2> QED
    BY <2>2, <2>3, <2>4
<1>6. HeardAll(setup, g, T, m)
  BY <1>2, <1>4, <1>5 DEF HeardAll
<1> QED
  BY <1>6 DEF g
LEMMA AllStillHeard ==
  ASSUME setup \in Settings, Starts(setup), NEW h, NEW S, IsFiniteSet(S), NEW l, NEW m \in Nat, m <= l, HeardAll(setup, h, S, l)
  PROVE  HeardAll(setup, h, S, m)
<1>1. l \in Nat
  BY DEF HeardAll
<1>2. ASSUME NEW d \in Clients PROVE h[d] = Absent \/ Heard(setup, S, m, h[d])
  <2>1. h[d] = Absent \/ Heard(setup, S, l, h[d])
    BY DEF HeardAll
  <2> QED
    BY <1>1, <2>1, HeardLasts
<1> QED
  BY <1>2 DEF HeardAll

(* A request comes: it is to ask for everything that is known of the caller. *)
LEMMA ArriveWell == ASSUME CallersInv, NEW c \in Clients, NEW v \in Visits(setup), Arrive(c, v) PROVE CallersInv'
<1> DEFINE info == Resolve(setup, Message(v))
           r == [pc |-> IF Allowed(setup, info) THEN "checks" ELSE "outside", n |-> left, v |-> v, checks |-> Checks(setup, v, info)]
<1>1. setup \in Settings /\ Starts(setup) /\ Marked(setup, spends) /\ IsFiniteSet(spends)
  BY DEF CallersInv, Marked
<1>2. plan.part = "callers" /\ plan' = plan /\ left > 0 /\ left' = left - 1 /\ heard[c] = Absent
      /\ heard' = [heard EXCEPT ![c] = r] /\ setup' = setup /\ spends' = spends
  BY DEF Arrive, Arrival
<1>3. HeardAll(setup, heard, spends, left) /\ left \in Nat /\ left' \in Nat /\ left' <= left /\ left' < left
  BY <1>2 DEF CallersInv, HeardAll
<1>4. Coming(setup, v)
  BY <1>1, WhoComes
<1>5. info = [ip |-> IP(v.from), device |-> Device(v.label)]
  BY <1>1, <1>4, Resolved
<1>6. /\ r.checks \in Seq(Questions(setup, v)) /\ Len(r.checks) >= 1
      /\ \A kind \in Kinds : Known(kind, v) => Listed(Question(setup, kind, v), r.checks)
  BY <1>1, <1>4, <1>5, Asks
<1>7. setup.allow # {} => (r.pc = "outside" <=> v.from \notin setup.allow)
  <2>1. Unmap(info.ip) = IP(v.from)
    <3>1. info.ip = IP(v.from)
      BY <1>5
    <3> HIDE DEF info
    <3>2. Unmap(IP(v.from)) = IP(v.from)
      BY DEF Unmap, IP
    <3> QED
      BY <3>1, <3>2
  <2>2. Allowed(setup, info) <=> setup.allow = {} \/ v.from \in setup.allow
    BY <2>1 DEF Allowed, Within, IP
  <2> QED
    BY <2>2
<1>8. r.pc \in {"checks", "outside"} /\ r.n = left /\ r.v = v /\ r = [pc |-> r.pc, n |-> r.n, v |-> r.v, checks |-> r.checks]
  OBVIOUS
<1> HIDE DEF r, info
<1>9. PICK m : m = left'
  OBVIOUS
<1>10. PICK q : q = r
  OBVIOUS
<1>11. Heard(setup, spends, m, q)
  BY <1>3, <1>6, <1>7, <1>8, <1>9, <1>10 DEF Heard
<1>12. \A d \in Clients : d # c /\ heard[d] # Absent => heard[d].n # q.n
  <2> SUFFICES ASSUME NEW d \in Clients, heard[d] # Absent PROVE heard[d].n # left
    BY <1>8, <1>10
  <2>1. Heard(setup, spends, left, heard[d])
    BY <1>3 DEF HeardAll
  <2>2. heard[d].n \in Nat /\ left < heard[d].n
    BY <2>1 DEF Heard
  <2> QED
    BY <1>3, <2>2
<1>13. HeardAll(setup, [heard EXCEPT ![c] = q], spends, m)
  BY <1>1, <1>3, <1>9, <1>11, <1>12, OneIsHeard
<1>14. HeardAll(setup, heard', spends, m)
  BY <1>2, <1>10, <1>13
<1> QED
  BY <1>1, <1>2, <1>9, <1>14 DEF CallersInv

(* A request takes an allowance, and is to ask for one less.                *)
LEMMA AllowanceMarks ==
  ASSUME setup \in Settings, Starts(setup), NEW S, Marked(setup, S), NEW v \in Visits(setup), NEW k \in Questions(setup, v),
         k.burst # Off, Cardinality(On(S, k.key)) < k.burst, NEW x, x.v = v, x.key = k.key
  PROVE  Marked(setup, S \cup {x}) /\ IsFiniteSet(S \cup {x})
<1> DEFINE T == S \cup {x}
<1>1. k.kind \in Kinds /\ Known(k.kind, v) /\ k.key = KeyOf(setup, k.kind, v) /\ k.burst \in Nat
      /\ k.burst = Rule(setup, v.class)[k.kind]
  BY QuestionIs
<1>2. IsFiniteSet(S) /\ IsFiniteSet(T)
  BY FS_AddElement DEF Marked
<1>3. \A e \in T : e.v \in Visits(setup) /\ \E kind \in Kinds : Known(kind, e.v) /\ e.key = KeyOf(setup, kind, e.v)
  BY <1>1 DEF Marked
<1>4. ASSUME NEW w \in Visits(setup), NEW kind \in Kinds, Known(kind, w)
      PROVE  Cardinality(On(T, KeyOf(setup, kind, w))) <= Rule(setup, w.class)[kind]
  <2>1. PICK key : key = KeyOf(setup, kind, w)
    OBVIOUS
  <2>2. Cardinality(On(S, key)) <= Rule(setup, w.class)[kind]
    BY <1>4, <2>1 DEF Marked
  <2>3. CASE key # k.key
    <3>1. On(T, key) = On(S, key)
      BY <2>3 DEF On
    <3> QED
      BY <2>1, <2>2, <3>1
  <2>4. CASE key = k.key
    <3>1. Coming(setup, v) /\ Coming(setup, w)
      BY WhoComes
    <3>2. kind = k.kind /\ v.class = w.class
      <4>1. PICK u \in Kinds : u = k.kind
        BY <1>1
      <4>2. Known(u, v) /\ Known(kind, w) /\ KeyOf(setup, u, v) = KeyOf(setup, kind, w)
        BY <1>1, <1>4, <2>1, <2>4, <4>1
      <4>3. u = kind /\ v.class = w.class
        BY <3>1, <4>2, KeysApart
      <4> QED
        BY <4>1, <4>3
    <3>3. On(T, key) = On(S, key) \cup {x} /\ IsFiniteSet(On(S, key)) /\ Cardinality(On(S, key)) \in Nat
      <4>1. On(T, key) = On(S, key) \cup {x}
        BY <2>4 DEF On
      <4> QED
        BY <4>1, <1>2, OnMore
    <3>4. Cardinality(On(T, key)) <= Cardinality(On(S, key)) + 1
      <4>1. Cardinality(On(S, key) \cup {x}) = IF x \in On(S, key) THEN Cardinality(On(S, key)) ELSE Cardinality(On(S, key)) + 1
        BY <3>3, FS_AddElement
      <4>2. PICK a, b : a = Cardinality(On(S, key)) /\ b = Cardinality(On(T, key))
        OBVIOUS
      <4>3. a \in Nat /\ (b = a \/ b = a + 1)
        BY <3>3, <4>1, <4>2
      <4>4. b <= a + 1
        BY <4>3
      <4> QED
        BY <4>2, <4>4
    <3>5. Cardinality(On(T, key)) \in Nat
      BY <1>2, OnMore
    <3>6. PICK a, b, n : a = Cardinality(On(S, key)) /\ b = Cardinality(On(T, key)) /\ n = k.burst
      OBVIOUS
    <3>7. b <= n
      BY <1>1, <2>4, <3>3, <3>4, <3>5, <3>6
    <3> QED
      BY <1>1, <2>1, <3>2, <3>6, <3>7
  <2> QED
    BY <2>3, <2>4
<1> QED
  BY <1>2, <1>3, <1>4 DEF Marked
LEMMA OneLessAsked ==
  ASSUME setup \in Settings, Starts(setup), NEW S, NEW T, IsFiniteSet(T), S \subseteq T, NEW l \in Nat,
         NEW r, Heard(setup, S, l, r), r.pc = "checks", NEW k, k = r.checks[1],
         k.burst = Off \/ [n |-> r.n, v |-> r.v, key |-> k.key] \in T
  PROVE  Heard(setup, T, l, [r EXCEPT !.checks = Tail(r.checks), !.pc = IF Len(r.checks) = 1 THEN "passed" ELSE "checks"])
<1>1. Heard(setup, T, l, r)
  BY HeardLasts
<1>2. /\ r = [pc |-> r.pc, n |-> r.n, v |-> r.v, checks |-> r.checks] /\ r.v \in Visits(setup)
      /\ r.checks \in Seq(Questions(setup, r.v)) /\ Len(r.checks) >= 1 /\ r.n \in Nat /\ l < r.n
      /\ setup.allow # {} => r.v.from \in setup.allow
  BY <1>1 DEF Heard
<1>3. PICK q, t, n, v : q = r.checks /\ t = Tail(r.checks) /\ n = r.n /\ v = r.v
  OBVIOUS
<1>4. PICK pc : pc = IF Len(q) = 1 THEN "passed" ELSE "checks"
  OBVIOUS
<1>5. PICK x : x = [pc |-> pc, n |-> n, v |-> v, checks |-> t]
  OBVIOUS
<1>6. [r EXCEPT !.checks = Tail(r.checks), !.pc = IF Len(r.checks) = 1 THEN "passed" ELSE "checks"] = x
  <2>1. PICK o : o = r.pc
    OBVIOUS
  <2>2. r = [pc |-> o, n |-> n, v |-> v, checks |-> q]
    BY <1>2, <1>3, <2>1
  <2>3. [r EXCEPT !.checks = t, !.pc = pc] = [pc |-> pc, n |-> n, v |-> v, checks |-> t]
    <3> DEFINE y == [r EXCEPT !.checks = t, !.pc = pc]
    <3>1. r \in [pc : {o, pc}, n : {n}, v : {v}, checks : {q, t}] /\ r.n = n /\ r.v = v
      BY <2>2
    <3>2. y \in [pc : {o, pc}, n : {n}, v : {v}, checks : {q, t}] /\ y.pc = pc /\ y.n = n /\ y.v = v /\ y.checks = t
      BY <3>1
    <3> HIDE DEF y
    <3>3. y = [pc |-> y.pc, n |-> y.n, v |-> y.v, checks |-> y.checks]
      BY <3>2
    <3> QED
      BY <3>2, <3>3 DEF y
  <2> QED
    BY <2>3, <1>3, <1>4, <1>5
<1>7. x.pc = pc /\ x.n = n /\ x.v = v /\ x.checks = t
  BY <1>5
<1>8. Len(q) \in Nat /\ q # <<>>
  <2>1. q = <<>> => Len(q) = 0
    OBVIOUS
  <2> QED
    BY <1>2, <1>3, <2>1, LenProperties
<1>9. t \in Seq(Questions(setup, v)) /\ Len(t) = Len(q) - 1 /\ \A i \in 1..Len(t) : t[i] = q[i + 1]
  BY <1>2, <1>3, <1>8, HeadTailProperties
<1>10. ASSUME NEW kind \in Kinds, Known(kind, v)
       PROVE  \/ Listed(Question(setup, kind, v), t)
              \/ Rule(setup, v.class)[kind] = Off
              \/ [n |-> n, v |-> v, key |-> KeyOf(setup, kind, v)] \in T
  <2>1. \/ Listed(Question(setup, kind, v), q)
        \/ Rule(setup, v.class)[kind] = Off
        \/ [n |-> n, v |-> v, key |-> KeyOf(setup, kind, v)] \in T
    BY <1>1, <1>3, <1>10 DEF Heard
  <2>2. ASSUME Listed(Question(setup, kind, v), q) PROVE Listed(Question(setup, kind, v), t) \/ k = Question(setup, kind, v)
    <3>1. PICK i \in 1..Len(q) : q[i] = Question(setup, kind, v)
      BY <2>2 DEF Listed
    <3>2. CASE i = 1
      BY <3>1, <3>2, <1>3
    <3>3. CASE i # 1
      <4>1. i - 1 \in 1..Len(t) /\ (i - 1) + 1 = i
        BY <3>1, <3>3, <1>8, <1>9
      <4>2. t[i - 1] = Question(setup, kind, v)
        BY <4>1, <3>1, <1>9
      <4> QED
        BY <4>1, <4>2 DEF Listed
    <3> QED
      BY <3>2, <3>3
  <2>3. k = Question(setup, kind, v) => k.key = KeyOf(setup, kind, v) /\ k.burst = Rule(setup, v.class)[kind]
    BY DEF Question
  <2> QED
    BY <2>1, <2>2, <2>3, <1>3
<1>11. (pc = "checks" => Len(t) >= 1) /\ (pc = "passed" => Len(t) = 0) /\ pc \in {"checks", "passed"}
  <2>1. Len(q) >= 1 /\ Len(q) \in Nat
    BY <1>2, <1>3, <1>8
  <2>2. CASE Len(q) = 1
    BY <2>1, <2>2, <1>4, <1>9
  <2>3. CASE Len(q) # 1
    BY <2>1, <2>3, <1>4, <1>9
  <2> QED
    BY <2>2, <2>3
<1>12. Heard(setup, T, l, x)
  <2>1. x = [pc |-> x.pc, n |-> x.n, v |-> x.v, checks |-> x.checks]
    BY <1>5, <1>7
  <2>2. x.pc \in {"checks", "passed"} /\ (x.pc = "checks" => Len(x.checks) >= 1) /\ (x.pc = "passed" => Len(x.checks) = 0)
    BY <1>7, <1>11
  <2>3. x.n \in Nat /\ l < x.n /\ x.v \in Visits(setup) /\ x.checks \in Seq(Questions(setup, x.v))
    BY <1>2, <1>3, <1>7, <1>9
  <2>4. \A kind \in Kinds : Known(kind, x.v) =>
          \/ Listed(Question(setup, kind, x.v), x.checks)
          \/ Rule(setup, x.v.class)[kind] = Off
          \/ [n |-> x.n, v |-> x.v, key |-> KeyOf(setup, kind, x.v)] \in T
    BY <1>7, <1>10
  <2>5. setup.allow # {} => x.v.from \in setup.allow
    BY <1>2, <1>3, <1>7
  <2> QED
    BY <2>1, <2>2, <2>3, <2>4, <2>5 DEF Heard
<1> QED
  BY <1>6, <1>12

LEMMA AllowanceWell == ASSUME CallersInv, NEW c \in Clients, Allowance(c), plan.part = "callers" PROVE CallersInv'
<1>1. setup \in Settings /\ Starts(setup) /\ Marked(setup, spends) /\ IsFiniteSet(spends)
  BY DEF CallersInv, Marked
<1>2. HeardAll(setup, heard, spends, left) /\ left \in Nat
  BY DEF CallersInv, HeardAll
<1>3. PICK r, k : r = heard[c] /\ k = r.checks[1]
  OBVIOUS
<1>4. /\ r.pc = "checks" /\ (k.burst = Off \/ Cardinality(On(spends, k.key)) < k.burst)
      /\ spends' = IF k.burst = Off THEN spends ELSE spends \cup {[n |-> r.n, v |-> r.v, key |-> k.key]}
      /\ heard' = [heard EXCEPT ![c] = [r EXCEPT !.checks = Tail(r.checks), !.pc = IF Len(r.checks) = 1 THEN "passed" ELSE "checks"]]
      /\ plan' = plan /\ left' = left /\ setup' = setup
  BY <1>3 DEF Allowance, OneLess, Spent, On, clock
<1>5. Heard(setup, spends, left, r)
  <2>1. r # Absent
    BY <1>4 DEF Absent
  <2> QED
    BY <1>2, <1>3, <2>1 DEF HeardAll
<1>6. r.v \in Visits(setup) /\ k \in Questions(setup, r.v)
  BY <1>3, <1>4, <1>5, FirstIs DEF Heard
<1>7. PICK T : T = IF k.burst = Off THEN spends ELSE spends \cup {[n |-> r.n, v |-> r.v, key |-> k.key]}
  OBVIOUS
<1>8. Marked(setup, T) /\ IsFiniteSet(T) /\ spends \subseteq T
      /\ (k.burst = Off \/ [n |-> r.n, v |-> r.v, key |-> k.key] \in T)
  <2>1. CASE k.burst = Off
    BY <1>1, <1>7, <2>1
  <2>2. CASE k.burst # Off
    <3>1. PICK x : x = [n |-> r.n, v |-> r.v, key |-> k.key]
      OBVIOUS
    <3>2. x.v = r.v /\ x.key = k.key /\ T = spends \cup {x}
      BY <3>1, <1>7, <2>2
    <3>3. Marked(setup, spends \cup {x}) /\ IsFiniteSet(spends \cup {x})
      BY <1>1, <1>4, <1>6, <2>2, <3>2, AllowanceMarks
    <3> QED
      BY <3>1, <3>2, <3>3
  <2> QED
    BY <2>1, <2>2
<1>9. PICK x : x = [r EXCEPT !.checks = Tail(r.checks), !.pc = IF Len(r.checks) = 1 THEN "passed" ELSE "checks"]
  OBVIOUS
<1>10. Heard(setup, T, left, x)
  <2>1. /\ IsFiniteSet(T) /\ spends \subseteq T /\ left \in Nat /\ Heard(setup, spends, left, r) /\ r.pc = "checks"
        /\ k = r.checks[1]
    BY <1>2, <1>3, <1>4, <1>5, <1>8
  <2>2. k.burst = Off \/ [n |-> r.n, v |-> r.v, key |-> k.key] \in T
    BY <1>8
  <2>3. Heard(setup, T, left, [r EXCEPT !.checks = Tail(r.checks), !.pc = IF Len(r.checks) = 1 THEN "passed" ELSE "checks"])
    BY <1>1, <2>1, <2>2, OneLessAsked
  <2> QED
    BY <2>3, <1>9
<1>11. x.n = r.n
  BY <1>5, <1>9 DEF Heard
<1>12. HeardAll(setup, [heard EXCEPT ![c] = x], T, left)
  <2>1. r # Absent
    BY <1>4 DEF Absent
  <2>2. \A d \in Clients : d # c /\ heard[d] # Absent => heard[d].n # x.n
    BY <1>2, <1>3, <1>11, <2>1 DEF HeardAll
  <2> QED
    BY <1>1, <1>2, <1>8, <1>10, <2>2, OneIsHeard
<1>13. HeardAll(setup', heard', spends', left') /\ Marked(setup', spends')
  BY <1>4, <1>7, <1>8, <1>9, <1>12
<1> QED
  BY <1>1, <1>4, <1>13 DEF CallersInv

(* A request is refused, or passes without an answer of the store.          *)
LEMMA AnsweredWell ==
  ASSUME CallersInv, NEW c \in Clients, Limited(c) \/ Unavailable(c), plan.part = "callers" PROVE CallersInv'
<1>1. setup \in Settings /\ Starts(setup) /\ Marked(setup, spends) /\ IsFiniteSet(spends)
  BY DEF CallersInv, Marked
<1>2. HeardAll(setup, heard, spends, left) /\ left \in Nat /\ \E R : heard \in [Clients -> R]
  BY DEF CallersInv, HeardAll
<1>3. PICK r, pc : /\ r = heard[c] /\ pc = IF Limited(c) THEN "refused" ELSE "unchecked"
  OBVIOUS
<1>4. /\ r.pc = "checks" /\ (pc = "refused" => r.checks[1].burst <= Cardinality(On(spends, r.checks[1].key)))
      /\ heard' = [heard EXCEPT ![c].pc = pc] /\ spends' = spends
      /\ plan' = plan /\ left' = left /\ setup' = setup
  <2>1. CASE Limited(c)
    <3>1. PICK k : k = r.checks[1]
      OBVIOUS
    <3>2. /\ r.pc = "checks" /\ Cardinality(On(spends, k.key)) >= k.burst
          /\ heard' = [heard EXCEPT ![c].pc = pc] /\ spends' = spends
          /\ plan' = plan /\ left' = left /\ setup' = setup
      BY <1>3, <2>1, <3>1 DEF Limited, Spent, On, clock
    <3> QED
      BY <3>1, <3>2
  <2>2. CASE ~Limited(c)
    BY <1>3, <2>2 DEF Unavailable, clock
  <2> QED
    BY <2>1, <2>2
<1>5. Heard(setup, spends, left, r)
  <2>1. r # Absent
    BY <1>4 DEF Absent
  <2> QED
    BY <1>2, <1>3, <2>1 DEF HeardAll
<1>6. PICK x : x = [r EXCEPT !.pc = pc]
  OBVIOUS
<1>7. /\ r = [pc |-> r.pc, n |-> r.n, v |-> r.v, checks |-> r.checks] /\ r.v \in Visits(setup)
      /\ Len(r.checks) >= 1 /\ (setup.allow # {} => r.v.from \in setup.allow)
  BY <1>4, <1>5 DEF Heard
<1>8. x = [pc |-> pc, n |-> r.n, v |-> r.v, checks |-> r.checks]
  <2>1. PICK o, n, v, q : o = r.pc /\ n = r.n /\ v = r.v /\ q = r.checks
    OBVIOUS
  <2>2. r \in [pc : {o, pc}, n : {n}, v : {v}, checks : {q}]
    BY <1>7, <2>1
  <2>3. x \in [pc : {o, pc}, n : {n}, v : {v}, checks : {q}] /\ x.pc = pc
    BY <1>6, <2>2
  <2> QED
    BY <2>1, <2>3
<1>9. x.pc = pc /\ x.n = r.n /\ x.v = r.v /\ x.checks = r.checks /\ pc \in {"refused", "unchecked"}
  BY <1>8, <1>3
<1>10. Heard(setup, spends, left, x)
  <2>1. x = [pc |-> x.pc, n |-> x.n, v |-> x.v, checks |-> x.checks]
    BY <1>8, <1>9
  <2>2. /\ x.pc \in {"refused", "unchecked"}
        /\ x.pc = "refused" => Len(x.checks) >= 1 /\ x.checks[1].burst <= Cardinality(On(spends, x.checks[1].key))
    BY <1>4, <1>7, <1>9
  <2>3. x.n \in Nat /\ left < x.n /\ x.v \in Visits(setup) /\ x.checks \in Seq(Questions(setup, x.v))
    BY <1>5, <1>9 DEF Heard
  <2>4. \A kind \in Kinds : Known(kind, x.v) =>
          \/ Listed(Question(setup, kind, x.v), x.checks)
          \/ Rule(setup, x.v.class)[kind] = Off
          \/ [n |-> x.n, v |-> x.v, key |-> KeyOf(setup, kind, x.v)] \in spends
    BY <1>5, <1>9 DEF Heard
  <2>5. setup.allow # {} => x.v.from \in setup.allow
    BY <1>7, <1>9
  <2> QED
    BY <2>1, <2>2, <2>3, <2>4, <2>5 DEF Heard
<1>11. HeardAll(setup, [heard EXCEPT ![c] = x], spends, left)
  <2>1. r # Absent
    BY <1>4 DEF Absent
  <2>2. \A d \in Clients : d # c /\ heard[d] # Absent => heard[d].n # x.n
    BY <1>2, <1>3, <1>9, <2>1 DEF HeardAll
  <2>3. left <= left /\ spends \subseteq spends
    BY <1>2
  <2>4. HeardAll(setup, heard, spends, left) /\ left \in Nat
    BY <1>2
  <2> QED
    BY <1>1, <1>10, <2>2, <2>3, <2>4, OneIsHeard
<1>12. [heard EXCEPT ![c] = x] = [heard EXCEPT ![c].pc = pc]
  BY <1>3, <1>6
<1>13. HeardAll(setup', heard', spends', left') /\ Marked(setup', spends')
  BY <1>1, <1>4, <1>11, <1>12
<1> QED
  BY <1>1, <1>4, <1>13 DEF CallersInv

(* No other part of the edge touches the callers.                           *)
LEMMA CallersUntouched ==
  ASSUME CallersInv, UNCHANGED callers, plan' = plan, plan.part # "callers" \/ left' = left PROVE CallersInv'
<1>1. setup' = setup /\ heard' = heard /\ spends' = spends
  BY DEF callers
<1>2. (IF plan'.part = "callers" THEN left' ELSE 0) = (IF plan.part = "callers" THEN left ELSE 0)
  OBVIOUS
<1>3. HeardAll(setup', heard', spends', IF plan'.part = "callers" THEN left' ELSE 0) /\ Marked(setup', spends')
  BY <1>1, <1>2 DEF CallersInv
<1> QED
  BY <1>1, <1>3 DEF CallersInv

LEMMA CallersKeeps == CallersInv /\ [Next]_edge => CallersInv'
<1> SUFFICES ASSUME CallersInv, [Next]_edge PROVE CallersInv'
  OBVIOUS
<1>1. CASE plan.part = "callers" /\ CallersNext
  <2>1. PICK c \in Clients : (\E v \in Visits(setup) : Arrive(c, v)) \/ Allowance(c) \/ Limited(c) \/ Unavailable(c)
    BY <1>1 DEF CallersNext
  <2>2. CASE \E v \in Visits(setup) : Arrive(c, v)
    BY <2>2, ArriveWell
  <2>3. CASE Allowance(c)
    BY <1>1, <2>3, AllowanceWell
  <2>4. CASE Limited(c) \/ Unavailable(c)
    BY <1>1, <2>4, AnsweredWell
  <2> QED
    BY <2>1, <2>2, <2>3, <2>4
<1>2. CASE UNCHANGED callers /\ plan' = plan /\ (plan.part # "callers" \/ left' = left)
  BY <1>2, CallersUntouched
<1>3. CASE Tick
  BY <1>2, <1>3 DEF Tick, Passes
<1>4. CASE UNCHANGED edge
  BY <1>2, <1>4 DEF edge, clock
<1>5. CASE ~Tick /\ Next
  BY <1>1, <1>2, <1>5, LimitsStill, CookiesStill, HumanStill, PlayersStill, PipelineStill, ListsStill, ProgramsStill,
     HealthStill, BlobsStill DEF Next
<1> QED
  BY <1>3, <1>4, <1>5

(* Who is refused, who passes and who is outside.                           *)
LEMMA RefusedApart ==
  ASSUME CallersInv, NEW c \in Clients, heard[c].pc = "refused"
  PROVE  LET k == heard[c].checks[1] IN
         /\ \A e \in Spent(k.key) : Shares(k.kind, e.v, heard[c].v)
         /\ InForce(heard[c].v.class, k.kind) <= Cardinality(Spent(k.key))
<1>1. setup \in Settings /\ Starts(setup) /\ Marked(setup, spends)
  BY DEF CallersInv
<1>2. PICK r, k, l : r = heard[c] /\ k = r.checks[1] /\ l = IF plan.part = "callers" THEN left ELSE 0
  OBVIOUS
<1>3. Heard(setup, spends, l, r)
  BY <1>2 DEF CallersInv, HeardAll, Absent
<1>4. r.v \in Visits(setup) /\ k \in Questions(setup, r.v) /\ k.burst <= Cardinality(On(spends, k.key))
  BY <1>2, <1>3, FirstIs DEF Heard
<1>5. /\ k.kind \in Kinds /\ Known(k.kind, r.v) /\ k.key = KeyOf(setup, k.kind, r.v)
      /\ k.burst = InForce(r.v.class, k.kind)
  BY <1>1, <1>4, QuestionIs
<1>6. Spent(k.key) = On(spends, k.key)
  BY DEF Spent, On
<1>7. ASSUME NEW e \in Spent(k.key) PROVE Shares(k.kind, e.v, r.v)
  <2>1. e \in spends /\ e.key = k.key
    BY <1>7 DEF Spent
  <2>2. PICK kind \in Kinds : Known(kind, e.v) /\ e.key = KeyOf(setup, kind, e.v)
    BY <1>1, <2>1 DEF Marked
  <2>3. e.v \in Visits(setup)
    BY <1>1, <2>1 DEF Marked
  <2>4. Coming(setup, e.v) /\ Coming(setup, r.v)
    BY <1>1, <1>4, <2>3, WhoComes
  <2>5. PICK u, w, x : u = k.kind /\ w = r.v /\ x = e.v
    OBVIOUS
  <2>6. u \in Kinds /\ kind \in Kinds /\ Known(kind, x) /\ Known(u, w) /\ KeyOf(setup, kind, x) = KeyOf(setup, u, w) /\ Coming(setup, x) /\ Coming(setup, w)
    BY <1>5, <2>1, <2>2, <2>4, <2>5
  <2>7. kind = u /\ Shares(kind, x, w)
    BY <2>6, KeysApart
  <2> QED
    BY <2>5, <2>7
<1> QED
  BY <1>2, <1>4, <1>5, <1>6, <1>7
LEMMA PassedApart ==
  ASSUME CallersInv, NEW c \in Clients, heard[c].pc = "passed", NEW kind \in Kinds,
         InForce(heard[c].v.class, kind) # Off, Known(kind, heard[c].v)
  PROVE  Cardinality({d \in Clients : heard[d].pc = "passed" /\ Known(kind, heard[d].v) /\ Shares(kind, heard[d].v, heard[c].v)})
           <= InForce(heard[c].v.class, kind)
<1>1. setup \in Settings /\ Starts(setup) /\ Marked(setup, spends)
  BY DEF CallersInv
<1>2. PICK v, l : v = heard[c].v /\ l = IF plan.part = "callers" THEN left ELSE 0
  OBVIOUS
<1>3. ASSUME NEW d \in Clients, heard[d].pc = "passed"
      PROVE  Heard(setup, spends, l, heard[d]) /\ heard[d] # Absent /\ heard[d].v \in Visits(setup) /\ Coming(setup, heard[d].v)
  <2>1. heard[d] # Absent
    BY <1>3 DEF Absent
  <2>2. Heard(setup, spends, l, heard[d])
    BY <1>2, <2>1 DEF CallersInv, HeardAll
  <2>3. heard[d].v \in Visits(setup)
    BY <2>2 DEF Heard
  <2> QED
    BY <1>1, <2>1, <2>2, <2>3, WhoComes
<1>4. v \in Visits(setup) /\ Coming(setup, v)
  BY <1>2, <1>3
<1>5. Rule(setup, v.class)[kind] = InForce(v.class, kind) /\ InForce(v.class, kind) \in Nat
  BY <1>1, <1>4, RuleIs
<1>6. PICK key : key = KeyOf(setup, kind, v)
  OBVIOUS
<1>7. Cardinality(On(spends, key)) <= InForce(v.class, kind)
  BY <1>1, <1>2, <1>4, <1>5, <1>6 DEF Marked
<1> DEFINE P == {d \in Clients : heard[d].pc = "passed" /\ Known(kind, heard[d].v) /\ Shares(kind, heard[d].v, v)}
           f == [d \in P |-> [n |-> heard[d].n, v |-> heard[d].v, key |-> key]]
<1>8. ASSUME NEW d \in P PROVE [n |-> heard[d].n, v |-> heard[d].v, key |-> key] \in On(spends, key)
  <2>1. d \in Clients /\ heard[d].pc = "passed" /\ Known(kind, heard[d].v) /\ Shares(kind, heard[d].v, v)
    BY <1>8
  <2>2. PICK r : r = heard[d]
    OBVIOUS
  <2>3. Heard(setup, spends, l, r)
    BY <1>3, <2>1, <2>2
  <2>4. ~Listed(Question(setup, kind, r.v), r.checks)
    <3>1. Len(r.checks) = 0 /\ 1..0 = {}
      BY <2>1, <2>2, <2>3 DEF Heard
    <3> QED
      BY <3>1 DEF Listed
  <2>5. Rule(setup, r.v.class)[kind] # Off
    <3>1. r.v.class = v.class
      BY <2>1, <2>2 DEF Shares
    <3> QED
      BY <3>1, <1>2, <1>5
  <2>6. [n |-> r.n, v |-> r.v, key |-> KeyOf(setup, kind, r.v)] \in spends
    BY <2>1, <2>2, <2>3, <2>4, <2>5 DEF Heard
  <2>7. KeyOf(setup, kind, r.v) = key
    <3>1. PICK w : w = r.v
      OBVIOUS
    <3>2. Known(kind, w) /\ Known(kind, v) /\ Shares(kind, w, v)
      BY <3>1, <1>2, <2>1, <2>2
    <3>3. KeyOf(setup, kind, w) = KeyOf(setup, kind, v)
      BY <3>2, KeyShared
    <3> QED
      BY <3>1, <3>3, <1>6
  <2>8. PICK x : x = [n |-> r.n, v |-> r.v, key |-> key]
    OBVIOUS
  <2>9. x \in spends /\ x.key = key
    BY <2>6, <2>7, <2>8
  <2> QED
    BY <2>2, <2>8, <2>9 DEF On
<1>9. ASSUME NEW d \in P, NEW e \in P, f[d] = f[e] PROVE d = e
  <2>1. PICK x, y : x = [n |-> heard[d].n, v |-> heard[d].v, key |-> key] /\ y = [n |-> heard[e].n, v |-> heard[e].v, key |-> key]
    OBVIOUS
  <2>2. x.n = heard[d].n /\ y.n = heard[e].n /\ f[d] = x /\ f[e] = y
    BY <2>1
  <2>3. heard[d].n = heard[e].n
    BY <1>9, <2>2
  <2>4. d \in Clients /\ e \in Clients /\ heard[d] # Absent /\ heard[e] # Absent
    BY <1>3
  <2> QED
    BY <2>3, <2>4 DEF CallersInv, HeardAll
<1>10. f \in Injection(P, On(spends, key))
  <2>1. f \in [P -> On(spends, key)]
    BY <1>8
  <2> HIDE DEF P, f
  <2>2. \A d, e \in P : f[d] = f[e] => d = e
    BY <1>9
  <2>3. IsInjective(f)
    BY <2>1, <2>2 DEF IsInjective
  <2> QED
    BY <2>1, <2>3 DEF Injection
<1>11. IsFiniteSet(On(spends, key)) /\ Cardinality(On(spends, key)) \in Nat
  BY <1>1, OnMore DEF Marked
<1> HIDE DEF f, P
<1>12. Cardinality(P) <= Cardinality(On(spends, key)) /\ IsFiniteSet(P)
  BY <1>10, <1>11, FS_Injection
<1>13. Cardinality(P) \in Nat
  BY <1>12, FS_CardinalityType
<1>14. Cardinality(P) <= InForce(v.class, kind)
  BY <1>5, <1>7, <1>11, <1>12, <1>13
<1> QED
  BY <1>2, <1>14 DEF P
LEMMA CallersApart == CallersInv => CountedApart
<1> SUFFICES ASSUME CallersInv PROVE CountedApart
  OBVIOUS
<1>1. ASSUME NEW c \in Clients, heard[c].pc # "absent", setup.allow # {}
      PROVE  heard[c].pc = "outside" <=> heard[c].v.from \notin setup.allow
  BY <1>1 DEF CallersInv, HeardAll, Heard, Absent
<1> QED
  BY <1>1, RefusedApart, PassedApart DEF CountedApart

-----------------------------------------------------------------------------
(* The two invariants together are inductive.                               *)
LimitsAndCallers == LimitsInv /\ CallersInv
THEOREM LimitsInvariance == Spec => []LimitsAndCallers
<1>1. Init => LimitsAndCallers
  BY LimitsStart, CallersStart DEF LimitsAndCallers
<1>2. LimitsAndCallers /\ [Next]_edge => LimitsAndCallers'
  BY LimitsKeeps, CallersKeeps DEF LimitsAndCallers
<1> QED
  BY <1>1, <1>2, PTL DEF Spec

(* When a limit changes, no more requests have passed in any window than    *)
(* the policy lets through, and who is refused would not have fitted in;    *)
(* and of the callers of a process, whatever the hops and the headers they   *)
(* come with, who is refused shares the used-up limit with all that used it  *)
(* up, who passes shares a limit with no more than it lets through, and the  *)
(* allowlist is asked of the address the visitor has (ratelimit/limiter.go,  *)
(* cleanup.go, keys.go, middleware.go; peer/peer.go).                        *)
THEOREM AsThePolicySaysAlways == Spec => AsThePolicySays
<1>1. LimitsAndCallers /\ LimitsAndCallers' /\ [Next]_edge => (limits' # limits => Bounded' /\ RefusedRightly)
  BY LimitsSay DEF LimitsAndCallers
<1>2. (CallersInv => CountedApart)'
  BY CallersApart, PTL
<1>3. LimitsAndCallers' => CountedApart'
  BY <1>2 DEF LimitsAndCallers
<1>4. LimitsAndCallers /\ LimitsAndCallers' /\ [Next]_edge =>
        [/\ limits' # limits => Bounded' /\ RefusedRightly
         /\ callers' # callers => CountedApart']_edge
  BY <1>1, <1>3
<1> QED
  BY <1>4, LimitsInvariance, PTL DEF Spec, AsThePolicySays
=============================================================================

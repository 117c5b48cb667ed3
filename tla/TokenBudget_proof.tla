-------------------------- MODULE TokenBudget_proof ---------------------------
(***************************************************************************)
(* Proofs about TokenBudget, for any number of audits and any limits: how  *)
(* far concurrent audits can pass a limit.                                 *)
(*                                                                         *)
(* The argument is one potential.  While an audit is between the read that *)
(* let it through and its record, the most it can add is set aside for it: *)
(* recorded tokens plus what is set aside never pass the limit by more     *)
(* than what all audits together can have set aside.                       *)
(*                                                                         *)
(* And about CostProfiles, for any environments and loads: the offline     *)
(* profile calls no model, and the advice on profiles comes to rest.       *)
(***************************************************************************)
EXTENDS TokenBudget, CostProfiles, FiniteSetTheorems, TLAPS

N == Cardinality(Audits)
PerAudit == 2 * MaxResponse

\* Total t, with weight w set aside for every audit of S, is within limit l.
Room(t, S, l, w) == t + w * Cardinality(S) <= l + w * N

LEMMA CardinalityOfSome ==
  ASSUME NEW S \in SUBSET Audits
  PROVE  IsFiniteSet(S) /\ Cardinality(S) \in Nat /\ N \in Nat /\ Cardinality(S) <= N
<1>1. IsFiniteSet(Audits)
  BY BudgetAssumption
<1> QED
  BY <1>1, FS_Subset, FS_CardinalityType DEF N

LEMMA TimesMonotone ==
  ASSUME NEW w \in Nat, NEW c \in Nat, NEW d \in Nat, c <= d
  PROVE  w * c <= w * d /\ w * c \in Nat /\ w * d \in Nat
<1>1. PICK e \in Nat : d = c + e
  <2>1. d - c \in Nat /\ d = c + (d - c)
    OBVIOUS
  <2> QED
    BY <2>1
<1>2. w * (c + e) = w * c + w * e /\ w * e \in Nat /\ w * c \in Nat
  OBVIOUS
<1> QED
  BY <1>1, <1>2

\* A total within the limit leaves room for every audit.
LEMMA Admit ==
  ASSUME NEW S \in SUBSET Audits, NEW w \in Nat, NEW t \in Int, NEW l \in Int, t <= l
  PROVE  Room(t, S, l, w)
<1>1. w * Cardinality(S) <= w * N /\ w * Cardinality(S) \in Nat /\ w * N \in Nat
  BY CardinalityOfSome, TimesMonotone
<1> QED
  BY <1>1 DEF Room

\* A smaller total and fewer audits need no more room.
LEMMA Shrink ==
  ASSUME NEW S \in SUBSET Audits, NEW T \in SUBSET S, NEW w \in Nat,
         NEW t \in Int, NEW u \in Int, NEW l \in Int, u <= t, Room(t, S, l, w)
  PROVE  Room(u, T, l, w)
<1>1. Cardinality(T) \in Nat /\ Cardinality(S) \in Nat /\ Cardinality(T) <= Cardinality(S)
  BY CardinalityOfSome, FS_Subset
<1>2. w * Cardinality(T) <= w * Cardinality(S)
      /\ w * Cardinality(T) \in Nat /\ w * Cardinality(S) \in Nat
  BY <1>1, TimesMonotone
<1>3. w * N \in Nat
  BY CardinalityOfSome
<1> QED
  BY <1>2, <1>3 DEF Room

\* An audit that records at most its weight gives up its room for it.
LEMMA Settle ==
  ASSUME NEW S \in SUBSET Audits, NEW a \in S, NEW w \in Nat, NEW x \in 0..w,
         NEW t \in Int, NEW l \in Int, Room(t, S, l, w)
  PROVE  Room(t + x, S \ {a}, l, w)
<1>1. IsFiniteSet(S) /\ Cardinality(S) \in Nat /\ N \in Nat
  BY CardinalityOfSome
<1>2. Cardinality(S \ {a}) = Cardinality(S) - 1
  BY <1>1, FS_RemoveElement
<1>3. w * (Cardinality(S) - 1) = w * Cardinality(S) - w
  BY <1>1
<1>4. w * Cardinality(S) \in Nat /\ w * N \in Nat
  BY <1>1
<1> QED
  BY <1>2, <1>3, <1>4 DEF Room

\* What room for the total implies of the total alone.
LEMMA WithinRoom ==
  ASSUME NEW S \in SUBSET Audits, NEW w \in Nat, NEW t \in Int, NEW l \in Int,
         Room(t, S, l, w)
  PROVE  t <= l + w * N
<1>1. w * Cardinality(S) \in Nat /\ w * N \in Nat
  BY CardinalityOfSome
<1> QED
  BY <1>1 DEF Room
-----------------------------------------------------------------------------
\* What an audit has used fits its step.
UsedInv ==
    \A a \in Audits : /\ pc[a] \in {"idle", "day", "satire"} => used[a] = 0
                      /\ pc[a] = "swarm" => used[a] <= MaxResponse

TInv == TypeOK /\ UsedInv

LEMMA TypeInit == Init => TInv
<1> SUFFICES ASSUME Init PROVE TInv
  OBVIOUS
<1> USE BudgetAssumption DEF Init
<1>1. hourly \in Nat /\ older \in Nat /\ brake \in BOOLEAN /\ override \in Overrides \union {0}
  OBVIOUS
<1>2. pc \in [Audits -> Steps] /\ seen \in [Audits -> Nat]
  BY DEF Steps
<1>3. used \in [Audits -> 0..2 * MaxResponse]
  <2>1. 0 \in 0..2 * MaxResponse
    OBVIOUS
  <2> QED
    BY <2>1
<1>4. UsedInv
  BY DEF UsedInv
<1> QED
  BY <1>1, <1>2, <1>3, <1>4 DEF TInv, TypeOK

LEMMA TypeNext == TInv /\ [Next]_vars => TInv'
<1> SUFFICES ASSUME TInv, [Next]_vars PROVE TInv'
  OBVIOUS
<1> USE BudgetAssumption DEF TInv, TypeOK, UsedInv, Steps, Calling, Goto
<1>1. ASSUME NEW a \in Audits, ReadHour(a) PROVE TInv'
  BY <1>1 DEF ReadHour
<1>2. ASSUME NEW a \in Audits, Decide(a) PROVE TInv'
  BY <1>2 DEF Decide
<1>3. ASSUME NEW a \in Audits, SatireReturns(a) PROVE TInv'
  <2>1. PICK n \in 0..MaxResponse : used' = [used EXCEPT ![a] = n]
    BY <1>3 DEF SatireReturns
  <2> QED
    BY <1>3, <2>1 DEF SatireReturns
<1>4. ASSUME NEW a \in Audits, SwarmReturns(a) PROVE TInv'
  <2>1. PICK n \in 0..MaxResponse : used' = [used EXCEPT ![a] = used[a] + n]
    BY <1>4 DEF SwarmReturns
  <2>2. used[a] \in 0..MaxResponse
    BY <1>4 DEF SwarmReturns
  <2>3. used[a] + n \in 0..2 * MaxResponse
    BY <2>2
  <2> QED
    BY <1>4, <2>1, <2>3 DEF SwarmReturns
<1>5. ASSUME NEW a \in Audits, Record(a) PROVE TInv'
  <2>1. hourly' \in Nat
    BY <1>5 DEF Record
  <2> QED
    BY <1>5, <2>1 DEF Record
<1>6. ASSUME NEW a \in Audits, Unrecorded(a) PROVE TInv'
  BY <1>6 DEF Unrecorded
<1>7. CASE PullBrake \/ ReleaseBrake
  BY <1>7 DEF PullBrake, ReleaseBrake
<1>8. ASSUME NEW n \in Overrides, SetOverride(n) PROVE TInv'
  BY <1>8 DEF SetOverride
<1>9. ASSUME NEW k \in 1..hourly, LeaveHour(k) PROVE TInv'
  BY <1>9 DEF LeaveHour
<1>10. ASSUME NEW k \in 1..older, LeaveDay(k) PROVE TInv'
  BY <1>10 DEF LeaveDay
<1>11. CASE UNCHANGED vars
  BY <1>11 DEF vars
<1> QED
  BY <1>1, <1>2, <1>3, <1>4, <1>5, <1>6, <1>7, <1>8, <1>9, <1>10, <1>11 DEF Next, Audit

\* Totals, steps and what audits hold keep their ranges.
THEOREM TypeCorrect == Spec => []TypeOK
<1>1. TInv => TypeOK
  BY DEF TInv
<1> QED
  BY <1>1, TypeInit, TypeNext, PTL DEF Spec

-----------------------------------------------------------------------------
\* The audits a total has been read for and that may still add to it: for the hour
\* from the read that lets them through, for the day from the decision.
Admitted == {a \in Audits : \/ pc[a] \in Calling
                            \/ pc[a] = "day" /\ seen[a] + Est <= Ceiling}
Underway == {a \in Audits : pc[a] \in Calling}

HourInv == Est <= Ceiling => Room(hourly, Admitted, Ceiling - Est, PerAudit)
DayInv == Est <= DailyMax => Room(daily, Underway, DailyMax - Est, PerAudit)
SpendInv ==
    EnableBreaker /\ Budget > 0 =>
        Room(Spend(daily), Underway, Budget - 1, Price * PerAudit)

LEMMA LimitBelowCeiling ==
  ASSUME TInv, NEW a \in Audits PROVE HourlyLimit(a) \in Nat /\ HourlyLimit(a) <= Ceiling
BY BudgetAssumption DEF HourlyLimit, TInv, TypeOK

LEMMA PerAuditIsNat == PerAudit \in Nat
BY BudgetAssumption DEF PerAudit

\* A step lets an audit through within the hour's limit, or adds nothing, or records
\* what an audit let through has used.
LEMMA HourStep ==
  ASSUME TInv, [Next]_vars
  PROVE  \/ hourly' = hourly /\ hourly + Est <= Ceiling
         \/ Admitted' \subseteq Admitted /\ hourly' <= hourly
         \/ \E a \in Admitted : Admitted' \subseteq Admitted \ {a} /\ hourly' = hourly + used[a]
<1> DEFINE Goal == \/ hourly' = hourly /\ hourly + Est <= Ceiling
                   \/ Admitted' \subseteq Admitted /\ hourly' <= hourly
                   \/ \E a \in Admitted : Admitted' \subseteq Admitted \ {a}
                                              /\ hourly' = hourly + used[a]
<1> USE BudgetAssumption DEF TInv, TypeOK, Steps, Calling, Goto, Admitted
<1>1. ASSUME NEW a \in Audits, ReadHour(a) PROVE Goal
  <2>1. CASE hourly + Est <= Ceiling
    BY <1>1, <2>1 DEF ReadHour
  <2>2. CASE ~(hourly + Est <= Ceiling)
    BY <1>1, <2>2 DEF ReadHour
  <2> QED
    BY <2>1, <2>2
<1>2. ASSUME NEW a \in Audits, Decide(a) PROVE Goal
  <2>1. BudgetAvailable(a) => seen[a] + Est <= Ceiling
    <3>1. HourlyLimit(a) \in Nat /\ HourlyLimit(a) <= Ceiling
      BY LimitBelowCeiling
    <3> QED
      BY <3>1 DEF BudgetAvailable
  <2>2. /\ pc[a] = "day" /\ hourly' = hourly
        /\ pc' = [pc EXCEPT ![a] = IF BudgetAvailable(a) THEN "satire" ELSE "idle"]
        /\ seen' = [seen EXCEPT ![a] = 0]
    BY <1>2 DEF Decide
  <2>3. Admitted' \subseteq Admitted
    BY <2>1, <2>2
  <2> QED
    BY <2>2, <2>3
<1>3. ASSUME NEW a \in Audits, SatireReturns(a) PROVE Goal
  BY <1>3 DEF SatireReturns
<1>4. ASSUME NEW a \in Audits, SwarmReturns(a) PROVE Goal
  BY <1>4 DEF SwarmReturns
<1>5. ASSUME NEW a \in Audits, Record(a) PROVE Goal
  BY <1>5 DEF Record
<1>6. ASSUME NEW a \in Audits, Unrecorded(a) PROVE Goal
  BY <1>6 DEF Unrecorded
<1>7. CASE PullBrake \/ ReleaseBrake \/ \E n \in Overrides : SetOverride(n)
  BY <1>7 DEF PullBrake, ReleaseBrake, SetOverride
<1>8. ASSUME NEW k \in 1..hourly, LeaveHour(k) PROVE Goal
  BY <1>8 DEF LeaveHour
<1>9. ASSUME NEW k \in 1..older, LeaveDay(k) PROVE Goal
  BY <1>9 DEF LeaveDay
<1>10. CASE UNCHANGED vars
  BY <1>10 DEF vars
<1> QED
  BY <1>1, <1>2, <1>3, <1>4, <1>5, <1>6, <1>7, <1>8, <1>9, <1>10 DEF Next, Audit

\* The same of the day, whose total is read when the audit is let through.
LEMMA DayStep ==
  ASSUME TInv, [Next]_vars
  PROVE  \/ /\ daily' = daily /\ daily + Est <= DailyMax
            /\ EnableBreaker /\ Budget > 0 => Spend(daily) < Budget
         \/ Underway' \subseteq Underway /\ daily' <= daily
         \/ \E a \in Underway : Underway' \subseteq Underway \ {a} /\ daily' = daily + used[a]
<1> DEFINE Goal == \/ /\ daily' = daily /\ daily + Est <= DailyMax
                      /\ EnableBreaker /\ Budget > 0 => Spend(daily) < Budget
                   \/ Underway' \subseteq Underway /\ daily' <= daily
                   \/ \E a \in Underway : Underway' \subseteq Underway \ {a}
                                              /\ daily' = daily + used[a]
<1> USE BudgetAssumption DEF TInv, TypeOK, Steps, Calling, Goto, Underway, daily
<1>1. ASSUME NEW a \in Audits, ReadHour(a) PROVE Goal
  BY <1>1 DEF ReadHour
<1>2. ASSUME NEW a \in Audits, Decide(a) PROVE Goal
  <2>1. Spend(daily) \in Nat
    BY DEF Spend
  <2>2. CASE BudgetAvailable(a)
    <3>1. EnableBreaker /\ Budget > 0 => Spend(daily) < Budget
      BY <2>1, <2>2 DEF BudgetAvailable, Tripped
    <3> QED
      BY <1>2, <2>2, <3>1 DEF Decide, BudgetAvailable
  <2>3. CASE ~BudgetAvailable(a)
    BY <1>2, <2>3 DEF Decide
  <2> QED
    BY <2>2, <2>3
<1>3. ASSUME NEW a \in Audits, SatireReturns(a) PROVE Goal
  BY <1>3 DEF SatireReturns
<1>4. ASSUME NEW a \in Audits, SwarmReturns(a) PROVE Goal
  BY <1>4 DEF SwarmReturns
<1>5. ASSUME NEW a \in Audits, Record(a) PROVE Goal
  BY <1>5 DEF Record
<1>6. ASSUME NEW a \in Audits, Unrecorded(a) PROVE Goal
  BY <1>6 DEF Unrecorded
<1>7. CASE PullBrake \/ ReleaseBrake \/ \E n \in Overrides : SetOverride(n)
  BY <1>7 DEF PullBrake, ReleaseBrake, SetOverride
<1>8. ASSUME NEW k \in 1..hourly, LeaveHour(k) PROVE Goal
  BY <1>8 DEF LeaveHour
<1>9. ASSUME NEW k \in 1..older, LeaveDay(k) PROVE Goal
  BY <1>9 DEF LeaveDay
<1>10. CASE UNCHANGED vars
  BY <1>10 DEF vars
<1> QED
  BY <1>1, <1>2, <1>3, <1>4, <1>5, <1>6, <1>7, <1>8, <1>9, <1>10 DEF Next, Audit

-----------------------------------------------------------------------------
\* A total that changes by one of the three kinds of step stays within its room.
LEMMA RoomKept ==
  ASSUME NEW S \in SUBSET Audits, NEW T \in SUBSET Audits, NEW w \in Nat,
         NEW t \in Int, NEW u \in Int, NEW l \in Int, Room(t, S, l, w),
         \/ u <= l
         \/ T \subseteq S /\ u <= t
         \/ \E a \in S : \E x \in 0..w : T \subseteq S \ {a} /\ u = t + x
  PROVE  Room(u, T, l, w)
<1>1. CASE u <= l
  BY <1>1, Admit
<1>2. CASE T \subseteq S /\ u <= t
  BY <1>2, Shrink
<1>3. ASSUME NEW a \in S, NEW x \in 0..w, T \subseteq S \ {a}, u = t + x
      PROVE  Room(u, T, l, w)
  <2>1. Room(t + x, S \ {a}, l, w)
    BY Settle
  <2>2. u <= t + x /\ t + x \in Int
    BY <1>3
  <2> QED
    BY <1>3, <2>1, <2>2, Shrink
<1> QED
  BY <1>1, <1>2, <1>3

LEMMA HourNext == ASSUME TInv, HourInv, [Next]_vars PROVE HourInv'
<1> SUFFICES ASSUME Est <= Ceiling PROVE Room(hourly', Admitted', Ceiling - Est, PerAudit)
  BY DEF HourInv, Room, N, PerAudit
<1>1. hourly \in Int /\ hourly' \in Int /\ Ceiling - Est \in Int
  BY TypeNext, BudgetAssumption DEF TInv, TypeOK
<1>2. Admitted \in SUBSET Audits /\ Admitted' \in SUBSET Audits
  BY DEF Admitted
<1>3. \A a \in Audits : used[a] \in 0..PerAudit
  BY DEF TInv, TypeOK, PerAudit
<1>4. hourly' = hourly /\ hourly + Est <= Ceiling => hourly' <= Ceiling - Est
  BY <1>1, BudgetAssumption
<1> QED
  BY <1>1, <1>2, <1>3, <1>4, HourStep, RoomKept, PerAuditIsNat DEF HourInv

LEMMA DayNext == ASSUME TInv, DayInv, [Next]_vars PROVE DayInv'
<1> SUFFICES ASSUME Est <= DailyMax PROVE Room(daily', Underway', DailyMax - Est, PerAudit)
  BY DEF DayInv, Room, N, PerAudit
<1>1. daily \in Int /\ daily' \in Int /\ DailyMax - Est \in Int
  BY TypeNext, BudgetAssumption DEF TInv, TypeOK, daily
<1>2. Underway \in SUBSET Audits /\ Underway' \in SUBSET Audits
  BY DEF Underway
<1>3. \A a \in Audits : used[a] \in 0..PerAudit
  BY DEF TInv, TypeOK, PerAudit
<1>4. daily' = daily /\ daily + Est <= DailyMax => daily' <= DailyMax - Est
  BY <1>1, BudgetAssumption
<1> QED
  BY <1>1, <1>2, <1>3, <1>4, DayStep, RoomKept, PerAuditIsNat DEF DayInv

LEMMA SpendNext == ASSUME TInv, SpendInv, [Next]_vars PROVE SpendInv'
<1> DEFINE w == Price * PerAudit
<1> SUFFICES ASSUME EnableBreaker, Budget > 0
             PROVE  Room(Spend(daily'), Underway', Budget - 1, w)
  BY DEF SpendInv, Room, N, PerAudit, Spend
<1>1. daily \in Nat /\ daily' \in Nat
  BY TypeNext DEF TInv, TypeOK, daily
<1>2. Spend(daily) \in Int /\ Spend(daily') \in Int /\ Budget - 1 \in Int /\ w \in Nat
  BY <1>1, BudgetAssumption, PerAuditIsNat DEF Spend
<1>3. Underway \in SUBSET Audits /\ Underway' \in SUBSET Audits
  BY DEF Underway
<1>4. ASSUME NEW a \in Audits, daily' = daily + used[a]
      PROVE  \E x \in 0..w : Spend(daily') = Spend(daily) + x
  <2>1. used[a] \in Nat /\ used[a] <= PerAudit
    BY DEF TInv, TypeOK, PerAudit
  <2>2. Price * used[a] \in 0..w
    BY <2>1, PerAuditIsNat, BudgetAssumption, TimesMonotone
  <2>3. Price * (daily + used[a]) = Price * daily + Price * used[a]
    BY <1>1, <2>1, BudgetAssumption
  <2> QED
    BY <1>4, <2>2, <2>3 DEF Spend
<1>5. daily' <= daily => Spend(daily') <= Spend(daily)
  BY <1>1, BudgetAssumption, TimesMonotone DEF Spend
<1>6. daily' = daily /\ Spend(daily) < Budget => Spend(daily') <= Budget - 1
  BY <1>2, BudgetAssumption
<1>7. Room(Spend(daily), Underway, Budget - 1, w)
  BY DEF SpendInv
<1>8. \/ Spend(daily') <= Budget - 1
      \/ Underway' \subseteq Underway /\ Spend(daily') <= Spend(daily)
      \/ \E a \in Underway : \E x \in 0..w :
             Underway' \subseteq Underway \ {a} /\ Spend(daily') = Spend(daily) + x
  <2> HIDE DEF w
  <2> QED
    BY <1>3, <1>4, <1>5, <1>6, DayStep
<1> HIDE DEF w
<1> QED
  BY <1>2, <1>3, <1>7, <1>8, RoomKept

-----------------------------------------------------------------------------
IInv == TInv /\ HourInv /\ DayInv /\ SpendInv

LEMMA InvInit == Init => IInv
<1> SUFFICES ASSUME Init PROVE HourInv /\ DayInv /\ SpendInv
  BY TypeInit DEF IInv
<1>1. hourly = 0 /\ daily = 0 /\ Spend(daily) = 0
  BY BudgetAssumption DEF Init, daily, Spend
<1>2. Admitted \in SUBSET Audits /\ Underway \in SUBSET Audits
  BY DEF Admitted, Underway
<1>3. Price * PerAudit \in Nat
  BY PerAuditIsNat, BudgetAssumption
<1>4. HourInv
  BY <1>1, <1>2, PerAuditIsNat, BudgetAssumption, Admit DEF HourInv
<1>5. DayInv
  BY <1>1, <1>2, PerAuditIsNat, BudgetAssumption, Admit DEF DayInv
<1>6. SpendInv
  BY <1>1, <1>2, <1>3, BudgetAssumption, Admit DEF SpendInv
<1> QED
  BY <1>4, <1>5, <1>6

LEMMA Invariance == Spec => []IInv
<1>1. IInv /\ [Next]_vars => IInv'
  BY TypeNext, HourNext, DayNext, SpendNext DEF IInv
<1> QED
  BY <1>1, InvInit, PTL DEF Spec

\* However many audits overlap and however the operator moves the limit below the
\* ceiling, the hour's tokens pass it by no more than the audits' calls.
THEOREM HourlyOvershoot == Spec => []HourlyOvershootBounded
<1>1. IInv => HourlyOvershootBounded
  <2> SUFFICES ASSUME IInv, Est <= Ceiling PROVE hourly <= Ceiling - Est + InFlight
    BY DEF HourlyOvershootBounded
  <2>1. Room(hourly, Admitted, Ceiling - Est, PerAudit)
    BY DEF IInv, HourInv
  <2>2. hourly \in Int /\ Ceiling - Est \in Int /\ Admitted \in SUBSET Audits
    BY BudgetAssumption DEF IInv, TInv, TypeOK, Admitted
  <2>3. hourly <= Ceiling - Est + PerAudit * N
    BY <2>1, <2>2, PerAuditIsNat, WithinRoom
  <2>4. PerAudit * N = InFlight
    BY CardinalityOfSome, PerAuditIsNat DEF InFlight, N, PerAudit
  <2> QED
    BY <2>3, <2>4
<1> QED
  BY <1>1, Invariance, PTL

\* The same of the day's tokens.
THEOREM DailyOvershoot == Spec => []DailyOvershootBounded
<1>1. IInv => DailyOvershootBounded
  <2> SUFFICES ASSUME IInv, Est <= DailyMax PROVE daily <= DailyMax - Est + InFlight
    BY DEF DailyOvershootBounded
  <2>1. Room(daily, Underway, DailyMax - Est, PerAudit)
    BY DEF IInv, DayInv
  <2>2. daily \in Int /\ DailyMax - Est \in Int /\ Underway \in SUBSET Audits
    BY BudgetAssumption DEF IInv, TInv, TypeOK, Underway, daily
  <2>3. daily <= DailyMax - Est + PerAudit * N
    BY <2>1, <2>2, PerAuditIsNat, WithinRoom
  <2>4. PerAudit * N = InFlight
    BY CardinalityOfSome, PerAuditIsNat DEF InFlight, N, PerAudit
  <2> QED
    BY <2>3, <2>4
<1> QED
  BY <1>1, Invariance, PTL

\* The same of the day's spend, at any price per token.
THEOREM SpendOvershoot == Spec => []SpendOvershootBounded
<1>1. IInv => SpendOvershootBounded
  <2> SUFFICES ASSUME IInv, EnableBreaker, Budget > 0
               PROVE  Spend(daily) <= Budget - 1 + Spend(InFlight)
    BY DEF SpendOvershootBounded
  <2> DEFINE w == Price * PerAudit
  <2>1. Room(Spend(daily), Underway, Budget - 1, w)
    BY DEF IInv, SpendInv
  <2>2. Spend(daily) \in Int /\ Budget - 1 \in Int /\ Underway \in SUBSET Audits /\ w \in Nat
    BY BudgetAssumption, PerAuditIsNat DEF IInv, TInv, TypeOK, Underway, daily, Spend
  <2>3. Spend(daily) <= Budget - 1 + w * N
    <3> HIDE DEF w
    <3> QED
      BY <2>1, <2>2, WithinRoom
  <2>4. w * N = Spend(InFlight)
    <3>1. N \in Nat
      BY CardinalityOfSome
    <3>2. (Price * PerAudit) * N = Price * (N * PerAudit)
      BY <3>1, PerAuditIsNat, BudgetAssumption
    <3> QED
      BY <3>2 DEF Spend, InFlight, N, PerAudit
  <2> QED
    BY <2>3, <2>4
<1> QED
  BY <1>1, Invariance, PTL

\* The hour, the day and the spend pass their limits by the calls in flight at most, for any
\* number of audits, any limits and overrides.
THEOREM Overshoot == Spec => []OvershootBounded
<1>1. HourlyOvershootBounded /\ DailyOvershootBounded /\ SpendOvershootBounded => OvershootBounded
  BY DEF OvershootBounded
<1> QED
  BY <1>1, HourlyOvershoot, DailyOvershoot, SpendOvershoot, PTL

-----------------------------------------------------------------------------
Names == CostProfile \cup {NoProfile}
Desks == [profile : Names, hourly : Int, budget : Int, brake : BOOLEAN]

\* The profiles in force and shown are profiles, and what the windows hold are numbers.
CostTypeOK ==
    /\ env \in Environments /\ configured \in CostProfile
    /\ desk \in Desks
    /\ usage \in [hour : Nat, day : Nat, spend : Nat]
    /\ advice.target \in CostProfile

\* No advice leaves the profiles.
LEMMA AdviceIsProfile ==
    ASSUME NEW p \in CostProfile, NEW m
    PROVE  Recommended(p, m) \in CostProfile
BY DEF Recommended, CostProfile

\* A desk without overrides is a desk.
LEMMA NoDeskTyped == NoDesk \in Desks
  BY DEF NoDesk, Desks, Names, NotGiven

\* The types hold at every step of the desk and of the windows.
LEMMA CostInvariant == CostSpec => []CostTypeOK
<1>1. CostInit => CostTypeOK
  <2> SUFFICES ASSUME CostInit PROVE CostTypeOK
    OBVIOUS
  <2>1. env \in Environments /\ configured \in CostProfile
    BY CostAssumption DEF CostInit
  <2>2. desk \in Desks
    BY NoDeskTyped DEF CostInit
  <2>3. usage \in [hour : Nat, day : Nat, spend : Nat] /\ advice.target \in CostProfile
    BY DEF CostInit, NoAdvice, CostProfile
  <2> QED BY <2>1, <2>2, <2>3 DEF CostTypeOK
<1>2. CostTypeOK /\ [CostNext]_costVars => CostTypeOK'
  <2> SUFFICES ASSUME CostTypeOK, [CostNext]_costVars PROVE CostTypeOK'
    OBVIOUS
  <2>1. CASE Advise
    <3>1. advice'.target = Recommended(configured, Metrics)
      BY <2>1 DEF Advise, Recommendation
    <3>2. Recommended(configured, Metrics) \in CostProfile
      BY AdviceIsProfile DEF CostTypeOK
    <3> QED BY <2>1, <3>1, <3>2 DEF Advise, CostTypeOK
  <2>2. CASE Apply
    BY <2>2 DEF Apply, CostTypeOK, Desks, Names
  <2>3. CASE EmergencyStop
    BY <2>3 DEF EmergencyStop, CostTypeOK, Desks
  <2>4. CASE Resume
    BY <2>4 DEF Resume, CostTypeOK, Desks
  <2>5. CASE Windows
    BY <2>5, CostAssumption DEF Windows, CostTypeOK
  <2>6. CASE StartAgain
    <3>1. NoAdvice.target \in CostProfile
      BY DEF NoAdvice, CostProfile
    <3>2. env.profile \in CostProfile
      BY CostAssumption DEF CostTypeOK
    <3> QED BY <2>6, <3>1, <3>2, NoDeskTyped DEF StartAgain, CostTypeOK
  <2>7. ASSUME NEW b \in Budgets \cup {NotGiven}, NEW h \in HourlyLimits \cup {NotGiven},
               NEW p \in CostProfile \cup {NoProfile}, SetBudget(b, h, p)
        PROVE  CostTypeOK'
    <3>1. desk \in Desks /\ p \in Names /\ 10000 * 1000 \in Int
      BY DEF CostTypeOK, Names
    <3>4. (IF p = NoProfile THEN desk.profile ELSE p) \in Names /\ desk.brake \in BOOLEAN
      BY <3>1 DEF Desks
    <3>5. desk.hourly \in Int /\ desk.budget \in Int
      BY <3>1 DEF Desks
    <3>6. h # NotGiven => Clamped(h, 1000, 10000 * 1000) \in Int
      BY <3>1, CostAssumption DEF Clamped
    <3>7. b # NotGiven => Clamped(b, 0, 50000) \in Int
      BY CostAssumption DEF Clamped
    <3>2. /\ (IF h = NotGiven THEN desk.hourly ELSE Clamped(h, 1000, 10000 * 1000)) \in Int
          /\ (IF b = NotGiven THEN desk.budget ELSE Clamped(b, 0, 50000)) \in Int
      BY <3>5, <3>6, <3>7
    <3>3. desk' \in Desks
      BY <2>7, <3>2, <3>4 DEF SetBudget, Desks
    <3> QED BY <2>7, <3>3 DEF SetBudget, CostTypeOK
  <2>8. ASSUME NEW name \in CostProfile \cup {"lean", "active", "voracious"}, SetOperationalProfile(name)
        PROVE  CostTypeOK'
    BY <2>8 DEF SetOperationalProfile, CostTypeOK, CostProfile
  <2>9. CASE UNCHANGED costVars
    BY <2>9 DEF costVars, CostTypeOK
  <2> QED BY <2>1, <2>2, <2>3, <2>4, <2>5, <2>6, <2>7, <2>8, <2>9 DEF CostNext
<1> QED BY <1>1, <1>2, PTL DEF CostSpec

\* A check under the offline profile asks for more than the day has, and one under the brake
\* finds the breaker tripped.
LEMMA OfflineHolds == CostTypeOK => OfflineIsOffline
<1> SUFFICES ASSUME CostTypeOK, NEW b \in Brought, NEW e \in Estimates,
                    \/ Effective(b) = "offline"
                       /\ (env.daily = Defaults.daily \/ b # NoProfile \/ desk.profile \in CostProfile)
                    \/ desk.brake
             PROVE  ~Calls(Limits(b), e)
  BY DEF OfflineIsOffline
<1>1. CASE desk.brake
  BY <1>1 DEF Calls, CheckBudget, BreakerTripped
<1>2. CASE /\ Effective(b) = "offline"
           /\ (env.daily = Defaults.daily \/ b # NoProfile \/ desk.profile \in CostProfile)
  <2>1. Limits(b).daily = 1
    <3>1. CASE b # NoProfile
      BY <1>2, <3>1 DEF Effective, Limits, Preset
    <3>2. CASE b = NoProfile /\ desk.profile \in CostProfile
      BY <1>2, <3>2 DEF Effective, Limits, Preset
    <3>3. CASE b = NoProfile /\ desk.profile \notin CostProfile
      <4>1. configured = "offline" /\ env.daily = Defaults.daily
        BY <1>2, <3>3 DEF Effective
      <4>2. GetProfileConfig.daily = Preset(configured).daily
        BY <4>1 DEF GetProfileConfig, Defaults
      <4> QED BY <3>3, <4>1, <4>2 DEF Limits, Preset
    <3> QED BY <3>1, <3>2, <3>3
  <2>2. e \in Nat /\ e >= 1000 /\ usage.day \in Nat
    BY CostAssumption DEF CostTypeOK
  <2>3. ~CheckBudget(Limits(b), e)
    BY <2>1, <2>2 DEF CheckBudget
  <2> QED BY <2>3 DEF Calls
<1> QED BY <1>1, <1>2

\* Under a steady load three steps of advice are enough, from wherever.
LEMMA ComesToRest ==
    ASSUME NEW p \in CostProfile, NEW m \in [trips : Nat, hours : Nat, deferred : Nat, long : Nat,
                                              spend : Nat, adoption : Nat],
           m.deferred < 20
    PROVE  Settles(Advised(m), p)
<1> DEFINE R == Advised(m)
<1>0. \A x \in CostProfile : R[x] = Recommended(x, m)
  BY DEF Advised
<1>1. m.trips \in Nat /\ m.hours \in Nat /\ m.deferred \in Nat
  OBVIOUS
<1>2. CASE m.trips >= 3 \/ m.hours >= 4
  <2>1. R["offline"] = "economy" /\ R["free"] = "economy" /\ R["economy"] = "balanced"
    BY <1>0, <1>2 DEF Recommended, CostProfile
  <2>2. R["ultra"] = "ultra"
    BY <1>0, <1>1, <1>2 DEF Recommended, CostProfile
  <2>3. R["balanced"] = "balanced" \/ R["balanced"] = "ultra"
    BY <1>0, <1>1, <1>2 DEF Recommended, CostProfile
  <2> HIDE DEF R
  <2>4. R[R[R[R[p]]]] = R[R[R[p]]]
    BY <2>1, <2>2, <2>3 DEF CostProfile
  <2> QED BY <2>4 DEF R, Settles
<1>3. CASE ~(m.trips >= 3 \/ m.hours >= 4)
  <2>1. R["offline"] = "offline" /\ R["free"] = "free" /\ R["economy"] = "economy"
    BY <1>0, <1>1, <1>3 DEF Recommended, CostProfile
  <2>2. R["balanced"] = "balanced" \/ R["balanced"] = "economy"
    BY <1>0, <1>1, <1>3 DEF Recommended, CostProfile
  <2>3. R["ultra"] = "ultra" \/ R["ultra"] = "balanced"
    BY <1>0, <1>1, <1>3 DEF Recommended, CostProfile
  <2> HIDE DEF R
  <2>4. R[R[R[R[p]]]] = R[R[R[p]]]
    BY <2>1, <2>2, <2>3 DEF CostProfile
  <2> QED BY <2>4 DEF R, Settles
<1> QED BY <1>2, <1>3

\* Whatever the desk overrides, whatever profile a caller brings and whatever the windows hold,
\* no caller under the offline profile calls a model, as long as the limit of the day is not that
\* of the environment (config.py:342): a check assumes a thousand tokens at least, and the day
\* has one.  And none calls once the brake is pulled.
THEOREM OfflineStaysOffline == CostSpec => []OfflineIsOffline
  BY CostInvariant, OfflineHolds, PTL

\* From every profile an operator can have in force, following the advice under any steady load
\* with fewer than twenty articles waiting comes to rest within three steps
\* (cost_optimizer.py:48-150).
THEOREM AdviceAlwaysComesToRest == CostSpec => []AdviceSettles
<1>1. CostTypeOK => AdviceSettles
  <2> SUFFICES ASSUME CostTypeOK, NEW m \in Loads, m.deferred < 20
               PROVE  Settles(Advised(m), Effective(NoProfile))
    BY DEF AdviceSettles
  <2>1. Effective(NoProfile) \in CostProfile
    BY DEF Effective, CostTypeOK, Desks, Names
  <2>2. m \in [trips : Nat, hours : Nat, deferred : Nat, long : Nat, spend : Nat, adoption : Nat]
    BY CostAssumption
  <2> QED BY <2>1, <2>2, ComesToRest
<1> QED BY <1>1, CostInvariant, PTL
=============================================================================

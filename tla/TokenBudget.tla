----------------------------- MODULE TokenBudget ------------------------------
(***************************************************************************)
(* The token governor (credence/pipeline/governor.py) and the audits that  *)
(* ask it before they call the model and tell it afterwards                *)
(* (evaluate_snapshot of credence/pipeline/evaluator.py), with the         *)
(* operator's emergency brake and hourly override                          *)
(* (credence/cache/distributed.py, in-memory store).                       *)
(*                                                                         *)
(* Audits are coroutines that interleave at every await.  The rolling      *)
(* windows are two totals: the tokens recorded within the last hour and    *)
(* the older ones of the last day.  Time moves tokens from the first to    *)
(* the second and out of it, any amount at a time.  Runtime overrides are  *)
(* one live object: a check reads them after its queries.                  *)
(***************************************************************************)
EXTENDS Integers, FiniteSets

CONSTANTS
    Audits,             \* audits that may run at the same time
    Pinned,             \* those whose caller passes a profile, like the daemon
    HourlyMax,          \* max_tokens_per_hour of the profile
    DailyMax,           \* max_tokens_per_day
    Budget,             \* max_daily_budget_usd, in the unit of Price
    Price,              \* price of a token
    Est,                \* tokens a check assumes an audit needs
    Responses,          \* tokens the satire call, or the swarm, may use
    MaxResponse,        \* the largest of them
    Overrides,          \* hourly limits an operator may set
    Ceiling,            \* the largest hourly limit in force
    EnableBreaker       \* settings.ENABLE_CIRCUIT_BREAKER

ASSUME BudgetAssumption ==
    /\ IsFiniteSet(Audits) /\ Pinned \subseteq Audits
    /\ HourlyMax \in Nat /\ DailyMax \in Nat /\ Budget \in Nat /\ Price \in Nat
    /\ Est \in Nat /\ MaxResponse \in Nat /\ Responses \subseteq 0..MaxResponse
    /\ Ceiling \in Nat /\ HourlyMax <= Ceiling /\ Overrides \subseteq 1..Ceiling
    /\ EnableBreaker \in BOOLEAN

VARIABLES
    hourly,     \* tokens recorded in the last hour
    older,      \* tokens recorded earlier in the last 24 hours
    brake,      \* emergency_brake_pulled
    override,   \* max_tokens_per_hour override, 0 if there is none
    pc,         \* what each audit does next
    seen,       \* the hourly total each audit read
    used        \* the tokens each audit has used and not recorded

vars == <<hourly, older, brake, override, pc, seen, used>>

Steps == {"idle", "day", "satire", "swarm", "record"}
Calling == {"satire", "swarm", "record"}

daily == hourly + older
Spend(tokens) == Price * tokens

Init ==
    /\ hourly = 0 /\ older = 0
    /\ brake = FALSE /\ override = 0
    /\ pc = [a \in Audits |-> "idle"]
    /\ seen = [a \in Audits |-> 0]
    /\ used = [a \in Audits |-> 0]

Goto(a, step) == pc' = [pc EXCEPT ![a] = step]

-----------------------------------------------------------------------------
\* get_token_headroom_status queries the hour first; the day's query is another await.
ReadHour(a) ==
    /\ pc[a] = "idle"
    /\ seen' = [seen EXCEPT ![a] = hourly]
    /\ Goto(a, "day")
    /\ UNCHANGED <<hourly, older, brake, override, used>>

\* A profile passed by the caller hides the operator's override.
HourlyLimit(a) == IF a \in Pinned \/ override = 0 THEN HourlyMax ELSE override

\* Mutant of Tripped: the spend is not compared.
TrippedByTokens(a) ==
    brake \/ (EnableBreaker /\ (seen[a] >= HourlyLimit(a) \/ daily >= DailyMax))

\* Mutant of Tripped: the brake is not asked.
TrippedByLimits(a) ==
    EnableBreaker /\ \/ seen[a] >= HourlyLimit(a)
                     \/ daily >= DailyMax
                     \/ Budget > 0 /\ Spend(daily) >= Budget

Tripped(a) ==
    \/ brake
    \/ EnableBreaker /\ \/ seen[a] >= HourlyLimit(a)
                        \/ daily >= DailyMax
                        \/ Budget > 0 /\ Spend(daily) >= Budget

BudgetAvailable(a) ==
    /\ ~Tripped(a)
    /\ seen[a] + Est <= HourlyLimit(a)
    /\ daily + Est <= DailyMax

\* Without budget the audit ends with offline heuristics; with it the satire prompt
\* is sent, and nothing is awaited in between.
Decide(a) ==
    /\ pc[a] = "day"
    /\ Goto(a, IF BudgetAvailable(a) THEN "satire" ELSE "idle")
    /\ seen' = [seen EXCEPT ![a] = 0]
    /\ UNCHANGED <<hourly, older, brake, override, used>>

\* The satire call returns and the swarm's calls are sent.
SatireReturns(a) ==
    /\ pc[a] = "satire"
    /\ \E n \in Responses : used' = [used EXCEPT ![a] = n]
    /\ Goto(a, "swarm")
    /\ UNCHANGED <<hourly, older, brake, override, seen>>

SwarmReturns(a) ==
    /\ pc[a] = "swarm"
    /\ \E n \in Responses : used' = [used EXCEPT ![a] = @ + n]
    /\ Goto(a, "record")
    /\ UNCHANGED <<hourly, older, brake, override, seen>>

Record(a) ==
    /\ pc[a] = "record"
    /\ hourly' = hourly + used[a]
    /\ used' = [used EXCEPT ![a] = 0]
    /\ Goto(a, "idle")
    /\ UNCHANGED <<older, brake, override, seen>>

\* An exception of a call, of parsing, or of the record's own commit (swallowed):
\* the tokens used are never recorded.
Unrecorded(a) ==
    /\ pc[a] \in Calling
    /\ used' = [used EXCEPT ![a] = 0]
    /\ Goto(a, "idle")
    /\ UNCHANGED <<hourly, older, brake, override, seen>>

-----------------------------------------------------------------------------
PullBrake == /\ ~brake /\ brake' = TRUE
             /\ UNCHANGED <<hourly, older, override, pc, seen, used>>

ReleaseBrake == /\ brake /\ brake' = FALSE
                /\ UNCHANGED <<hourly, older, override, pc, seen, used>>

SetOverride(n) == /\ override # n /\ override' = n
                  /\ UNCHANGED <<hourly, older, brake, pc, seen, used>>

\* Time passes.
LeaveHour(k) == /\ hourly' = hourly - k /\ older' = older + k
                /\ UNCHANGED <<brake, override, pc, seen, used>>

LeaveDay(k) == /\ older' = older - k
               /\ UNCHANGED <<hourly, brake, override, pc, seen, used>>

Audit(a) == ReadHour(a) \/ Decide(a) \/ SatireReturns(a) \/ SwarmReturns(a)
                \/ Record(a) \/ Unrecorded(a)

Next ==
    \/ \E a \in Audits : Audit(a)
    \/ PullBrake \/ ReleaseBrake
    \/ \E n \in Overrides : SetOverride(n)
    \/ \E k \in 1..hourly : LeaveHour(k)
    \/ \E k \in 1..older : LeaveDay(k)

Spec == Init /\ [][Next]_vars

\* The event loop runs every audit, and a call of the provider returns or raises.
Fairness == \A a \in Audits : WF_vars(Decide(a) \/ SatireReturns(a) \/ SwarmReturns(a)
                                          \/ Record(a) \/ Unrecorded(a))
FairSpec == Spec /\ Fairness

-----------------------------------------------------------------------------
TypeOK ==
    /\ hourly \in Nat /\ older \in Nat
    /\ brake \in BOOLEAN /\ override \in Overrides \union {0}
    /\ pc \in [Audits -> Steps]
    /\ seen \in [Audits -> Nat]
    /\ used \in [Audits -> 0..2 * MaxResponse]

\* The most the audits in flight can still add.
InFlight == Cardinality(Audits) * (2 * MaxResponse)

\* Checks and records are apart, so the limits are passed, but by no more than every
\* concurrent audit's calls: for the hour, though its total is read before the day's.
HourlyOvershootBounded == Est <= Ceiling => hourly <= Ceiling - Est + InFlight

\* ... for the day's tokens,
DailyOvershootBounded == Est <= DailyMax => daily <= DailyMax - Est + InFlight

\* ... and for the day's spend, which is compared without an estimate.
SpendOvershootBounded ==
    EnableBreaker /\ Budget > 0 => Spend(daily) <= Budget - 1 + Spend(InFlight)

\* The three together: checks and records are apart, so concurrent audits pass every limit,
\* and by no more than their calls in flight.
OvershootBounded == HourlyOvershootBounded /\ DailyOvershootBounded /\ SpendOvershootBounded

\* Once the brake is pulled for good, the calls that were under way end and no audit
\* calls the model again.
BrakeQuiesces == <>[]brake => <>[](\A a \in Audits : pc[a] \notin Calling)

-----------------------------------------------------------------------------
\* "Autonomous audits never exhaust shared API tokens" (governor.py:4).
NeverExhausted == hourly <= HourlyMax

\* "Immediately pull Emergency Brake, forcing 100% of audits into offline mode"
\* (distributed.py:92): no call is sent while the brake is pulled.
BrakeStopsCalls ==
    [][brake => \A a \in Audits :
           pc'[a] # pc[a] => pc'[a] \notin {"satire", "swarm"}]_vars

\* "Strict zero-spend budget" (config.py:89): a profile whose daily budget is zero
\* spends nothing.
ZeroBudgetSpendsNothing == Budget = 0 => Spend(daily) = 0
=============================================================================

------------------------------ MODULE CostProfiles ------------------------------
(***************************************************************************)
(* The operator's desk of the token governor: the profiles of config.py    *)
(* and the environment that changes them, the runtime overrides of         *)
(* cache/distributed.py (in-memory store), the limits that follow          *)
(* (get_token_headroom_status of pipeline/governor.py), and the advice of  *)
(* pipeline/cost_optimizer.py that the API shows and a tool applies.       *)
(* TokenBudget has the audits that spend; here the usage of the windows is *)
(* anything.  Budgets and spend are in cents.                              *)
(***************************************************************************)
EXTENDS Drivers

CONSTANTS
    Environments,   \* keys, driver, breaker, and the limits a node may be started with
    Usages,         \* tokens of the hour and the day, and the day's spend
    Budgets,        \* budgets an operator may set
    HourlyLimits,   \* hourly limits an operator may set
    Estimates,      \* tokens a check may assume: 1000 and more
    Loads           \* metrics the optimizer may be given

VARIABLES
    env,            \* the environment the process was started with
    configured,     \* settings.CREDENCE_PROFILE
    desk,           \* the runtime overrides, or NoProfile and NotGiven
    usage,          \* what the windows hold
    advice          \* the recommendation that was shown last, or NoAdvice
costVars == <<env, configured, desk, usage, advice>>

CostProfile == {"offline", "free", "economy", "balanced", "ultra"}

ASSUME CostAssumption ==
    /\ Environments \subseteq [keys : SUBSET STRING, target : STRING, profile : CostProfile,
                                hourly : Nat, daily : Nat, budget : Nat, breaker : BOOLEAN]
    /\ Usages \subseteq [hour : Nat, day : Nat, spend : Nat]
    /\ Budgets \subseteq Nat /\ HourlyLimits \subseteq Nat
    /\ \A e \in Estimates : e \in Nat /\ e >= 1000
    /\ Loads \subseteq [trips : Nat, hours : Nat, deferred : Nat, long : Nat, spend : Nat, adoption : Nat]

\* COST_PROFILES: tokens of an hour, of a day, and cents of a day.
Preset(p) ==
    CASE p = "offline" -> [hourly |-> 1, daily |-> 1, budget |-> 0]
      [] p = "free" -> [hourly |-> 50000, daily |-> 250 * 1000, budget |-> 0]
      [] p = "economy" -> [hourly |-> 50000, daily |-> 300 * 1000, budget |-> 15]
      [] p = "balanced" -> [hourly |-> 100 * 1000, daily |-> 1000 * 1000, budget |-> 50]
      [] p = "ultra" -> [hourly |-> 2000 * 1000, daily |-> 10000 * 1000, budget |-> 500]

\* A value of the environment that is the default of Settings changes nothing.
Defaults == [hourly |-> 50000, daily |-> 300 * 1000, budget |-> 15]
GetProfileConfig ==
    [f \in DOMAIN Defaults |-> IF env[f] # Defaults[f] THEN env[f] ELSE Preset(configured)[f]]

NoProfile == ""
NotGiven == -1
NoDesk == [profile |-> NoProfile, hourly |-> NotGiven, budget |-> NotGiven, brake |-> FALSE]
NoAdvice == [action |-> "none", target |-> "economy"]

CostInit ==
    /\ env \in Environments /\ configured = env.profile
    /\ desk = NoDesk /\ usage = [hour |-> 0, day |-> 0, spend |-> 0] /\ advice = NoAdvice

-----------------------------------------------------------------------------
\* The profile in force for a caller who brings one, as the sifter and the boredom daemon, the
\* API, the tools and the command line do (profile_override), or none.
Effective(brought) ==
    IF brought # NoProfile THEN brought
    ELSE IF desk.profile \in CostProfile THEN desk.profile ELSE configured

\* Its limits: those that are brought hide the desk and the environment.
Limits(brought) ==
    LET base == IF brought # NoProfile THEN Preset(brought)
                ELSE IF desk.profile \in CostProfile THEN Preset(desk.profile) ELSE GetProfileConfig
    IN  [hourly |-> IF brought = NoProfile /\ desk.hourly > 0 THEN desk.hourly ELSE base.hourly,
         daily |-> base.daily,
         budget |-> IF brought = NoProfile /\ desk.budget >= 0 THEN desk.budget ELSE base.budget]

Exceeded(limits) ==
    \/ usage.hour >= limits.hourly \/ usage.day >= limits.daily
    \/ limits.budget > 0 /\ usage.spend >= limits.budget

\* ENABLE_CIRCUIT_BREAKER is asked for the limits and not for the brake.
BreakerTripped(limits) == desk.brake \/ (env.breaker /\ Exceeded(limits))

\* throttle_active: less than a fifth of a window is left, or of the budget; with a budget of
\* zero, any spend.
Throttled(limits) ==
    /\ env.breaker /\ ~BreakerTripped(limits)
    /\ \/ 5 * usage.hour > 4 * limits.hourly \/ 5 * usage.day > 4 * limits.daily
       \/ IF limits.budget > 0 THEN 5 * usage.spend > 4 * limits.budget ELSE usage.spend > 0

\* Mutant of CheckBudget: the day is not asked.
CheckHour(limits, estimate) ==
    ~desk.brake /\ usage.hour + estimate <= limits.hourly

CheckBudget(limits, estimate) ==
    /\ ~BreakerTripped(limits)
    /\ usage.hour + estimate <= limits.hourly
    /\ usage.day + estimate <= limits.daily

\* evaluate_snapshot calls a model.
Calls(limits, estimate) ==
    HasActiveApiKey(env) /\ GetLlmProvider(env) # "none" /\ CheckBudget(limits, estimate)

-----------------------------------------------------------------------------
\* Mutant of Recommended: trips do not keep a profile from being lowered.
RecommendedDespiteTrips(p, m) ==
    IF (m.trips >= 3 \/ m.hours >= 4 \/ m.deferred >= 20) /\ p \in {"offline", "free"} THEN "economy"
    ELSE IF (m.trips >= 3 \/ m.hours >= 4 \/ m.deferred >= 20) /\ p = "economy" THEN "balanced"
    ELSE IF p = "ultra" /\ 100 * m.spend < 15 * Preset(p).budget THEN "balanced"
    ELSE IF p = "balanced" /\ (m.spend < 10 \/ m.adoption >= 85) THEN "economy"
    ELSE p

\* evaluate_cost_profile_recommendation: one step up under pressure, else one down in calm.
Recommended(p, m) ==
    LET pressure == m.trips >= 3 \/ m.hours >= 4 \/ m.deferred >= 20
        calm == m.trips = 0 /\ m.hours = 0
    IN  IF pressure /\ p \in {"offline", "free"} THEN "economy"
        ELSE IF pressure /\ p = "economy" THEN "balanced"
        ELSE IF pressure /\ p = "balanced" /\ (m.long >= 30 \/ m.deferred >= 50) THEN "ultra"
        ELSE IF calm /\ p = "ultra" /\ 100 * m.spend < 15 * Preset(p).budget THEN "balanced"
        ELSE IF calm /\ p = "balanced" /\ (m.spend < 10 \/ m.adoption >= 85) THEN "economy"
        ELSE p

Rank(p) == CASE p = "offline" -> 0 [] p = "free" -> 1 [] p = "economy" -> 2 [] p = "balanced" -> 3 [] OTHER -> 4
Recommendation(p, m) ==
    LET target == Recommended(p, m) IN
    [target |-> target, action |-> IF target = p THEN "OPTIMAL"
                                   ELSE IF Rank(target) > Rank(p) THEN "UPGRADE" ELSE "DOWNGRADE"]

\* The metrics the API and the tool give it, for the profile of the settings.
Metrics == [trips |-> IF BreakerTripped(Limits(NoProfile)) THEN 1 ELSE 0,
            hours |-> IF Throttled(Limits(NoProfile)) THEN 2 ELSE 0,
            deferred |-> 0, long |-> 0, spend |-> usage.spend, adoption |-> 0]

Advise ==
    /\ advice' = Recommendation(configured, Metrics)
    /\ UNCHANGED <<env, configured, desk, usage>>

-----------------------------------------------------------------------------
Clamped(n, low, high) == IF n < low THEN low ELSE IF n > high THEN high ELSE n

\* set_runtime_budget_override: what is not given stays as it was, and nothing removes it.
SetBudget(budget, hourly, p) ==
    /\ desk' = [profile |-> IF p = NoProfile THEN desk.profile ELSE p,
                hourly |-> IF hourly = NotGiven THEN desk.hourly ELSE Clamped(hourly, 1000, 10000 * 1000),
                budget |-> IF budget = NotGiven THEN desk.budget ELSE Clamped(budget, 0, 50000),
                brake |-> desk.brake]
    /\ UNCHANGED <<env, configured, usage, advice>>

\* credence_apply_cost_recommendation, with the target that was shown.
Apply ==
    /\ advice # NoAdvice
    /\ desk' = [desk EXCEPT !.profile = advice.target]
    /\ UNCHANGED <<env, configured, usage, advice>>

\* api_set_operational_profile, by the profile or by the hunger that stands for it.
SetOperationalProfile(name) ==
    /\ configured' = CASE name = "lean" -> "economy" [] name = "active" -> "balanced"
                       [] name = "voracious" -> "ultra" [] OTHER -> name
    /\ UNCHANGED <<env, desk, usage, advice>>

EmergencyStop == /\ ~desk.brake /\ desk' = [desk EXCEPT !.brake = TRUE]
                 /\ UNCHANGED <<env, configured, usage, advice>>

Resume == /\ desk.brake /\ desk' = [desk EXCEPT !.brake = FALSE]
          /\ UNCHANGED <<env, configured, usage, advice>>

\* Audits spend and time passes.
Windows == /\ usage' \in Usages
           /\ UNCHANGED <<env, configured, desk, advice>>

\* The settings are read again, and the store of a process ends with it.
StartAgain == /\ configured' = env.profile /\ desk' = NoDesk /\ advice' = NoAdvice
              /\ UNCHANGED <<env, usage>>

CostNext ==
    \/ Advise \/ Apply \/ EmergencyStop \/ Resume \/ Windows \/ StartAgain
    \/ \E b \in Budgets \cup {NotGiven}, h \in HourlyLimits \cup {NotGiven},
         p \in CostProfile \cup {NoProfile} : SetBudget(b, h, p)
    \/ \E name \in CostProfile \cup {"lean", "active", "voracious"} : SetOperationalProfile(name)

CostSpec == CostInit /\ [][CostNext]_costVars

-----------------------------------------------------------------------------
(***************************************************************************)
(* A caller under the offline profile calls no model, whether it brings    *)
(* the profile or has it from the desk or the settings, and nobody calls   *)
(* once the brake is pulled, though the hour's limit may be raised by an   *)
(* override, the breaker disabled and a budget of zero is not asked.  It   *)
(* rests on the limit of the day: so, for who has the profile from the     *)
(* settings, on MAX_TOKENS_PER_DAY being left alone (config.py:342).       *)
(***************************************************************************)
Brought == CostProfile \cup {NoProfile}
OfflineIsOffline ==
    \A b \in Brought, e \in Estimates :
        \/ Effective(b) = "offline"
           /\ (env.daily = Defaults.daily \/ b # NoProfile \/ desk.profile \in CostProfile)
        \/ desk.brake
        => ~Calls(Limits(b), e)

(***************************************************************************)
(* An operator who follows the advice under a steady load comes to rest: up*)
(* and down never alternate, as long as fewer than twenty articles wait    *)
(* (cost_optimizer.py:48-150).                                             *)
(***************************************************************************)
Advised(m) == [p \in CostProfile |-> Recommended(p, m)]
Settles(next, p) == next[next[next[next[p]]]] = next[next[next[p]]]
AdviceSettles == \A m \in Loads : m.deferred < 20 => Settles(Advised(m), Effective(NoProfile))

\* Not so, with twenty: a calm node with a backlog is sent up and down for ever.
AdviceAlwaysSettles == \A m \in Loads : Settles(Advised(m), Effective(NoProfile))

\* Not so: an upgrade grants what was granted before (cost_optimizer.py:48): the free profile
\* has no budget that is enforced, the economy profile one of 15 cents.
UpgradesRelax ==
    LET p == Effective(NoProfile) IN
    \A m \in Loads : Recommendation(p, m).action = "UPGRADE" =>
        \A e \in Estimates : CheckBudget(Preset(p), e) => CheckBudget(Preset(Recommended(p, m)), e)

\* Not so: the advice is about the profile in force (cost_tools.py:51): what was applied at the
\* desk is not seen by the advice.
AdviceSeesDesk == advice # NoAdvice /\ advice.action = "OPTIMAL" => advice.target = Effective(NoProfile)

\* Not so: a caller without a profile of its own, under the offline one, calls no model
\* (config.py:73): the limit of the day may be that of the environment.
OfflineAlways == Effective(NoProfile) = "offline" => \A e \in Estimates : ~Calls(Limits(NoProfile), e)

\* Not so: a node that was set to the offline profile calls no model (config.py:70): the sifter
\* and the boredom daemon bring BALANCED, whatever the settings and the desk say.
OfflineNode ==
    (configured = "offline" /\ desk.profile \in {NoProfile, "offline"}) =>
        \A b \in {NoProfile, "balanced"}, e \in Estimates : ~Calls(Limits(b), e)

\* Not so, see Drivers.
DriversServe == DriverServes(env) /\ NamedIsCalled(env)

\* So it is, and not meant: a node is never advised to upgrade, however often it trips
\* (cost.py:45-49 gives one trip and two hours at most; three and four are asked for).
NeverUpgrades == advice.action # "UPGRADE"
================================================================================

---------------------------- MODULE MCTokenBudget -----------------------------
(***************************************************************************)
(* TokenBudget for TLC: limits in units of a few hundred tokens, two       *)
(* audits, one of them pinned to its profile.  And the operator's desk,    *)
(* with the real profiles, for nodes started without a key, with a key     *)
(* of Gemini, and with a limit of the day in the environment.  And two     *)
(* processes that start on one database.  The three share no state; each   *)
(* moves while the others are as they began, the processes on a database   *)
(* that is complete: nothing that fairness asks for is left to do there.   *)
(***************************************************************************)
EXTENDS TokenBudget, CostProfiles, Startup

MCOverrides == {3, 5}

Env(keys, target, day, breaker) ==
    [keys |-> keys, target |-> target, profile |-> "economy",
     hourly |-> 50000, daily |-> day, budget |-> 15, breaker |-> breaker]
MCEnvironments == {Env({"ANTHROPIC_API_KEY"}, "", 300000, TRUE), Env({"GEMINI_API_KEY"}, "", 300000, FALSE),
                   Env({"GEMINI_API_KEY", "VERTEX_BEARER_TOKEN"}, "gemini", 600000, TRUE)}
Used(hour, day, spend) == [hour |-> hour, day |-> day, spend |-> spend]
MCUsages == {Used(0, 0, 0), Used(0, 0, 16), Used(45000, 90000, 14), Used(60000, 200000, 40), Used(0, 1000000, 500)}
MCLoads == [trips: {0, 1, 3}, hours: {0, 4}, deferred: {0, 20, 50}, long: {0, 40}, spend: {0, 16, 80}, adoption: {0, 90}]

MCTableOrder == <<"feedsubscription", "domainreputation", "audit">>
MCNeeded == [t \in Range(MCTableOrder) |->
    CASE t = "feedsubscription" -> <<"is_sentinel", "sentinel_interval_seconds">>
      [] t = "domainreputation" -> <<"is_sentinel">>
      [] OTHER -> <<"evaluation_model", "taxonomy_root_hash", "sourcing_ratios_json">>]

NoStartup == StartupInit /\ schema = Current /\ keyFile # Absent
MCInit == Init /\ CostInit /\ StartupInit
MCNext ==
    \/ CostInit /\ NoStartup /\ Next /\ UNCHANGED <<costVars, startupVars>>
    \/ Init /\ NoStartup /\ CostNext /\ UNCHANGED <<vars, startupVars>>
    \/ Init /\ CostInit /\ StartupNext /\ UNCHANGED <<vars, costVars>>
MCSpec == MCInit /\ [][MCNext]_<<vars, costVars, startupVars>> /\ Fairness /\ StartupFairness
=============================================================================

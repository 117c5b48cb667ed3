-------------------------------- MODULE Drivers --------------------------------
(***************************************************************************)
(* The model drivers (credence/pipeline/adapters.py), the price of a call  *)
(* and the key that lets a node call at all (credence/pipeline/governor.py *)
(* ).  An environment has the variables that are set and the driver named  *)
(* by CREDENCE_LLM_PROVIDER, or "".  A reply has a status, the length of   *)
(* its text and the usage it states, -1 where it states none.              *)
(***************************************************************************)
EXTENDS Integers, FiniteSets

\* get_llm_provider: a token of Vertex decides before the name does; any other driver is
\* named, or has its variable set when none is named; Gemini is what remains.
GetLlmProvider(env) ==
    LET asked(name, key) == env.target = name \/ (env.target = "" /\ key \in env.keys) IN
    IF env.target = "vertex" \/ "VERTEX_BEARER_TOKEN" \in env.keys THEN "vertex"
    ELSE IF asked("anthropic", "ANTHROPIC_API_KEY") THEN "anthropic"
    ELSE IF asked("openai", "OPENAI_API_KEY") THEN "openai"
    ELSE IF asked("ollama", "OLLAMA_BASE_URL") THEN "ollama"
    ELSE IF "GEMINI_API_KEY" \in env.keys THEN "gemini"
    ELSE "none"

ModelOf(provider) ==
    CASE provider = "gemini" -> "gemini-3.7-flash"
      [] provider = "anthropic" -> "claude-3-7-sonnet-20250219"
      [] provider = "openai" -> "gpt-4o"
      [] provider = "ollama" -> "llama3.3:70b"
      [] OTHER -> "meta/llama-3.3-70b-instruct-maas"

\* get_active_api_key: the governor asks for a key of Gemini, whatever driver would be called.
HasActiveApiKey(env) == "GEMINI_API_KEY" \in env.keys

\* The variable without which `generate` raises; gcloud may lend Vertex a token.
Needs(provider) ==
    CASE provider = "gemini" -> {"GEMINI_API_KEY"}
      [] provider = "anthropic" -> {"ANTHROPIC_API_KEY"}
      [] provider = "openai" -> {"OPENAI_API_KEY"}
      [] provider = "vertex" -> {"VERTEX_BEARER_TOKEN"}
      [] OTHER -> {}

Error == [prompt |-> 0, completion |-> 0, thinking |-> 0, ok |-> FALSE]

\* generate: anything but a 200 raises; a usage that is not stated is a quarter of the
\* characters; Gemini states its thinking, and no other model that GetLlmProvider makes thinks
\* (Vertex would count the budget of an r1 model, which ModelOf has not).
Generate(provider, env, length, reply) ==
    IF ~(Needs(provider) \subseteq env.keys) \/ reply.status # 200 THEN Error
    ELSE [prompt |-> IF reply.prompt >= 0 THEN reply.prompt ELSE length \div 4,
          completion |-> IF reply.completion >= 0 THEN reply.completion ELSE reply.text \div 4,
          thinking |-> IF provider = "gemini" /\ reply.thinking >= 0 THEN reply.thinking ELSE 0,
          ok |-> TRUE]

\* MODEL_PRICING_PER_MILLION, in thousandths of a dollar for a million tokens; a model that is
\* not listed has the price of gemini-3.7-flash.  Thinking costs what a completion does.
PriceOf(model) ==
    CASE model \in {"gemini-2.5-flash-lite", "gemini-2.0-flash-lite"} -> [prompt |-> 75, completion |-> 300]
      [] model = "gemini-2.0-flash" -> [prompt |-> 100, completion |-> 400]
      [] model = "gemini-1.5-pro" -> [prompt |-> 1250, completion |-> 5000]
      [] OTHER -> [prompt |-> 150, completion |-> 600]

\* compute_call_cost, in thousand-millionths of a dollar.
ComputeCallCost(model, call) ==
    PriceOf(model).prompt * call.prompt + PriceOf(model).completion * (call.completion + call.thinking)

-----------------------------------------------------------------------------
\* Not so: a node with a driver calls it (adapters.py:3-8 list five): without a key of Gemini
\* evaluate_snapshot preserves the quota (evaluator.py:84), whatever driver is configured.
DriverServes(env) ==
    LET p == GetLlmProvider(env) IN
    (p # "none" /\ Needs(p) \subseteq env.keys) => HasActiveApiKey(env)

\* Not so: the driver that is named is the one called (adapters.py:393): a token of Vertex
\* is stronger than the name.
NamedIsCalled(env) == env.target # "" => GetLlmProvider(env) \in {env.target, "none"}
================================================================================

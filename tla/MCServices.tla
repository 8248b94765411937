----------------------------- MODULE MCServices -----------------------------
(***************************************************************************)
(* The parts that talk to the outside: model services, the chat, RPC       *)
(* clients, extensions, and the choice of the provider.  They share no     *)
(* state, each behaviour is one of one of them.                            *)
(***************************************************************************)
EXTENDS ProviderCall, TelegramBot, RpcServer, ProviderSelect, Extensions

CONSTANTS e1, e2, e3

VARIABLE focus

-----------------------------------------------------------------------------
Load(p, st, s, q, n) == [prompts |-> p, steered |-> st, sessions |-> s, questions |-> q, modes |-> n]
RpcLoads == {Load(2, 0, 0, 0, 0), Load(1, 1, 1, 0, 0), Load(0, 0, 0, 2, 0), Load(1, 1, 0, 1, 0),
             Load(1, 0, 0, 0, 1)}

Env(p, model, own, stored) ==
  [provider |-> p, model |-> model, copilotApi |-> "", cloudflareApi |-> "", ownKeys |-> own,
   sharedKey |-> FALSE, stored |-> stored, located |-> {}, thinking |-> ""]
Envs ==
  {Env(p, "", {p}, {"github-copilot", "google"}) : p \in ProviderNames \cup {"", "unknown"}}
  \cup
  {[Env("", "vendor/chat", {"openai"}, {"openai-codex"}) EXCEPT !.sharedKey = TRUE],
   [Env("openai-codex", "", {}, {}) EXCEPT !.sharedKey = TRUE, !.located = {"radius", "google-vertex"}],
   [Env("github-copilot", "gpt-5", {}, {"github-copilot"}) EXCEPT !.copilotApi = "anthropic-messages"],
   [Env("cloudflare-ai-gateway", "", {}, {}) EXCEPT !.cloudflareApi = "openai-responses", !.thinking = "low"]}

File(p, model) == [provider |-> p, model |-> model, thinking |-> "high", retry |-> TRUE]
Files == {File("", ""), File("openai", ""), File("radius", "auto"), File("openai-codex", "gpt-5")}

AskedFor == {<<"github-copilot", "claude">>, <<"github-copilot", "gpt-5">>, <<"google", "">>,
             <<"fireworks", "fireworks-anthropic">>, <<"amazon-bedrock", "">>, <<"openai", "gpt-5">>}

Cats == {[openai |-> <<"gpt-5", "gpt-4", "gpt-3">>, google |-> <<"gemini", "gemma">>],
         ("radius" :> <<"auto", "fast">> @@ "amazon-bedrock" :> <<"claude", "nova">>
          @@ "github-copilot" :> <<"chat", "claude", "gpt-5">> @@ "openai" :> <<>>)}

FoundFiles == <<e1, e2, e1, e3>>

\* Of a chat's updates one at most is neither a prompt nor a stop.
FewOthers == Cardinality({u \in UpdateIds : updates[u] \in {"toggle", "foreign", "file"}}) <= 1

\* Nothing tells one connection, or one tool call, from another.
Alike == Permutations(Client) \cup Permutations(ToolCall)

-----------------------------------------------------------------------------
(* One initial state for the components that stand still.                   *)
Still ==
  /\ focus # "call" => wire = "google"
  /\ focus # "rpc" => load = Load(2, 0, 0, 0, 0)
  /\ focus # "select" => /\ env.provider = "openai" /\ settings = File("", "")
                         /\ "google" \in DOMAIN catalog /\ ~endless
  /\ focus # "extensions" => trusted /\ hasUi

ServicesInit ==
  /\ focus \in {"call", "bot", "rpc", "select", "extensions"}
  /\ CallInit /\ BotInit /\ RpcInit /\ SelectInit /\ ExtensionsInit
  /\ Still

ServicesNext ==
  \/ focus = "call" /\ CallNext /\ UNCHANGED <<focus, botVars, rpcVars, selectVars, extVars>>
  \/ focus = "bot" /\ BotNext /\ UNCHANGED <<focus, callVars, rpcVars, selectVars, extVars>>
  \/ focus = "rpc" /\ RpcNext /\ UNCHANGED <<focus, callVars, botVars, selectVars, extVars>>
  \/ focus = "select" /\ SelectNext /\ UNCHANGED <<focus, callVars, botVars, rpcVars, extVars>>
  \/ focus = "extensions" /\ ExtensionsNext /\ UNCHANGED <<focus, callVars, botVars, rpcVars, selectVars>>

servicesVars == <<focus, callVars, botVars, rpcVars, selectVars, extVars>>

ServicesSpec == ServicesInit /\ [][ServicesNext]_servicesVars

(* The component that works has the shape its code expects.                 *)
ServicesTypeOK ==
  /\ focus = "call" => CallTypeOK
  /\ focus = "bot" => BotTypeOK
  /\ focus = "rpc" => RpcTypeOK
  /\ focus = "select" => SelectTypeOK
  /\ focus = "extensions" => ExtensionsTypeOK
=============================================================================

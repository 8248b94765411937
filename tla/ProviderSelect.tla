------------------------------ MODULE ProviderSelect ------------------------------
(***************************************************************************)
(* Which provider client a process uses (internal/provider/config.go): it  *)
(* is made from the environment, changed by the settings, and replaced by  *)
(* the commands of the RPC server (set_model, cycle_model, ...) while      *)
(* turns run.  A client is a value: every change makes a new one.          *)
(*                                                                         *)
(* cycle_model first lists the models of the service, page by page.        *)
(***************************************************************************)
EXTENDS Integers, Sequences, SequencesExt, FiniteSets, Functions

CONSTANTS
  Environments,   \* what the environment and the credential file say
  SettingsFiles,  \* [provider, model, thinking, retry] of the settings
  Selections,     \* <<provider, model>> that set_model is asked for
  Catalogs,       \* per behaviour: provider -> the models its service has
  PageLimit,      \* pages of one listing (the code: 100)
  MaxCommands     \* bound

ASSUME SelectAssumption == PageLimit \in Nat \ {0} /\ MaxCommands \in Nat

VARIABLES
  env,         \* the environment
  settings,    \* the settings file
  catalog,     \* the models of the services
  client,      \* Runner.Provider
  phase,       \* "boot", "ready", "listing" or "listed"
  listed,      \* the models listed so far
  endless,     \* the service always says that there is more
  pages,
  busy,        \* a turn of the conversation runs
  commands

selectVars == <<env, settings, catalog, client, phase, listed, endless, pages, busy, commands>>

-----------------------------------------------------------------------------
(* Clients.                                                                 *)

ResponsesNames == {"openai", "xai", "openai-responses", "azure-openai-responses", "openai-codex"}
AnthropicNames == {"anthropic", "minimax", "minimax-cn", "vercel-ai-gateway", "kimi-coding"}
GoogleNames    == {"google", "google-vertex"}
GenericNames   == {"groq", "openrouter", "fireworks"}  \* of the many that are alike
OtherNames     == {"radius", "amazon-bedrock", "github-copilot",
                   "cloudflare-workers-ai", "cloudflare-ai-gateway"}
ProviderNames  == ResponsesNames \cup AnthropicNames \cup GoogleNames \cup GenericNames \cup OtherNames

DefaultModel(name) ==
  CASE name = "radius" -> "auto"
    [] name \in {"amazon-bedrock", "anthropic", "vercel-ai-gateway"} -> "claude"
    [] name \in {"openai", "openai-codex", "xai"} -> "gpt-5"
    [] name \in GoogleNames -> "gemini"
    [] OTHER -> "chat"

Protocol(api) ==
  CASE api = "openai-responses" -> "responses"
    [] api = "anthropic-messages" -> "anthropic"
    [] OTHER -> "completions"

\* What the embedded catalog says of a Copilot model.
CatalogApi(model) == IF model = "claude" THEN "anthropic-messages"
                     ELSE IF model = "gpt-5" THEN "openai-responses" ELSE ""

copilotConfigured(e, model) ==
  Protocol(IF e.copilotApi # "" THEN e.copilotApi ELSE CatalogApi(model))

WireOf(e, name, model) ==
  CASE name \in ResponsesNames -> "responses"
    [] name \in AnthropicNames -> "anthropic"
    [] name \in GoogleNames -> "google"
    [] name = "radius" -> "messages"
    [] name = "amazon-bedrock" -> "bedrock"
    [] name = "github-copilot" -> copilotConfigured(e, model)
    [] name = "cloudflare-ai-gateway" -> Protocol(e.cloudflareApi)
    [] name = "fireworks" /\ model = "fireworks-anthropic" -> "anthropic"
    [] OTHER -> "completions"

NoKey == [from |-> "none", owner |-> ""]

\* The provider's own variable, for some the shared one, or the credential
\* file.
KeyFor(e, name, shared) ==
  LET own == IF name = "openai-responses" THEN "openai" ELSE name
  IN IF own \in e.ownKeys THEN [from |-> "own", owner |-> own]
     ELSE IF shared /\ e.sharedKey THEN [from |-> "shared", owner |-> ""]
     ELSE IF name \in e.stored THEN [from |-> "stored", owner |-> name]
     ELSE NoKey

ResolveKey(e, name) == KeyFor(e, name, name \in GenericNames)

Built(e, wire, name, model, key) ==
  [wire |-> wire, name |-> name, model |-> model, key |-> key,
   thinking |-> e.thinking, retries |-> 0]

Unbuilt == [error |-> TRUE]

Usable(e, name) ==
  CASE name \in {"radius", "google-vertex"} -> name \in e.located
    [] name = "openai-codex" -> ResolveKey(e, name) # NoKey
    [] OTHER -> name \in ProviderNames

NewConfigured(e, name, model) ==
  LET m == IF model = "" THEN DefaultModel(name) ELSE model
  IN IF Usable(e, name) THEN Built(e, WireOf(e, name, m), name, m, ResolveKey(e, name)) ELSE Unbuilt

\* The chat completions client for whatever was named.
NewFromEnv(e) ==
  LET name == IF e.provider # "" THEN e.provider
              ELSE IF e.model = "vendor/chat" THEN "openrouter" ELSE "openai"
      shared == name \notin {"cloudflare-workers-ai", "cloudflare-ai-gateway"}
  IN Built(e, "completions", name, IF e.model = "" THEN "chat" ELSE e.model,
           KeyFor(e, name, shared))

ConfiguredFromEnv(e) ==
  IF \/ e.provider \in {"", "kimi-coding", "cloudflare-workers-ai", "cloudflare-ai-gateway"} \cup GenericNames
     \/ e.provider \notin ProviderNames
     \/ e.provider = "openai-codex" /\ ResolveKey(e, e.provider) = NoKey
  THEN NewFromEnv(e)
  ELSE LET m == IF e.model = "" THEN DefaultModel(e.provider) ELSE e.model
       IN Built(e, WireOf(e, e.provider, m), e.provider, m, ResolveKey(e, e.provider))

Adjustable(c) == c.wire \notin {"messages", "bedrock"}

SetModel(c, model) == [c EXCEPT !.model = model]
SetThinkingLevel(c, level) == IF Adjustable(c) THEN [c EXCEPT !.thinking = level] ELSE c
SetRetryEnabled(c, enabled) ==
  IF ~Adjustable(c) THEN c
  ELSE [c EXCEPT !.retries = IF ~enabled THEN 0 ELSE IF @ = 0 THEN 3 ELSE @]

-----------------------------------------------------------------------------
SelectInit ==
  /\ env \in Environments /\ settings \in SettingsFiles /\ catalog \in Catalogs
  /\ client = ConfiguredFromEnv(env)
  /\ phase = "boot" /\ listed = <<>> /\ endless \in BOOLEAN /\ pages = 0
  /\ busy = FALSE /\ commands = 0

\* Runner.ApplySettings: what the environment names is not overridden, what
\* cannot be configured is left.
ApplySettings ==
  LET chosen == IF env.provider # "" \/ settings.provider = "" THEN Unbuilt
                ELSE NewConfigured(env, settings.provider, settings.model)
      c1 == IF chosen = Unbuilt THEN client ELSE chosen
      c2 == IF env.model = "" /\ settings.model # "" THEN SetModel(c1, settings.model) ELSE c1
      c3 == IF env.thinking = "" /\ settings.thinking # "" THEN SetThinkingLevel(c2, settings.thinking) ELSE c2
  IN /\ phase = "boot"
     /\ client' = IF settings.retry THEN SetRetryEnabled(c3, TRUE) ELSE c3
     /\ phase' = "ready"
     /\ UNCHANGED <<env, settings, catalog, listed, endless, pages, busy, commands>>

Turn ==
  /\ phase # "boot"
  /\ busy' = ~busy
  /\ UNCHANGED <<env, settings, catalog, client, phase, listed, endless, pages, commands>>

Command ==
  /\ phase = "ready" /\ commands < MaxCommands
  /\ commands' = commands + 1

\* mutant: the client is kept for any provider
CommandSetModelKeepsClient(name, model) ==
  /\ Command /\ ~busy
  /\ client' = [client EXCEPT !.name = name, !.model = model]
  /\ UNCHANGED <<env, settings, catalog, phase, listed, endless, pages, busy>>

\* The same provider keeps its client; its wire is not looked up again.
CommandSetModel(name, model) ==
  /\ Command /\ ~busy
  /\ LET c == IF name = client.name THEN SetModel(client, model) ELSE NewConfigured(env, name, model)
     IN client' = IF c = Unbuilt THEN client ELSE c
  /\ UNCHANGED <<env, settings, catalog, phase, listed, endless, pages, busy>>

CommandSetThinking(level) ==
  /\ Command /\ ~busy
  /\ client' = SetThinkingLevel(client, level)
  /\ UNCHANGED <<env, settings, catalog, phase, listed, endless, pages, busy>>

CommandSetRetry(enabled) ==
  /\ Command
  /\ client' = SetRetryEnabled(client, enabled)
  /\ UNCHANGED <<env, settings, catalog, phase, listed, endless, pages, busy>>

-----------------------------------------------------------------------------
(* cycle_model: ListModels, and then the neighbour of the current model.    *)

\* The providers with an embedded catalog, which is taken to be what their
\* service has.
Embedded == DOMAIN catalog \ {"openai-responses", "radius"}
Service == IF client.name \in DOMAIN catalog THEN catalog[client.name] ELSE <<>>

BeginListing ==
  /\ Command
  /\ phase' = "listing" /\ listed' = <<>> /\ pages' = 0
  /\ UNCHANGED <<env, settings, catalog, client, endless, busy>>

\* One model to a page.  A service that always says there is more repeats its
\* last model.
Page ==
  LET n == Len(listed)
  IN IF n < Len(Service) THEN <<Service[n + 1]>>
     ELSE IF Service = <<>> THEN <<>> ELSE <<Last(Service)>>
More == Len(listed) + 1 < Len(Service) \/ endless

\* AvailableModels: an empty list is replaced by the embedded catalog, or by
\* the model in use.
Available(models) ==
  IF models # <<>> THEN models
  ELSE IF client.name \in Embedded THEN catalog[client.name] ELSE <<client.model>>

Listing == phase = "listing"
Listed(models) ==
  /\ phase' = "listed" /\ listed' = Available(models)
  /\ UNCHANGED <<env, settings, catalog, client, endless, pages, busy, commands>>

NextPage ==
  /\ phase' = "listing" /\ listed' = listed \o Page /\ pages' = pages + 1
  /\ UNCHANGED <<env, settings, catalog, client, endless, busy, commands>>

\* The last ID of the page is what the next one is asked from: a page that
\* ends where the one before ended is the last.
ListResponses ==
  /\ Listing /\ client.wire = "responses" /\ pages < PageLimit
  /\ IF More /\ Page # <<>> /\ (listed = <<>> \/ Last(Page) # Last(listed))
     THEN NextPage ELSE Listed(listed \o Page)

\* The token of the next page is not compared with the one before.
ListGoogle ==
  /\ Listing /\ client.wire = "google" /\ pages < PageLimit
  /\ IF More THEN NextPage ELSE Listed(listed \o Page)

ListCompletions ==
  /\ Listing /\ client.wire = "completions"
  /\ Listed(Service)

\* The two that sort what they get.
ListBedrock == Listing /\ client.wire = "bedrock" /\ Listed(Service)
ListRadius == Listing /\ client.wire = "messages" /\ Listed(Service)

\* The Anthropic client lists nothing.
ListAnthropic ==
  /\ Listing /\ client.wire = "anthropic"
  /\ Listed(<<client.model>>)

\* The service cannot be reached, or has too many pages: without an embedded
\* catalog the command fails.
ListFails ==
  /\ Listing /\ client.wire # "anthropic"
  /\ phase' = IF client.name \in Embedded THEN "listed" ELSE "ready"
  /\ listed' = IF client.name \in Embedded THEN catalog[client.name] ELSE <<>>
  /\ UNCHANGED <<env, settings, catalog, client, endless, pages, busy, commands>>

Neighbour(models, current, backward) ==
  LET n == Len(models)
      at == {i \in 1 .. n : models[i] = current}
      index == IF at = {} THEN 0 ELSE (CHOOSE i \in at : \A j \in at : i <= j) - 1
  IN IF backward THEN models[((index + n - 1) % n) + 1] ELSE models[((index + 1) % n) + 1]

CycleModel(backward) ==
  /\ phase = "listed"
  /\ client' = IF Len(listed) < 2 THEN client
               ELSE SetModel(client, Neighbour(listed, client.model, backward))
  /\ phase' = "ready" /\ listed' = <<>> /\ pages' = 0
  /\ UNCHANGED <<env, settings, catalog, endless, busy, commands>>

SelectNext ==
  \/ ApplySettings \/ Turn
  \/ \E s \in Selections : CommandSetModel(s[1], s[2])
  \/ \E level \in {"off", "high"} : CommandSetThinking(level)
  \/ \E enabled \in BOOLEAN : CommandSetRetry(enabled)
  \/ BeginListing \/ ListResponses \/ ListGoogle \/ ListCompletions
  \/ ListBedrock \/ ListRadius \/ ListAnthropic \/ ListFails
  \/ \E backward \in BOOLEAN : CycleModel(backward)

SelectSpec == SelectInit /\ [][SelectNext]_selectVars

-----------------------------------------------------------------------------
SelectTypeOK ==
  /\ client.wire \in {"completions", "responses", "anthropic", "google", "messages", "bedrock"}
  /\ client.retries \in {0, 3} /\ pages \in 0 .. PageLimit

(***************************************************************************)
(* Whatever has been selected at startup, from the settings and by         *)
(* commands: the key of a client is one of the provider it names, or the   *)
(* shared one; no sequence of selections mixes the name of one provider with *)
(* the key or the wire of another.                                         *)
(***************************************************************************)
KeyOwn ==
  /\ client.key.from # "shared" => client.key \in {NoKey, ResolveKey(env, client.name)}
  /\ client.name \in ResponsesNames \ {"openai", "openai-codex"} => client.wire = "responses"
  /\ client.name \in GoogleNames => client.wire = "google"
  /\ client.name = "amazon-bedrock" <=> client.wire = "bedrock"
  /\ client.name = "radius" <=> client.wire = "messages"
=============================================================================

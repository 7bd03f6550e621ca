------------------------------- MODULE Startup -------------------------------
(***************************************************************************)
(* What a server that started has (lifespan.py, resources.py), out of its  *)
(* settings and of what it found, and what its readiness says of it        *)
(* (readiness.py).  Everything is built once, before the first request,    *)
(* and never changes, so this is a pure function.                          *)
(***************************************************************************)

\* The settings that decide what is built.
Settings ==
  [environment : {"dev", "test", "prod"}, gemini_api_key : BOOLEAN,
   superhero_api_token : BOOLEAN, tools_backend : {"inprocess", "mcp"}]

\* The paragraphs, vectors that fit them, and what answers at the MCP address:
\* nothing, a server of other tools, or this repository's own, which registers its
\* tools whether or not it has a token.
Surroundings ==
  [paragraphs : BOOLEAN, vectors : BOOLEAN, mcp : {"nothing", "other_tools", "no_token", "token"}]

\* missing_runtime_secrets is empty.
HasSecrets(settings) == settings.gemini_api_key /\ settings.superhero_api_token

\* _apply_secret_policy does not raise.
SecretsSuffice(settings) == settings.environment = "prod" => HasSecrets(settings)

\* load_store does not raise: without a corpus it returns None, but in prod.
CorpusSuffices(settings, found) == settings.environment = "prod" => found.paragraphs

\* MCPToolBridge.__aenter__ does not raise.
BridgeOpens(settings, found) == settings.tools_backend = "mcp" => found.mcp # "nothing"

\* VectorStore.load, then VectorStore.searchable: vectors are only looked at
\* when there is an embedder, which needs the key; vectors that are missing or
\* do not fit are no error.
IsSearchable(settings, found) ==
  found.paragraphs /\ found.vectors /\ settings.gemini_api_key

\* build_agent_tools: over MCP the hero tools need no token of this process.
HasHeroTools(settings, found) ==
  \/ settings.tools_backend = "mcp" /\ found.mcp \in {"no_token", "token"}
  \/ settings.tools_backend = "inprocess" /\ settings.superhero_api_token

\* Whether those tools have a client to ask: create_server over superhero=None
\* answers every call with _superhero_unconfigured.
HeroToolsAsk(settings, found) ==
  \/ settings.tools_backend = "mcp" /\ found.mcp = "token"
  \/ settings.tools_backend = "inprocess" /\ settings.superhero_api_token

\* The four checks lifespan registers: secrets, the Superhero client, the store
\* and the models are there.
IsReady(settings, found) ==
  /\ HasSecrets(settings)
  /\ settings.superhero_api_token
  /\ found.paragraphs
  /\ settings.gemini_api_key

\* build_chat_models and build_embedder want the same key.
Build(settings, found) ==
  [production |-> settings.environment = "prod",
   models |-> settings.gemini_api_key,
   store |-> found.paragraphs,
   searchable |-> IsSearchable(settings, found),
   tools |-> HasHeroTools(settings, found),
   asks |-> HeroToolsAsk(settings, found),
   ready |-> IsReady(settings, found)]

Starts(settings, found) ==
  SecretsSuffice(settings) /\ CorpusSuffices(settings, found) /\ BridgeOpens(settings, found)

Started == {start \in Settings \X Surroundings : Starts(start[1], start[2])}

\* Every server that can be running, as far as these parts of it.
Servers(parts) ==
  {[part \in parts |-> Build(start[1], start[2])[part]] : start \in Started}
=============================================================================

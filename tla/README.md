# A verification project for the superhero knowledge service

The repository is a question-answering service: FastAPI in front of a LangGraph
graph that plans a question, gathers evidence from a text corpus (vector search)
and from the Superhero API (a tool-calling agent), writes an answer with
citations and checks it against the sources. This directory holds TLA+ models of
the parts whose control is hard to get right, TLC runs that check them on small
instances, and proofs, checked by TLAPS, for every value of the constants.

To check a model: `tlc -config MCAskGraph.cfg MCAskGraph`. To check a proof:
`tlapm AskGraphProofs.tla`. `PROJECT.json` lists the runs, ties every definition
to the lines it models, and gives for every property a mutation of the model that
breaks it.

## Inventory

| Part | State it keeps | Operations | Where it is modelled |
|---|---|---|---|
| plan sanitising (`graph/nodes/analyze_query.py`) | none (pure) | `sanitize_plan`, `_has_cycle` | `SanitizePlan` |
| question graph (`graph/build.py`, `graph/state.py`, `graph/nodes/*`) | `GraphState` of one run, merged by reducers | nodes, conditional edges, parallel `Send`s | `AskGraph`, implements `ScatterGather` |
| circuit breaker (`tools/circuit_breaker.py`) | failure count, time of opening, probe mark | `allow`, `record_success`, `record_failure` | `CircuitBreaker` |
| Superhero client (`tools/superhero.py`) | TTL cache, the breaker | `search`, `get`, retries | `SuperheroClient` |
| model providers (`llm/providers.py`) | per provider: starts in the window, a block | `RateBudget`, `call_with_failover` | `ModelFailover` |
| ask service (`api/service.py`, `sessions.py`, `cache.py`, `ask.py`) | sessions, response cache, running requests | `ask`, `stream`, `_finish`, TTL expiry and eviction | `AskService`, implements `Conversations` |
| corpus build and index (`retrieval/build.py`, `dense.py`, `store.py`, `scripts/build_dataset.py`) | the files of the data directory | `run_build`, `run_embed_only`, `VectorStore.load` | `CorpusBuild` |
| retrieval branch (`graph/nodes/retrieve_documents.py`, `retrieval/store.py`, `llm/embeddings.py`, `retrieval/rerank.py`) | passages of one sub-query | search, grade, rewrite, retries of the embedder | `RetrieveDocuments` |
| superhero agent (`graph/nodes/superhero_agent.py`, `graph/tools.py`) | the tool budget and the transcript of one sub-query | providers, parallel tool calls, evidence from the transcript | `SuperheroAgent` |
| startup, shutdown, readiness (`lifespan.py`, `resources.py`, `config.py`, `api/readiness.py`) | resources on `app.state`, open connections | build, serve, close | `Startup` (what is built), `Lifespan` (how, and how it ends) |
| MCP bridge and server (`graph/mcp_tools.py`, `mcp_server/`) | one client session | connect, `load_tools`, close | what it offers: `Startup`; its session: `Lifespan` |
| HTTP surface (`api/middleware.py`, `auth.py`, `ratelimit.py`, `errors.py`, `routes.py`) | the limiter's counts; a logging context per request | wrapping of a request, refusals, error envelope | `HttpSurface` |
| the process as a whole (`main.py`, `lifespan.py`) | all of the above | requests come and go while it starts, serves and stops | `Server` |
| observability (`observability/`) | the logging context, buffered spans | bind and clear, flush | the context in `HttpSurface`, the flush in `Lifespan`; counters and spans not |
| prompts, evaluations | none that control depends on | | not modelled |

How they interact. uvicorn starts the lifespan, lets requests in while it serves
and waits for those in flight before it lets the lifespan close anything. A
request passes the request-id middleware, authentication, validation and the rate
limiter into `AskService`, which may answer from the cache or runs the graph under
one deadline. Each node that needs a model calls `call_with_failover`, so
concurrent questions, and parallel branches of one question, share the
`RateBudget`s. The superhero branch ends in `SuperheroClient`, whose breaker and
cache all questions share. The retrieval branch reads the store that
`VectorStore.load` made at startup from the files a corpus build left. Everything
but the reranker and the build runs on one asyncio loop: between two awaits a
coroutine runs alone, so a step of the models is what the code does from one await
to the next. What a cancellation or a deadline can hit is exactly the awaits.

What is hard here: results of parallel branches in any order; loops between
nodes, bounded by counters and by LangGraph's recursion limit; calls that are
cancelled at an await and report to nobody; shared budgets, caches and a breaker
read before an await and used after it; expiry and eviction between two steps;
exceptions that pass layers which have already logged or begun a response; a
startup or shutdown that fails halfway; builds killed between two writes of what
should be one. Each hazard is listed, at its line, in `PROJECT.json`.

## The modules

**`SanitizePlan`** is the pure function from what the planner model returned to
the plan that is run: cap, texts stripped, ids made unique, dependencies on
unknown sub-queries dropped, all dependencies dropped when they form a cycle.
`MCSanitizePlan` enumerates every raw plan of up to three sub-queries, one longer
at each step; its variables have names of their own, so that it can be reasoned
about beside the graph.

**`Startup`** is the pure function from settings and surroundings (files, what
answers at the MCP address) to what a server that started has, and what its
readiness says. The initial states of `AskGraph`, `SuperheroAgent` and
`RetrieveDocuments` are its `Servers`, so that no run starts in a combination the
program cannot build (an index that can be searched without a model, say: both
need the same key). An MCP server started without a token offers its tools all the
same, and they answer that they are not configured (`asks`).

**`AskGraph`** is one run of the graph. A variable is a field of `GraphState`
(`plan`, `ready`, `pending`, `wave`, `evidence`, ...), `branches` are the `Send`s
that are out, `at` is the node to run next. A node is one action whose effect is
its returned update, merged as the reducers of `state.py` merge it; branches run
and finish in any order; the conditional edges are the operators `RouteAfter...`.
What a model call may answer is a small set of outcomes per node, one of which is
that all providers fail. Texts are not modelled: an item of evidence is its
sub-query and a number, an answer is the draft it came from and the labels it
cites. `steps` counts supersteps.

**`ScatterGather`** is what the graph promises: each planned sub-query is asked
once, answers come back in any order, and only when all are gathered is an answer
begun. `AskGraph` implements it under the mapping given at its end.

**`RetrieveDocuments`** is the corpus branch of one sub-query, from the search to
its return, with the `VectorStore.search` it calls. `at` is what it waits for:
an embedding, a grade, a rewrite. Scores are arbitrary: a search returns any
ranking, a grade names any paragraphs. `judged` and `retrieved` are history
variables: what the grade that decided was about, and what the searches found.
**`SuperheroAgent`** is the other branch: the
providers' agents one after the other, each alternating between its model and a
round of parallel tool calls; a call is asked, running or returned, and between
any two of these steps another call, or a failure, may come. `called` is a
history variable. What the two modules return is what `DatasetOutcomes` and
`HeroOutcomes` of `AskGraph` allow: no evidence with the caveat of a failed
search; the caveat without evidence when no tools are configured; neither when
there is no model. An exception out of a node (`Raises`; it ends the whole run)
is `GraphRaises` of `AskService`.

**`CircuitBreaker`** holds the breaker's state and operations as actions without a
process; **`SuperheroClient`** extends it with concurrent calls. `open_for` is the
age of the opening, capped at `Recovery` (`NotOpened` stands for `None`). A call is idle, reading the
cache (`get` tests membership and reads afterwards) or awaiting an HTTP attempt.
`Answered`, `Rejected`, `Misread`, `Malformed`, `Retried`, `GaveUp` are the ways an
attempt ends that report to the breaker. Two ends report nothing: `Abandon`, a
cancellation, and `Escaped`, an exception of httpx that neither `except` clause of
`_request` names (a body that cannot be decoded, too many redirects). `lost`, a
history variable, says that a probe ended in one of these and nothing was reported
since. The upstream is healthy or not and may turn at any time.

**`ModelFailover`** has the budgets of the providers (each start recorded as the
time until it leaves the window) and the calls of `call_with_failover`, which
share them. The walk from one candidate to the next call is one step, because
the code has no await there. Two history variables: `sent`, the calls really sent,
which a last resort that is refused exceeds without being recorded, and
`overtaken`, that a call's sleep was cut at the longest wait, or that another call
took the slot it waits for or parked the provider.

**`AskService`** has concurrent requests against one session store and one
response cache, each a `TTLCache` with a time to live and a limit on entries
(`Dropped`: what expires first makes room). The graph is one awaited call with an
arbitrary outcome. A stream alternates between waiting for the graph and sending an
event; its deadline may fire in either.

**`Conversations`** is what the service promises of its memory: a session is a
bounded log of turns and a question text a slot for an answer, either may be
forgotten at any moment; a request is told what its session remembers when it
asks; its answer is remembered in one instant, once; a recalled answer is the one
its slot holds, and never one that was given in a session; a request without an
answer leaves no trace. `AskService` implements it under the mapping at its end: the
log is the session's history, the slot is the cache entry.

**`CorpusBuild`** has the files of the data directory and the command that runs.
Each write is a step and a command may be killed before any of them (`Crash`).
`np.save` and `write_text` overwrite in place, so it may also be killed inside one
(`CrashInside`): a vector file or a record that cannot be read, or a corpus file
that holds only its first paragraphs (`Cuts`); `cut` names the files left so. Where
such a file is read, the code raises. A vector file is modelled by what was really embedded in each batch, so that a wrong
neighbour is a row of another corpus or model under a record that fits.
`Searchable` is what the server accepts at startup. `Wanted` is a build whose
operator does not give up; only the liveness property speaks of it.

**`Lifespan`** is the coroutine of `lifespan.py` step by step: the secret policy
and the HTTP client, the reranker that loads in a thread, the bridge that connects
and lists its tools, serving, and the `finally` clause that closes them. Each step
of startup may raise (what it opened stays open: `yield` is not reached, so
`finally` is not entered); closing the bridge may raise too, and nothing after it
is closed. The MCP session may be lost at any moment. `at` is the await it is in,
`open` what was opened and not closed.

**`HttpSurface`** is what a request passes on its way to the service and back. A
record per request has where it is, what was sent, the access lines and the
logged exceptions; an action makes of it what the layers make, from the inside
out: `Begins` (the middleware adds the id as the response starts), `Unwind` (its
`finally` clause logs and clears the context) and `Rescue` (the handler of last
resort, above the middleware). `hits` are the limiter's counts per client, a key or
an address; `admitted`, a history variable, are the requests the handler really ran
for. What the service answers is arbitrary.

**`Server`** composes the two as uvicorn runs them: requests are accepted only
while the lifespan serves, and it goes on closing only when none is in flight.

## The runs

Runs that pass:

| Run | Shows | Instance |
|---|---|---|
| `sanitize_plan` | a sanitised plan can be executed to its end, a good plan is unchanged | all plans of up to 3 sub-queries, caps 1 to 3 |
| `ask_graph` | labels of an answer resolve; verdict, degradation and caveats are about the answer that ships; nothing is lost or asked twice over two waves and dependents wait; the run is bounded and implements `ScatterGather` | 8 plans of up to 4 sub-queries under a cap of 3 (independent, dependent, mutual, clashing ids, a chain, a fan, blank, none), 1 rewrite, all outcomes |
| `retrieve_documents` | what the passages are said to be fits the grade that decided; that grade was asked about all that was found, and what it kept is returned, once, up to the limit | corpora of up to 5 paragraphs, 4 graded and returned, 1 rewrite, 2 embedding attempts |
| `superhero_agent` | the call budget over parallel calls and providers; what is cited; when an agent meets the recursion limit | 2 providers, replies of up to 2 calls, a budget of 2, 1 character |
| `superhero_client` | when the breaker opens, who the probe is; the breaker recovers from failed and late calls, unless a probe is lost | 2 callers, 2 attempts, threshold 2, a cache of 1 |
| `model_failover` | failover order and giving up; a sleep that is neither cut nor overtaken ends with room in the budget; every call ends | 2 concurrent calls, 2 providers with a budget of 1, a window of 2, waits of up to 1 and blocks of up to 3 units |
| `ask_service` | the service's memory is what `Conversations` promises; every request is over by its deadline | 3 requests, 2 questions, 2 sessions, one entry in each cache, histories of 2 turns |
| `corpus_build` | whose vectors are accepted and resumed, what the manifest says; a corpus larger than a day's quota gets built, unless a kill leaves a progress file that cannot be read | 2 corpora of 2 batches, one of which may be cut to 1, 2 models (the second on one corpus), 1 batch a day, 2 kills |
| `server` | what is open while requests need it and what a process leaves behind; one access line and one request id per request, whatever ends it; the limit is exact; a process told to stop ends if what it waits for without a limit does | 6 configurations (in process and over MCP, with and without secrets, corpus and MCP server), 2 requests, a limit of 1 |

Runs that show a disagreement of the code with its own text. Each checks one
statement of a comment, docstring or test that the code does not keep; the
finding in `PROJECT.json` quotes it.

| Run | Statement | What happens |
|---|---|---|
| `superhero_probe_lost` | half-open lets a probe through | after a probe that was cancelled, or ended by an exception `_request` does not catch, never again |
| `corpus_stale` | a stale vector file is never accepted | it is, after a kill between two writes |
| `error_untraced` | the trace of an unexpected error is logged under its request id | it is logged after the id has been cleared |

Further disagreements, without a run of their own. Each is a property of the
module named, stated and commented there, and is violated when it is added to a
configuration of that module (as an invariant, or, if it is about steps, as a
property; those of `Lifespan` and `HttpSurface` to a configuration of `MCServer`):

| Property | Module | What happens |
|---|---|---|
| `IdsAreUnique` | `MCSanitizePlan` | the replacement id `q<position>` may be taken too |
| `DependenciesAnswered` | `AskGraph` | the third of a chain is asked with the second |
| `CaveatsReachReader` | `AskGraph` | a rewritten answer carries no caveats |
| `SingleProbe` | `SuperheroClient` (3 callers, threshold 1) | a late failure of an old call admits a second probe |
| `FailuresAreData` | `SuperheroClient` | `KeyError` when the entry expires inside `get`; an exception of httpx that `_request` does not catch |
| `EachRunHasItsBudget` | `SuperheroAgent` | the next provider's agent starts with what the one before left of the budget |
| `RelevantBecomeEvidence` | `RetrieveDocuments` | passages the first grade kept are dropped when the second is unavailable |
| `IndexIsReported` | `RetrieveDocuments` | readiness only asks for a store: without an index all checks pass, every search fails |
| `WindowRespected` | `ModelFailover` | the last resort ignores `try_acquire` and is not recorded, so that a later call in its turn may exceed the limit too |
| `FailuresPark` | `ModelFailover` | a provider that fails as the last resort is not parked |
| `StreamEndsWithEvent` | `AskService` | not on exceptions that are no `AppError`, nor when the deadline hits a send |
| `OnlyCompleteCached` | `AskService` (`Outcomes <- Anything`) | answers with caveats are cached |
| `StreamSameAsJson` | `AskService` | a stream never uses the cache |
| `ExpiresAfterInactivity` | `AskService` | reading a history does not renew it |
| `RerunContinues` | `CorpusBuild` | after a kill inside a write of the progress file every rerun raises, until the file is deleted |
| `ResumesWhereStopped` | `CorpusBuild` | a kill between progress file and record loses all progress |
| `ManifestDescribesData` | `CorpusBuild` | quota stop, then embeddings-only, keeps the old source's manifest |
| `OneErrorShape` | `HttpSurface` | the 503 of readiness is a `ReadinessResponse` without an envelope, although `errors.py:1` promises one shape for every failure and the route documents it as an `ErrorEnvelope` |
| `ClosedCleanly` | `Lifespan` | a bridge whose closing raises leaves the HTTP client and the tracer open |
| `SessionIsReported` | `Lifespan` | a lost MCP session is still reported as connected |

Bounds and why they are enough. Two calls or requests are the least that
interfere; three requests let one read a session or a cached response between two
others. Two questions and two sessions over caches of one entry make each
eviction happen, also under a request that still waits. Three sub-queries are the
shortest chain longer than the two waves, and the smallest plan with a cycle that
is not mutual; a fourth is what the cap cuts off. Two providers with a budget of
one give each pattern of skipped, failed and last, and two calls are enough to
empty both budgets; the longest wait is shorter than the window, as in the code, so
that a sleep is cut. Five paragraphs let two searches of four overlap in three or
agree, so that a merged pool exceeds what is returned. Two parallel calls and a
budget of two give a budget spent in one round, over two rounds, and over two
providers. Two requests against a limit of one let each be refused because of the
other; requests meet only in the limiter and in the process they keep from
stopping. Two kills are one inside a write and one between two, in any order; one
corpus that can be cut is enough for a cut corpus file to meet vectors of the whole
and of itself, and the second model needs one corpus to be the wrong model of. The
six configurations reach every step of `Lifespan` and each of its
failures. Clocks are discrete and durations are 1 to 3 units, so that each pair of
events can come in either order and each expiry can fall between any two steps.
Counters that grow for ever are capped where they stop mattering (`Recovery`,
`UpTo`) or bounded by a named constant (`MaxCrashes`).

Fairness. `FairSpec` of each module assumes only what runs the code: a node that
is due runs and a model call or HTTP attempt ends (both have a timeout), sleeps
end, the clock moves, a deadline fires. In `SuperheroClient` the scheduler is
strongly fair to each call, because another call's cache read may hold the loop
for one step at a time. Clients may read as slowly as they like and the graph may
hang: `RequestsEnd` follows from the deadline alone. Nothing is assumed of the
upstream, except in `Recovers`: it is about an upstream that stays healthy and is
asked, and about a time after which no probe is lost any more, by a cancellation or
an exception that escapes. Without the last it is false, which is the finding of
`superhero_probe_lost`. `QuotaOutlasted` assumes an operator who from some time on
runs only one command, whenever it stopped, days that pass, finitely many kills,
and that no file which cannot be read stays; which builds came before is free.
Without the last it is false (`RerunContinues`). In `Server` the service answers in
time (which is `RequestsEnd`), a stream ends or is cut while uvicorn drains, and
closing the HTTP client, once begun, ends. No fairness is assumed where the process
waits without a limit: for the body of a question, since the image starts uvicorn
without `--timeout-graceful-shutdown`, and for the `__aexit__` of the bridge.
`StopEnds` names both as its premises (`BodiesArrive`, `BridgeLetsGo`). That the
process is ever told to stop, or that startup gets anywhere, is not assumed. `RetrieveDocuments` and `SuperheroAgent` need no
fairness: their properties are safety, and what ends them is the deadline of
`AskService`.

## The proofs

TLAPS checks these for every value of the constants, from the named assumptions
on them (sizes are natural numbers, `None` is no corpus, and the like).

* `AskGraphProofs`: type correctness; `AllGathered` (no answer is begun before
  every planned sub-query is merged, which no run lists because `ScatterGather`
  says it), `VerdictIsAboutThisAnswer`, `DependentsWait`, `BoundedRun`,
  `ReaderIsTold`, `EvidenceComplete` and `CitationsResolve`, for plans of any size
  and any limit on rewrites; and that every step is a step of `ScatterGather` or a
  stutter. `WaveInv` partitions the planned sub-queries into those pending, out and
  merged, by the node the run is at; the bound on supersteps follows from a count
  per node. With it no run goes on for ever (`RunsAreFinite`): every step takes a
  superstep, returns a branch or applies one's writes, none is taken back, and the
  sum is bounded; TLC adds that a run can go on until `END`. `AllGathered` alone is not inductive: it says nothing of where the
  sub-queries are before the answer is begun. `EvidenceInv` says of each merged
  item which outcome of which branch it is, and that those of one branch keep their
  order. That the labels of an answer are 1 to the number of items, one each, is a
  counting argument over the finite set of items that come before an item.
  Of `sanitize_plan`, for every list of sub-queries and every cap: what comes out
  can be executed and a good plan comes out as it went in (`Sanitised`, also of the
  state machine `MCSanitizePlan`, which the module extends for this); the ids are
  given in exactly one way, and can only repeat through a name `q<n>` of another
  sub-query's position, which is the finding about `IdsAreUnique` and no more; the
  rounds of `_has_cycle` settle, and with distinct ids they resolve them all
  exactly when no set of sub-queries waits for itself. From this the graph holds a
  plan it can execute once `analyze_query` has run.
* `SuperheroClientProofs`: type correctness; the breaker is open exactly while
  `Threshold` failures came without a success; a breaker that waits for its probe has one
  in flight unless one was lost, to a cancellation or to an exception that escapes
  `_request`, and nothing was reported since; probes are a recovery window apart. The
  strengthening ties the probe mark to the one call that carries it, and to the
  time since it was taken.
* `ModelFailoverProofs`: type correctness, failover order with giving up last, and
  `WaitedLongEnough`. The invariant says of each call at each point that the
  providers skipped and failed are exactly those before it. That a budget never
  keeps a start beyond its window needs the starts to be in order: `_prune` only
  looks at the front. That who waited long enough finds room needs two facts more: a
  budget never records more starts than its limit, although more may be sent, and
  with each unit of time a full or parked budget is a unit nearer to having room, so
  that what is left of a sleep is never less than `seconds_until_free`. What is sent
  is not bounded by this: `WindowRespected` is false.
* `AskServiceProofs`: type correctness, with the limits on histories and entries,
  and that every step is a step of `Conversations` or a stutter. The invariant adds
  to the types that a request that has not arrived was told nothing and has no
  answer. A step that ends a graph run is a promised answer whatever it evicts.
* `SuperheroAgentProofs`: the budget, for any number of providers and of parallel
  calls (the tools are called at most `max_agent_steps` times, and no call is
  refused before they were), and that refusals end an agent before its recursion limit does. The
  invariant ties the supersteps of the running agent to its transcript (two per
  round) and says that each round of which a call was let through has cost one
  of the budget. Type correctness and `EvidenceIsFetched` need what the walk
  over the messages collects: each cited item is of a reply that stands in the
  messages, and a hero is cited in full exactly when a reply with its record stands
  there; `Recorded` adds that what was answered is still what the transcript says.
  The walk is a recursive function of the position, and induction on the position
  says what it holds.
* `CorpusBuildProofs`: type correctness, and `AcceptedAreGenuine`,
  `ResumesOwnWork`, `ManifestWrittenLast` and `ResumesUnlessTorn` for every set of
  corpora, models, sizes and quotas, and any number of kills, between writes and
  inside them. The invariant says of
  the index and of the progress file that they are what their record says, but
  between the two writes of the pair, where they are what the running command
  holds. The last two properties need more: what a command has written by each of
  its steps, and that the progress saved last is what both files say.
* `ServerProofs`: type correctness, `HeldWhileNeeded`, `OneAccessLine`,
  `ResponseNamesRequest` (which excepts the 503 of readiness, see `OneErrorShape`) and
  `LimitIsExact`, for every set of configurations, any
  number of requests and clients and every limit. The first needs what is open at
  each await of the lifespan, and that no request is in flight before it serves or
  after it has drained. The next two need, of each request, what has been sent at
  each point of its way (`Consistent`); the last that the handler
  ran for as many requests of a client's window as were counted, up to the limit.
* `RetrieveDocumentsProofs`: type correctness, `UngradedIsSaid` and `FoundIsKept`,
  for every corpus, ranking, grade and limit. The invariant says that the pool
  holds exactly what the searches found, that the first search's passages, the pool
  and what the grade kept name no passage twice, that they are empty together with
  the corpus, that a branch which goes on without a grade has found nothing, and that
  the rewrite looks only for what the whole pool was judged for. That `Only`, the
  passages kept in their order, keeps each of them once is proved by counting the
  places before it. What the first grade kept may still be lost to the second
  (`RelevantBecomeEvidence`).

Only model-checked: all liveness (`CallsEnd`, `Recovers`, `RequestsEnd`,
`QuotaOutlasted`, `StopEnds`; the prover does not reason about fairness), the
liveness half of the refinement, by which every run of the graph gets to its end. Every
invariant and action property of the passing runs is stated by a theorem. Where
data is walked (ids handed out one after another, rounds of a search, the
evidence of a transcript) the definition is a recursive function and not a
`RECURSIVE` operator, and the proof is an induction: the lemma `Induction`, that a
set of numbers with 0 and with every successor is `Nat`, follows from the
well-foundedness of `<` and is cited by name.

## Not modelled, and why

Prompts, wording, logging but for the access line and the context of a request,
metrics and spans, the metrics endpoint, the fields of request and response
schemas: no control depends on them. Of the HTTP surface, a body that is not JSON,
which the framework refuses before the dependencies run, and CORS preflights, which
are answered above the middleware. Of the MCP server, the wrappers around the tools; what the tools
do is in the modules of the tools. The parsing of SQuAD and of hero records; scores and ranking;
the bytes of a file (it is whole, cut, or there is none); LangGraph's own scheduler (its supersteps are
taken from how `build.py` uses it); provider construction beyond whether there is
one. The evaluations are offline scripts that run the service and print tables:
they hold no state between runs and nothing waits for them.

## Plan

1. Done: `SanitizePlan`, `AskGraph` with `ScatterGather`, `CircuitBreaker` and
   `SuperheroClient`, `ModelFailover`, `AskService`, `CorpusBuild`, `Startup`,
   `RetrieveDocuments`, `SuperheroAgent`, and their proofs.
2. Done: shutdown and a failure in the middle of startup, a lost MCP session
   (`Lifespan`), the layers around a request (`HttpSurface`) and the process they
   make (`Server`), with proofs; `Conversations` and the limits of the service's
   caches, with the refinement proved; the proofs about the answer `AskGraph`
   ships, those of `RetrieveDocuments`, the last two of `CorpusBuild`, and the type
   correctness of `ModelFailover`; what the evidence of an agent is, and what
   `sanitize_plan` makes of any plan, by induction.
3. Open: `AskService` composed with `ModelFailover` under one deadline, for which
   the graph's model calls would have to be told apart.

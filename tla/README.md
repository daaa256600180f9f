# A verification of the Aura LLM gateway

TLA+ modules of the gateway, their TLC configurations, and TLAPS proofs about
them. Paths are relative to the repository's root (`src/` here). To check:

    tlc -config ResponsePathBreaker.cfg MCResponsePath.tla     # any run below
    tlapm ResponsePathProofs.tla         # or any other *Proofs.tla

`PROJECT.json` maps every definition to the lines it models and lists the runs,
the mutants that show each property can fail, the hazards and the findings.

## 1. The system

The gateway (`crates/`) is an axum server. `POST /v1/responses` passes
authentication and rate limiting, prepares the prompt, resolves the model name
(`auto` goes through the auto router), asks a provider, and answers with JSON or
a stream of events. Handlers are tokio tasks: they interleave at every `.await`,
and a client that disconnects drops its handler where it awaits. What they share
is small: maps under mutexes, atomics, Redis, Postgres.

| Component | State | Operations | What is hard | What makes it correct |
|---|---|---|---|---|
| Request path (`routes/responses.rs`, `routes/auto_routing.rs`) | the request, its decision, attempt counter | resolve, cache, dispatch, escalate, answer, stream | router swapped under it, disconnects, retries | bounded escalation, no repeats, tiers in bounds, it ends unless a provider hangs |
| Model breaker (`main.rs`) | failures and `open_until` per model | record failure / success, ask | late answers of other requests | opens on evidence, steers every choice |
| Auto router, classifiers, catalog (`router/auto/*`) | none (a snapshot of settings and trained models) | extract, score, classify, decide, escalate | rounding, thirds of prices, bounds, policy, tools, budget combine | tier and eligibility; modes keep their order |
| Trained models (`routes/admin.rs`, `main.rs`) | `router_models`, one of each kind in memory | upload, activate, reload, deactivate, delete | table and memory written apart, two kinds share names | what is active is what runs, when nobody interferes |
| Gold labels (`routing_gold.rs`, `routing_synthetic.rs`) | `routing_gold_pairs` | sample, judge, ingest, count | router of another moment; batches sent twice | the pair brackets the decision of the same router; a row counts once |
| Request limits (`rate_limit.rs`, both crates) | Redis counters | check, count messages | windows, midnight, lost replies | a 429 is earned, a burst is bounded |
| Smart router and endpoint health (`router/*`) | circuit per endpoint under an RwLock, a counter per pool | route by one of twelve strategies, report, mark | late reports; one counter over changing lists | no circuit stuck, turns even, favourites stay |
| Provider adapters (`provider/*`) | stream parsers | translate requests, answers, errors, streams | chunk boundaries, missing ends, nine dialects | results next to calls, one terminal event, nothing lost |
| Fan-out (`validation/fanout.rs`) | N candidates | run, select | partial failure | the winner completed; completed candidates are billed |
| Conversations and persistence (`main.rs`, `repo.rs`) | Postgres rows | get or create, save, replay | save races the next turn; spawned writes | a finished turn can be continued once it is announced |
| Prompts, usage and cost (`compression/*`, `cost.rs`, `main.rs`) | `request_logs` | compress, extend, price, record | spawned, lost at shutdown; two places for one fact | counted once; the log tells the exchange |
| Response cache (`cache.rs`) | Redis entries | get, set, invalidate | key collisions, flags that change | a hit answers the same question |
| Gateway settings (`admin_settings.rs`) | one row, nine places in memory | load, save, apply | two admins; restarts; lost answers | memory and database agree |
| Organization settings cache (`main.rs`) | versions of a row, cache with TTL | look up, fetch, store, invalidate | stale re-insertion | an old setting outlives its row by the TTL at most |
| Tenants (`auth.rs`, `admin.rs`) | organizations, keys, end users, usage, totals by trigger | authenticate, record, create, revoke, delete | deletions and creations between a request's statements | usage is credited, once, to the right end user |
| Routing feedback and rollup | decisions, outcomes, arms, copy in memory | record, feed back, score, sum, install | late outcomes, overlapping runs | feedback decides; arms catch up |
| Admin pages (`admin.rs`, `routing_decisions.rs`, SQL views) | none | some thirty queries, the explorer's cursor | each query has its own window, join, grouping; rows change between two pages of a list | pages over the same rows agree; a list misses nothing |
| Wire types, configuration | - | - | data | - |
| Serverless functions, web applications, SDKs | - | - | outside the gateway | - |

How they interact: the request path takes a reference to the router when it
resolves a model and reads the *current* router again at every failure; the
router's choices consult the breaker through `GatewayEligibility`; provider
answers feed the breaker; an admin's settings replace the router and the trained
models are read where a decision needs them. Decisions, logs and feedback are
rows that the rollup turns into the statistics a strategy samples from, and that
the admin pages read. The limiter runs before all of it and shares only Redis.
The smart router is a library the gateway does not call yet.

## 2. Modules

| Module | Models | Correspondence |
|---|---|---|
| `TierSelect` | `router/auto`: bounds, policy merge, tools floor, tool loops, budget, tier search | pure operators; an oracle is the set of models it accepts, an operator with several outcomes returns their set |
| `ModelBreaker` | `BreakerState` in `main.rs` | `failures`, `openUntil` per model; each method under the mutex is one action |
| `ResponsePath` | `resolve_auto_model`, both dispatch loops of `create_response`, `escalate_after_failure`, `apply_gateway_settings` | `pc` says where a request is; a step runs from one `.await` to the next; extends the two above |
| `ResponsePathProps`, `ResponsePathProofs` | its properties, theorems about them | |
| `RateLimit` | `rate_limit_middleware`, `RateLimiter::check`, `check_daily_messages` | one API key; `minute` and `days` are the Redis counters with their expiry, a script is one step, the middleware awaits between them |
| `RateLimitProofs` | theorems about it | |
| `HealthTracker` | the circuit of each endpoint | `health`; each method under the map's lock is one operator |
| `RoutingStrategies` | `StrategySelector::select` | the favourites of a strategy, or the round-robin counter |
| `SmartRouter` | `SmartRouter::route`, pools, fallback chains, `report_*` by concurrent callers | extends both; `at` is the endpoint a caller is using, `counter` one per pool |
| `SmartRouterProofs` | theorems about it | |
| `EventStream` | what a client may rely on, abstractly | `events` and the protocol over them |
| `ProviderStreams` | the nine stream adapters, `push_utf8` | a provider's script of frames, the bytes that arrived, the buffer, the queue, what was accumulated, what was handed out |
| `ProviderStreamsProofs` | theorems about it, and that it implements `EventStream` | |
| `ProviderRequests`, `ProviderAnswers` | `transform_request`, `transform_response`, `transform_error` of the nine adapters | pure; a text is a token |
| `ProviderCalls` | a conversation with tools over changing providers, escalation, `validation/fanout.rs` | extends them; the client's list of items, the request sent, the replies, the winner |
| `Conversations` | what a request leaves behind: `replay_prior_tool_calls`, the response cache, `get_or_create_conversation`, `save_response`, the spawned writes, `delete_conversation`, restart | `pc` says at which await a request is; `rows`, `alive`, `usage` are the tables, `tasks` the writes a spawned task still owes; an answer is named after the request that obtained it, a conversation after the request that created it |
| `ConversationsProofs` | theorems about them | |
| `GatewaySettings` | `PUT /admin/settings`, load at start | the row; for each of the nine places the document its value follows from |
| `OrgSettings` | the organization row and its cached copy | numbered versions; `reads` are the lookups in flight |
| `PayloadCapture` | which bodies are logged | extends both; requests that read both switches |
| `Classify` | feature extraction, heuristic, learned and LLM classifiers, cost model | pure; thousandths and millionths |
| `ModelCatalog` | catalog, derived tier lists, router construction, `decide` over a real catalog | pure; extends `TierSelect` and `Classify` |
| `RouterModels` | `router_models` and the copies in memory | an operation has a `pc` per statement |
| `GoldPairs` | sampling, judging, ingestion, the labels' page | pure; extends `ModelCatalog` |
| `RunningGateway` | the process while admins change it | composes `GatewaySettings`, `RouterModels` and `GoldPairs`; decides with what is in force |
| `RunningGatewayProofs` | theorems about it and its parts, and about `PayloadCapture` | |
| `Tenants` | organizations, API keys, end users, usage | a request's statements one by one, the insert trigger inside its insert |
| `TenantsProofs` | theorems about them | |
| `Rollup` | recording, feedback, next turns, scoring, arm statistics | each statement of a rollup a step; the loop, an admin's run and a restart |
| `RollupProofs` | a theorem about it | |
| `Prompts` | compression and consistency instructions of a request | pure |
| `RequestLogs` | from an answer to its `request_logs` row: price, metadata, confidence gate | pure; extends `Prompts` |
| `Reports` | dashboards, views and model pages | queries over `Rollup`'s decisions and their logs; extends both |
| `DecisionPages` | auto-router statistics, the explorer and its cursor | extends `Reports`; `walk` is an administrator reading the list page by page while `Rollup` goes on; states `PagesAgree`, `WalkMissesNothing` |
| `MC*` | instances for TLC | |

What is abstracted. In `ResponsePath` a classifier may name any tier and a
within-tier strategy may pick any candidate; allow and deny lists, capabilities
and context windows are the set `serves`, price estimates the set `cheap`.
`RunningGateway` is the counterpart in which they are computed: a text there is
its length and the words the matchers find, a price an integer. Provider
failures carry only their code. The gauge of active requests is left out: the code
lets it drift (below), so nothing can be claimed of it. `SmartRouter::route` reads each endpoint's health
under a guard of its own; the model reads them at one instant, which no property
depends on.

`ResponsePath` and `Conversations` cut `create_response` along two concerns that
do not read each other's state: which model answers, and what remains of the
answer. In `Conversations` a provider call is one step with any outcome, prompts
are what the cache key sees of a request, a first message is its length and the
bytes at which characters begin, and request log, routing decision and message
rows are one write, "records". An error of the database is a step that may
happen at each statement and marks the request as `failed`; the properties
excuse exactly those.

In `ProviderRequests` and `ProviderAnswers` sampling parameters, tool schemas and
cache markers are left out. In `Prompts` what an encoder writes is part of the
text it encodes: which encoder is chosen is modelled, not its grammar. In the
reporting modules an age stands for one moment (`Clock` says at which hour of
which day, `NowHour` what time it is), a column that is NULL is 0, shares are whole per cents, percentiles
are left out, and fixed LIMITs of 8, 10 and 50 are never reached by the
instance. `Rollup` has no deletion of feedback: a sample deleted between the reading of a
batch and its scoring still counts, which no property here speaks about.
`ModesAreOrdered` takes the built-in weights, boundaries and offsets
that the configuration may change. In `GoldPairs` the answers' texts and costs,
the semaphore of eight and the spawned task are left out; a prompt stands for its
hash.

## 3. What is checked

Every passing run has a mutant for each of its properties: a plausible bug in
the mapped code that the run then finds. Runs stay few: a module gets one
instance that asks all its questions. State counts are of distinct states.

**ResponsePathBreaker** - three concurrent requests, pinned or auto-routed, two
providers, a breaker of two failures in two ticks.
`OpenBreakerPredatesNoChoice`: a request may talk to a model whose breaker is
open only if it opened after the model was chosen. `OpenIsEarned`: an open
breaker has its threshold of failures behind it, counted from the requests' own
histories. Three requests are what it takes for one to open a breaker with another
while a third is in flight; two ticks let failures fall out of the window.

**ResponsePathBounds** - one request, 50-odd profiles (bounds, policy, tools,
budget, tool loop, streams, fan-outs, pinned models), three routers and none,
swapped at any time. `TierStaysInBounds`, `EscalationNeverWeakens`,
`NeverRetriesAFailedModel`, and `EndsUnlessProviderHangs` (liveness): a request
ends, or it waits for ever for one provider that neither answers nor fails,
however the router changes and whatever fails. The routers differ in tier
lists (a model in two tiers, an empty tier), floor, attempts and switch; with
three models every search order occurs.

**RateLimit** - four requests of one key around midnight, two of which are
messages, under limits of one and two that an admin changes, Redis losing
requests and replies. `CounterCountsTokens`, `LessThanTwiceTheLimit` (a window
opens with its first token, so even a burst across two windows stays below
twice the limit), `RefusalsAreEarned` (by the minute's counter or the day's). A
tick is half a second, so that truncation to seconds shows; a day has four.

**SmartRouter** - 141,046 states. Two callers, a primary pool of three endpoints
and a disabled one under fourteen selectors that cover the twelve strategies, a
fallback pool behind a provider without one, circuits of two failures and two
ticks, one manual mark on two of the endpoints. `CircuitsAreSound`,
`EveryCircuitReopens`, `RoundRobinIsEven` (no endpoint gets a second turn before
every other had its first, as long as the list stays), `FavouriteStays`. Three
endpoints is the least for which a list shrinks and still leaves a choice; the
counter is kept modulo six, a multiple of every list's length, which only its
remainder matters to (the wrap at 2^64 is left out). Deadlock is checked.

**ProviderStreams** - 155,480 states. Nine adapters, every script of up to four
frames that a provider's API allows (text, calls in one chunk or two, usage,
errors, a finish), cut anywhere, one byte damaged, the connection broken at any
point. `ImplementsEventStream` is a refinement: what the client has been handed
is a behaviour of `EventStream`, in which the events keep the protocol's order,
a response ends once, and its completion says what the deltas said.
`DecodedAsSent`: every line reaches its handler once with its own text.
`QueuesLoseNoText`: when an adapter with a queue has ended, the client was told the
text of every frame, in order. `FinishedIsCompleted` (a liveness property). Four frames hold
a text, a call, a finish and something after it.

**ProviderCalls** - 351,930 states. Two openings, five ways to ask (one answer,
best of two, agreement of three, by confidence or not), eight bodies, a refusal
and a break, three asks, five tokens. `ResultsFindTheirCalls`: whatever provider
made the calls and whatever provider is asked next, a message with calls is
followed by as many outputs, and there are no others; to every provider but Gemini
each output names its call (or, where Gemini made the calls, its function).
`NothingSaidIsLost`: what the conversation says reaches the provider once, in
order, sounds to OpenAI and system items to the other chat providers excepted.
`TheBestCandidateWins`. `CandidatesAreBilled`: every completed candidate is billed,
and no more than all used. What the exceptions leave open is where code and
documents disagree (below). Three
asks are a call, its results and one turn after it, each with its own provider.

**Conversations** - two requests, the second perhaps a follow-up of the first,
with tool results, streamed or served from the cache, and two troubles (errors,
panics, departures, deletions, restarts). `ToolTurnsSeeTheirCalls`: tool results
reach the provider with the calls they answer, although the follow-up comes the
instant the answer is out. `TurnsShareAConversation`: a turn is in the
conversation of the one before. `BilledOnce`: no cache hit, follow-up or restart
bills an answer again. `EveryAnswerIsBilled`: a spawned task gets to the usage
record whatever panics behind it. The properties relate a turn to the one it
follows, so two requests make every pairing; two troubles allow an error in each,
or an error and the restart that loses its task. The theorems below have no bound.

**RunningGateway** - 1,078,471 states. Two admins with one request in flight
each and three in all, settings and models mixed; three documents, two slots of
each kind of trained model, a restart, failed statements and lost answers.
`RunningSettingsWereStored`: no place follows a document the row never held.
`QuietSettingsAgree`, `QuietModelsAgree`: an operation that ran alone and clean
leaves memory and database in agreement. `ModesAreOrdered` evaluates the router
that is in force on eleven requests over twelve models of three providers: a
better mode never classifies a request lower, whichever classifier answers; a
higher class is never served lower nor, by the `cheapest` model of derived lists
(and no other strategy), cheaper; the pair that gold sampling picks is what the same
router would choose at the two ends, and none of its decisions lies outside; and the labels' page counts every row once, whatever
of four generated rows arrives in two batches of up to two, the second of which
is sent twice. Its parts without variables are evaluated once; what moves is
which document and classifier are in force. Two admins suffice to interleave
writes; a third would only repeat one of them. Three places are the first, a
middle and the last of nine.

**PayloadCapture** - 2.4 million states. Two requests of one organization, an
admin's PUT, an update of the organization, a restart, two ticks.
`SwitchedOffLogsNothing`: after a PUT that turned capture off has returned, no
later request has a body logged. `OrgSwitchHonoured`: the organization's switch
holds after the TTL and one read-to-store delay. With a TTL of one tick, two
ticks are what lets an entry expire.

**Tenants** - 1,493,889 states. Two requests, two keys (of an organization or of
none), two organizations, two
names of end users, up to three end users and six operations of admins, any
statement failing. `TotalsCountEveryRequest`: the trigger's totals count each
recorded request once. `CreditedWithinTheOrganization`. `AnswersAreCredited`: an
answer whose statements did not fail has its row, and its end user just when it
named one and its key has an organization, unless one of them was deleted. Six
operations create and delete everything once.

**Rollup** - 1,006,199 states. Two decisions of five kinds of request, one next
turn, feedback, the loop and an admin's run in batches of one, one failure or
restart. `EarlyFeedbackCounts`: feedback given before scoring decides the
reward. `ArmsCatchUp` (liveness): once statements stop failing, every due
decision is scored and memory holds the statistics of the window, whatever
overlapping runs wrote over each other. `PagesAgree`: between two rollups, the
admin pages (some thirty queries and views) fit together - the rewards on the
router's page are the arms' it samples from, the explorer walked by its cursor
names every decision once under twelve filters, pages split the same requests,
and what they sum is what was asked and answered. The timelines go by the clock
where the other pages reach back from now: the instance has a row 23 hours and
three quarters old and one of almost seven days, and the timelines lack exactly
those. `WalkMissesNothing`: an administrator who pages through the decisions not
scored yet, while rollups score them, feedback comes and rows age, is shown each
one that stayed on the list, once and in order. Two decisions make every page a
sum, a page limit of one makes the cursor work.

Deadlock is checked for `SmartRouter` only: elsewhere requests end, clocks and
calls are bounded, and the system may stop.

### Where the code departs from what the repository says

**RefuteSavedFirst** (`HeldIdsAreSaved`): a response enters the cache before its
row is saved, so a hit hands out an id that cannot be followed up yet, or ever,
if the first client leaves in between. `PROJECT.json` quotes the line.

Seen while modelling, without a run:

*Request path and auto router*
- The gauge is incremented under the first provider (`responses.rs:1253`) and
  decremented under the last (`:1336`, `:1396`), so an escalation across
  providers leaves one too high and the other too low. A client that leaves
  mid-call stays in it, and so does a request whose lookup panics.
- The adapters talk to providers through `reqwest::Client::new()` (`openai.rs:75`,
  `anthropic.rs:87`, `gemini.rs:83`), which has no timeout; the client of
  `http.rs` with its 60 seconds is not theirs. A provider that never answers
  keeps its request until the client leaves.
- The policy minimum yields to the request's maximum (`auto/config.rs:256`,
  `auto/mod.rs:299`), and the tools floor when nothing at or above it is
  eligible (`auto/mod.rs:318`; `docs/api/auto-routing.md:191` says "never below").
- A success of a call that was in flight when the breaker opened closes it
  early (`main.rs:475`; `docs/api/auto-routing.md:204` says 30 s). Failures with
  other codes than the escalation triggers do not feed the breaker, although
  `auto_routing.rs:459` says "Always feeds the breaker".
- A fan-out asked for as a stream that meets the cache is answered with JSON
  (`responses.rs:683`, `1237`). A stream is a success for the breaker when it
  opens, whatever it says later. In the streaming path an answer that the
  confidence gate demotes still goes out as `response.completed`.
- Dry runs (`/admin/routing/score`) and shadow decisions use the heuristic,
  whatever classifier is configured; the recorded decision carries the gateway's
  boundaries and heuristic score beside a learned or LLM tier.
- A decision reads the cost model once per candidate and again when it is
  recorded, so a swap in between may record a predicted cost above its maximum.
- HuggingFace supports any non-empty name (`huggingface.rs:367`) while
  `provider_name_for_catalog_model` leaves out only Ollama: with HuggingFace
  configured no unknown tier model is dropped. The catalog prices a model from a
  scraped row with its exact id, the cost calculator only from the curated map.
- `glob_matches` (`routing.rs:236`) slices past its end for patterns such as
  `aa*x*aa` against `aaa`.
- Gold sampling reads the router anew in its background task, so a pair may come
  from another document than the decision, and it ignores the request's own
  tier bounds and budget (`routing_gold.rs:161`). A generated row that is
  ingested again keeps the first row's `response_id`, `decided_tier` and
  `heuristic_score` beside the new batch and features (`repo.rs:2710`).

*Trained models and settings*
- `router_models` never updates `kind` on conflict: a cost model uploaded under a
  classifier's name and version overwrites its weights, although `admin.rs:1236`
  says the kinds leave each other alone. Uploading the active row without
  `activate` changes what the next restart loads; deactivating unloads memory,
  but a restart loads the weights file.
- Organization settings read before an update may be stored after its
  invalidation (`main.rs:622`; `docs/api/auto-routing.md:251`); a deletion leaves
  the entry. Tier lists left out of a PUT fall back to the built-in ones.
- When the tenant lookup fails, the payload is logged by the gateway's flag alone.

*Limits, cache, tenants*
- `check` counts in fixed windows where its comment says sliding
  (`rate_limit.rs:100`); the daily counter expires up to a second before midnight
  (`rate_limit.rs:326`, `350`); `check_token_budget` reads and increments in two
  commands and has no caller.
- The cache key leaves out parts of a request, and a response may be stored after
  caching was switched off (`cache.rs:101`).
- `ApiKeyRepo::create` never stores `scope_type` and `scope_id`
  (`docs/api/organizations.md:104-128`). `is_blocked` and monthly limits of end
  users are enforced nowhere. Deleting an end user between lookup and insert
  loses the usage row; deleting an organization leaves its keys working.
- A key need not have an organization (`auth.rs:204`, `auth.rs:533`). A request with
  such a key is recorded without an end user (`main.rs:1538`), although
  `docs/api/authentication.md:175` and `docs/api/organizations.md:146` say that
  `user` is upserted and credited.

*Smart router*
- Nothing half-opens a circuit (`health.rs:180` against `health.rs:7`);
  `success_threshold` and `max_attempts` are never read. `all_health` takes the
  read lock twice on one thread (`health.rs:301-306`): with a lock that lets
  waiting writers go first, a writer in between blocks everyone.
- Sticky sessions hash `previous_response_id`, which changes with every turn,
  although the comment says "Maintains endpoint affinity"; an untagged region is
  preferred to far tagged ones.

*Conversations*
- A title is cut at byte 97 (`repo.rs:267`); inside a character that panics, and
  the request dies with what was meant to be best effort.
- `response.failed` and `response.incomplete` go out before their response is
  saved, so a quick follow-up starts a new conversation. A follow-up on an answer
  from the cache joins the conversation of whoever first got that answer.
- `apps/landing/src/content/api/conversations.md:15` says the gateway "Prepends
  the conversation history"; it prepends the earlier tool calls only, and only
  to tool results. A request log that names a conversation deleted meanwhile is
  lost.

*Provider adapters*
- The adapters without a queue (OpenAI, Anthropic, Bedrock, Mistral, Ollama,
  HuggingFace) lose the first text delta to the announcement of its item, which
  `together.rs:1107` tests the opposite of for its own. Calls in a chunk with
  text, and calls after the first with arguments, may be dropped; Gemini keeps the
  last of the calls at a position (why `strict` excludes it). Anthropic and Bedrock
  give no terminal event at `max_tokens`. HuggingFace, Ollama and Mistral streams
  carry no usage.
- System items of the input are dropped by Together, Fireworks, Mistral, Ollama
  and HuggingFace, as "already handled via instructions" (`mistral.rs:119`,
  `ollama.rs:115`, `huggingface.rs:111`), which they are not;
  `docs/architecture/provider-mapping.md:15` maps them to `system`. OpenAI is sent
  a note in place of a sound, where `provider-mapping.md:634` lists audio input;
  Together and Fireworks drop it. Claude is sent a tool choice of "none" as "auto".
- Gemini pairs results with calls "by name + position" (`gemini.rs:159`), but is sent
  the call's id for the name (`gemini.rs:185`), and the results in the client's
  order. Calls that Gemini made are identified by their function's name
  (`gemini.rs:482`), so parallel calls of one function share an id.
- HTTP 500 does not escalate except from HuggingFace and Ollama; Gemini's 502 and
  504 do not; a body that cannot be parsed makes most adapters forget 503 and 429.
  `content_filter` counts as completed in five adapters.
- A fan-out on Gemini asks each of n calls for n candidates (`gemini.rs:361`).
  Usage is summed over completed candidates, although `fanout.rs:5` says "across all
  attempts" and `fanout.rs:80` "from all candidates". `most_frequent` counts all
  answers without text as agreeing. The `selection` criteria of
  `apps/landing/src/content/api/validation.mdx:132-140` are ignored.

*Prompts, logs, pages*
- Compression replaces a message's parts by their text, so pictures and sounds of
  a compressed message are gone before routing. Minified JSON with short keys may
  merge two keys. Model calibration goes by the requested name, so "auto" gets the
  neutral one (`responses.rs:516`).
- Costs are looked up by the name the provider answers with; a dated one that is
  not in the table costs nothing. Features count as applied when asked for.
- `request_logs.cost_usd` is created as DECIMAL (`001_initial_schema.sql:82`) and no
  migration changes it, while the comment of migration 022 says it is FLOAT8;
  `RequestLogRepo::create` reads it back as `f64` (`repo.rs:371`).
- `to_interval` does not know "30d" and answers a day under the name asked for
  (`admin.rs:480`). `v_routing_stats` reads a key the gateway writes elsewhere;
  `v_model_usage` and the model costs repeat a model with two prices; logs of an
  unregistered provider are on no health page; the recent logs are paged by
  OFFSET, so rows repeat or are skipped while logs arrive.
- `v_usage_timeline` and `v_daily_usage` ("24h", "30d") join on calendar hours and
  days (`20250203_011_admin_dashboard_views.sql:277-319`), the overview reaches back
  from now (`20260524_022_dashboard_stats_float8.sql:38-76`): what is older than 23
  hours and the minutes past the hour is in the day's total and in no hour of it,
  and likewise the days of a week and of a month.
- Feedback after scoring is never counted, although `docs/api/auto-routing.md:382`
  says it overrides everything.

### Fairness

`FairSpec` of `ResponsePath` asks that a handler takes its own steps
(`Handle`): the executor polls it, the classifier's call has a timeout of its
own (`auto_routing.rs`), and the database and Redis are assumed to answer or
fail. Nothing makes a provider answer or end its stream, since no client of
theirs has a timeout, nor a client arrive or leave, an admin act, or time pass.
`SmartRouter` needs time to pass (`WF` of `TimePasses`) and nothing else: no
caller has to return for a circuit to reopen. `Conversations` asks weak
fairness of each spawned task: tokio runs it to its end unless it panics or the
process stops, which are steps of their own. `ProviderStreams` asks that the
server polls the adapter until it ends, since the response body is polled while
its client is there. `Rollup` asks that the periodic loop, which ticks as long
as the process lives, takes its steps; the admin's run need not end.

### Bounds

`MaxClock`, `MaxNow`, `MaxTime` bound time, `AdminBudget`, `MaxPuts`, `MaxOps`,
`MaxChanges`, `MaxUpdates`, `MaxAdmin` what admins do, `MaxRestarts`, `MaxFaults`,
`MaxTroubles` what goes wrong. The clock of `ResponsePath` stops at its bound,
which only removes later choices: breaker properties compare instants within one
window and one cooldown, and both fit. Counters of `HealthTracker` saturate where
the code compares them, so its run is unbounded in time. `MaxRequests` bounds the
requests of `Conversations`; it and `MaxTroubles` are arbitrary in the proofs.

## 4. What is proved

Eight modules hold the proofs. Each theorem is for every value of the constants
that its module's ASSUMEs allow: any number of requests, admins, workers, keys or
places, any bound. Each safety property rests on an inductive invariant that TLC
also checked on the module's run before it was proved; below, what it adds to
the property, and why that is needed.

**`ResponsePathProofs`**, under `BreakerAssumption` and `PathAssumption`: the
breaker's settings are positive, as `.max(1)` makes them, profiles and routers
are records of the declared shape, and the catalog is a finite list.

- `TypeCorrect`. Its substance is that whatever `TierSelect` returns is a known
  model at a known tier (`DecisionsSound`, `NextCandidatesSound`).
- `ChoicesRespectTheBreaker` (`OpenBreakerPredatesNoChoice`). The invariant adds
  that no choice lies in the future, since a breaker that opens now must not
  predate a choice (`NoteFailureOpens`).
- `BreakersOpenOnEvidence` (`OpenIsEarned`). `MemoryIsEvidence`: a failure the
  breaker remembers is one of a request's own. The converse is false (a success
  erases the memory, not the history), and so the cardinalities are compared
  through it (`CountedAreEvidence`).
- `TiersStayInBounds`, and the action property `EscalationClimbs`. `BoundsInv`
  says it of the router a request took along, not of the one installed.
- `NoModelIsRetried`. `RetryInv`: before its first call a request has failed
  nowhere.

**`ConversationsProofs`**, under `ConversationsAssumption` (bounds and a message's
offsets are naturals).

- `ConvTypeCorrect`.
- `BillsOnce`, `ToolCallsAreSeen`, `ConversationsHold`: the three safety
  properties of the run, all from `ConvInvariant`. `ConversationsOwned` and
  `RowsBacked`: a row's conversation exists, and a conversation's id comes from a
  request that was in none, so a deleted conversation never comes back and the
  excuse it gives lasts. `IdsObtained` and `UsageDueOnce`: an id goes out with an
  answer, and usage is due only from the request that obtained it, until it is
  recorded. `SavedInTime` is the ordering the code is careful about: an announced
  response has its row, or an excuse. The step lemmas first say what no step may
  do (`AnswersStay`, `LossesStay`) and which step makes which move
  (`MovesAreKnown`, `DueIsBySaving`).

**`RunningGatewayProofs`**, under `SettingsAssumption`, `OrgAssumption`,
`CaptureAssumption` (there is a place, the payload-capture switch is one, the TTL
is positive), `ModelsAssumption` (a file of weights fits its kind, or it is not
read) and `RunningAssumption` (who edits the settings also trains the router).
About deciding, `DecidingAssumption`, `KeywordsAssumption` and `CatalogAssumption`
say no more than that weights are integers, a request's counts naturals, the
keyword lists finite and prices not negative.

- `RunningSettingsStored`, `QuietSettingsFollowTheRow`, from `SettingsInvariant`.
  `HistoryKept`: what a PUT past its save is about to write was in the row.
  `AloneIsAlone`, `WrittenSoFar`: while a PUT runs alone the row is its document,
  and so are the places it has passed. `StepKept` is the conclusion, in
  a form that another PUT's start does not break.
- `OrgInvariant`: how old may be what a cache entry, or a read in flight, holds.
- `SwitchesKeepTheirPromises`: `Spec => SettingsSpec /\ OrgSpec`. Payload capture
  refines both components, so their invariants may be used of it.
- `QuietRequestsLogNothing` (`SwitchedOffLogsNothing`). `QuietInv`: while a quiet
  request runs, neither the row nor the switch nor any PUT in flight captures.
- `OrganizationsAreHonoured` (`OrgSwitchHonoured`). The property speaks of the
  time of a read; `HonouredInv` is what survives the versions that follow.
- `RunningKeepsSettings`: `RunningSpec => SettingsSpec`, which carries the
  theorems about settings over to the process that trains and installs models
  next to them, where the run checks them: `RunningSettingsAgree`.
- `TrainedModelsAgree` (`QuietModelsAgree`), from `ModelsInvariant`. `CleanIsAlone`
  as above. `CleanJob`: what a clean operation read or stored is still what the
  table holds when it installs it. `SettledAgree`: each kind that a clean operation
  left and no write has concerned since agrees, also while others change.
- `MemoryFits`: the table never has two active rows of a kind, and memory has at
  most one model of each kind, which is of that kind. That an operation in flight
  carries such a model (`OneInHand`) is what makes it inductive.
- `BetterModesClassifyNoLower`: the classifier in memory is always in
  `OrderedModes`, the first half of `ModesAreOrdered`, for all weights, requests
  and replies. `ScoreTyped` and `LengthTyped` show that a score is a number (sums
  over a request's input, by induction: a theorem with a predicate as parameter is
  out of the provers' reach, so `EveryNumber` and `EverySubset` state induction for
  *sets*, from the well-foundedness of `<`);
  `HigherScoreHigherTier` holds of all boundaries, even those that cross.
- `BetterModesServeNoLower`: under a better mode a request is served by no lower a
  tier, for any router with four lists and a floor, any request, catalog, budget
  and cost model in memory. By `SameTiersSearched` the class changes the order of
  the search and not what is searched, so a budget fits both requests or neither
  (`HigherTierServesNoLower`); of the tiers that have something the first is no
  lower (`HigherFirst`); and every strategy picks one of what it is given
  (`OneIsSelected`). The run's `RoutersAssumption` checks that its routers are as
  the theorem asks.

**`TenantsProofs`**, under `TenantsAssumption` (no organization is the mark for
none).

- `TotalsAreRight` (`TotalsCountEveryRequest`). `TotalsKept` counts over the
  history of inserts, since a deletion removes rows and not their count.
- `CreditStaysInside`, `NoAnswerGoesUncredited`. `RequestOK` says, for every place
  a request can be in, what it may have read and which deletion or fault
  explains what is missing; a row lacks its end user just when it named none or its
  key has no organization; `Kept` says what no step takes back (a deleted
  organization, key or user stays so, a key never changes organization), and is
  what other requests' parts need of a step.

**`RateLimitProofs`**, under `RateAssumption` (limits are positive and have a
greatest, durations are positive).

- `CounterIsExact`, `NeverTwiceTheLimit`. `MinuteInv`: the counter, expired or
  not, knows each token since its window opened; a window opens with a token; and
  the ticks of one window before it saw fewer tokens than the largest limit. The
  last part is what makes a burst across the edge fall short of twice the limit,
  and it needs the second.
- `RefusalsEarned`. `DaysInv`: a daily counter that expired early or lost a reply
  counts too few messages, never too many.

**`RollupProofs`**, under `RollupAssumption` (the number of decisions is a natural).

- `EarlyFeedbackDecides` (`EarlyFeedbackCounts`). A rollup scores what it read
  a step earlier and writes it one decision at a time, next to another that may
  do the same: `BatchesHonest` says of the batches in flight what
  `ScoresHonest` says of the table. `EarlyIsNewest` ties the history to the row.
  `EveryRank`: the ordered batch, a recursive function, holds pending decisions
  only.

**`SmartRouterProofs`**, under `HealthAssumption` and `RouterAssumption` (a pool
names an endpoint once, since everything about it is looked up by its id; the
counter is kept modulo a multiple of the lists' lengths; priorities and windows
are integers, prices naturals, and an endpoint has finitely many profiles).

- `CircuitsStaySound` (`CircuitsAreSound`), inductive with its types: each report
  and tick maps sound health to sound health (`SoundHealth`).
- `TurnsAreEven` (`RoundRobinIsEven`). `Rotation`: the last picks from a list are
  consecutive places of it, and the counter stands at the next. `KeptIsDistinct`
  proves, by the same induction over sets, that the list of available endpoints
  names each once.
- `FavouritesStay` (`FavouriteStays`), for all seven strategies that rank. What a
  pool offers is a part of its list in the list's order (`KeptInOrder`), and a
  stable sort's first element is the one that no other outranks by score, or by
  place between equals (`FirstOfBestLeads`, `FavouriteLeads`), so it is still
  first in what is left (`LeaderStays`). `select_context_adaptive` has two rules,
  price while something has room and window otherwise; `RoomiestStays` shows that
  losing others never changes the rule over a favourite that is still offered.
  `RankInv` says that the history's last pick was a favourite of the list it
  came from.

**`ProviderStreamsProofs`**, under `StreamsAssumption` (what the JSON of a line may
say): scripts of any length, for each of the nine adapters.

- `DecodedText` (`DecodedAsSent`). `WireOK`: whatever was cut where, the buffer is
  the bytes that arrived less the lines that were handled, so the next complete
  line is the next one sent. The bytes of a script are a recursive function, as
  are the other histories here; `EveryNumber` gives induction for sets, and
  `SameHistory` that two scripts that agree on a prefix agree in what it yields.
- `StreamInvariant`: `WireOK`, `EndOK` (a finish is followed by nothing but empty
  chunks, which is why what comes after it may be dropped) and `TalkOK` (the text,
  the calls and the open item that the adapter accumulated are what its events
  said, those that still wait in the queue included).
- `AdaptersImplementEventStream`: `Spec => ImplementsEventStream`. The client has
  been handed a prefix of what the adapter has said, so each step of the adapter
  is one event of `EventStream`, or a stutter. That the event may follow needs
  `TalkOK`: the completion repeats what was accumulated.
- `NoTextLost` (`QueuesLoseNoText`). `SaidOK`: the accumulated text is that of the
  lines handled, and an adapter with a queue ends only after its last line, or
  broken, with the queue empty. Without a queue the property is false (see
  the provider adapters in section 3).

**Model-checked only.** Liveness and `ENABLED` are beyond the prover. So is what
a recursive definition or fold over texts, catalogs and tables computes for every
input: `PagesAgree`, and of `ModesAreOrdered` what the theorems above leave: that
derived lists rise in price (they are sorted and filtered), that pairs bracket
what is served, and that the labels' page counts every row once (folds).
`ProviderCalls` reads its lists of messages with `SelectSeq` and folds, which
tlapm keeps opaque; its four properties compare such readings.

## 5. Plan

1. Proofs: that derived tier lists rise in price; the billing and choice of
   `ProviderCalls`.
2. Refinements: `Conversations` implements an abstract store of threads;
   `RateLimit` an abstract window; `ModelBreaker` a switch that opens on evidence.
3. Gold sampling as a process: its semaphore and the router it reads anew. The
   feature profile and the routing lab.
4. `ResponseCache`: skip rules, the admin's switch, invalidation. `GlobMatch`
   against a reference definition. `TokenBudget`.
5. Teams, projects and files; the sign-up and synchronization handlers of `api/`.

Not modelled, and not planned: reading the words of a text and the grammars of
the encoders (data), floating-point arithmetic inside a trained model or a
validation score (ranks and integers stand for it), wire formats, hashing and
the admin key's check, pages that list one table, the web applications,
deployment and scripts.

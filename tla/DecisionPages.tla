---------------------------- MODULE DecisionPages ----------------------------
(***************************************************************************)
(* The admin pages about the auto router: its statistics by tier and       *)
(* model, the explorer that lists decisions page by page, the page of one  *)
(* decision and the timeline.  The list is the only page read in several   *)
(* requests: each brings the cursor the one before it handed out.          *)
(***************************************************************************)
EXTENDS Reports

CONSTANTS Queries,  \* what an administrator may ask the explorer for
          Walked    \* the ones asked for page by page while rollups go on

VARIABLES walk   \* the administrator's list: the query, the cursor that came with
                 \* the last page, and the decisions not listed yet that have
                 \* matched ever since the first page

Tiers == {"simple", "medium", "complex", "reasoning"}
Modes == {"cost", "balanced", "quality"}
Outcomes == {"none", "move_on", "retry", "correction", "escalation", "unscored"}

RoutedRows == {d \in Recorded : decision[d].kind # "plain"}
Shadow(d) == decision[d].kind = "shadow"
Synthetic(d) == decision[d].kind = "synthetic"
Tier(d) == decision[d].arm.tier
Model(d) == decision[d].arm.model
Choice(d) == Said[decision[d].says].choice
Exchange(d) == Said[decision[d].says].exchange

\* v_routing_outcomes: a decision without a log row has no status and no tokens.
Status(d) == IF d \in Logged THEN decision[d].status ELSE "pending"
Scored(S) == {d \in S : outcome[d] # Unscored}
RewardSum(S) == MapThenSumSet(LAMBDA d : outcome[d].reward, Scored(S))
Cost(S) == Total(S \cap Logged, "cost")
Savings(S) ==
  MapThenSumSet(LAMBDA d : Tokens({d}) * (Choice(d).requested - Choice(d).selected),
                {d \in S \cap Logged : Shadow(d)})

LiveIn(ages) == {d \in RoutedRows : ~Synthetic(d) /\ decision[d].age \in ages}

-----------------------------------------------------------------------------
(* Statistics *)

TurnsOf(S) == [t \in Outcomes \ {"none", "unscored"} |->
                 Cardinality({d \in S : outcome[d].turn = t})]

SummaryOf(live, applied) ==
  [applied |-> Cardinality(applied), shadow |-> Cardinality(live \ applied),
   cost |-> Cost(applied), savings |-> Savings(live),
   success |-> Success(applied \cap Logged)]

Applied(S) == {d \in S : ~Shadow(d)}

SummaryOfLive(live) == SummaryOf(live, Applied(live))

AutoSummary(period) == SummaryOfLive(LiveIn(ToInterval(period)))

HowMany(S) ==
  [decisions |-> Cardinality(S),
   completed |-> Cardinality({d \in S : Status(d) = "completed"}),
   cost |-> Cost(S), savings |-> Savings(S), latency |-> Latency(S \cap Logged)]

\* The top model is any of the most frequent.
MostFrequent(times) == {m \in DOMAIN times : \A n \in DOMAIN times : times[m] >= times[n]}

TierRow(S) ==
  [all |-> HowMany(S),
   failed |-> Cardinality({d \in S : Status(d) \notin {"completed", "pending"}}),
   top |-> MostFrequent([m \in {Model(d) : d \in S} |-> Cardinality({d \in S : Model(d) = m})]),
   approved |-> Cardinality({d \in S : decision[d].feedback = "approved"}),
   rejected |-> Cardinality({d \in S : decision[d].feedback = "rejected"}),
   reward |-> RewardSum(S), scored |-> Cardinality(Scored(S)), turns |-> TurnsOf(S)]

ByTier(period) ==
  LET live == LiveIn(ToInterval(period))
  IN  [key \in {<<Shadow(d), Tier(d)>> : d \in live} |->
         TierRow({d \in live : <<Shadow(d), Tier(d)>> = key})]

ByModel(period) ==
  LET live == LiveIn(ToInterval(period))
  IN  [key \in {<<Shadow(d), Tier(d), Model(d)>> : d \in live} |->
         HowMany({d \in live : <<Shadow(d), Tier(d), Model(d)>> = key})]

FirstRows(rows, limit) == SubSeq(rows, 1, IF limit > Len(rows) THEN Len(rows) ELSE limit)

RecentOutcomes(limit) ==
  FirstRows(NewestFirst({d \in RoutedRows : ~Synthetic(d)}), limit)

AutoRoutingStats(period) ==
  [summary |-> AutoSummary(period), by_tier |-> ByTier(period),
   by_model |-> ByModel(period), recent |-> RecentOutcomes(25)]

\* By hour for a day, by day for longer.
TimelineWindow(period) ==
  CASE period \in {"none", "24h", "1d"} -> [ages |-> Within["24h"], bucket |-> "hour"]
    [] period \in {"7d", "30d", "90d"}  -> [ages |-> Within[period], bucket |-> "day"]
    [] OTHER -> [ages |-> {}, bucket |-> "bad request"]

SlotOf(age, bucket) == IF bucket = "hour" THEN Clock[age] ELSE [Clock[age] EXCEPT !.hour = 0]

TimelineRow(S, applied) ==
  [applied |-> Cardinality(applied), shadow |-> Cardinality(S \ applied),
   escalated |-> Cardinality({d \in S : Choice(d).escalated}),
   cost |-> Cost(applied), savings |-> Savings(S),
   reward |-> RewardSum(applied), scored |-> Cardinality(Scored(applied)),
   turns |-> TurnsOf(applied)]

TimelineOf(slot, live) ==
  [s \in {slot[d] : d \in live} |->
     TimelineRow({d \in live : slot[d] = s}, {d \in Applied(live) : slot[d] = s})]

TimelineOver(ages, bucket) ==
  TimelineOf([d \in LiveIn(ages) |-> SlotOf(decision[d].age, bucket)], LiveIn(ages))

RoutingTimeline(period) ==
  TimelineOver(TimelineWindow(period).ages, TimelineWindow(period).bucket)

-----------------------------------------------------------------------------
(* The explorer *)

\* A period reaches back; "from", when it is set, overrides it.
PeriodStart(period) ==
  CASE period \in {"none", "all"} -> Within["all"]
    [] period \in {"1h", "24h", "1d", "7d", "30d", "90d"} -> Within[period]
    [] OTHER -> {}

OneOf(value, allowed) == value \in allowed \cup {"any"}

Ordered(low, high) == low = NoLimit \/ high = NoLimit \/ low <= high

\* One bad value refuses the query.
Accepted(q) ==
  /\ q.from # {} \/ PeriodStart(q.period) # {}
  /\ OneOf(q.mode, Modes)
  /\ OneOf(q.tier, Tiers)
  /\ OneOf(q.classified, Tiers)
  /\ OneOf(q.outcome, Outcomes)
  /\ OneOf(q.feedback, {"approved", "rejected"})
  /\ q.synthetic \in {"exclude", "include", "only"}
  /\ Ordered(q.min_reward, q.max_reward)
  /\ Ordered(q.min_cost, q.max_cost)

\* A limit is brought into 1..200.
ParseListQuery(q) ==
  [q EXCEPT !.from = IF @ # {} THEN @ ELSE PeriodStart(q.period),
            !.limit = CASE @ < 1 -> 1 [] @ > 200 -> 200 [] OTHER -> @]

Asks(wanted, value) == wanted \in {"any", value}

\* NULL is in no interval: without a score or a cost a row meets no bound.
Between(low, value, high, known) ==
  /\ low # NoLimit => known /\ value >= low
  /\ high # NoLimit => known /\ value <= high

Matches(f, d) ==
  /\ CASE f.synthetic = "exclude" -> ~Synthetic(d)
       [] f.synthetic = "only"    -> Synthetic(d)
       [] OTHER                   -> TRUE
  /\ decision[d].age \in f.from
  /\ Asks(f.mode, Choice(d).mode)
  /\ Asks(f.tier, Tier(d))
  /\ Asks(f.classified, Choice(d).classified)
  /\ Asks(f.changed, IF Choice(d).classified # Tier(d) THEN "true" ELSE "false")
  /\ Asks(f.model, Model(d))
  /\ Asks(f.shadow, IF Shadow(d) THEN "true" ELSE "false")
  /\ Asks(f.escalated, IF Choice(d).escalated THEN "true" ELSE "false")
  /\ Asks(f.status, Status(d))
  /\ Asks(f.outcome, outcome[d].turn)
  /\ Asks(f.feedback, decision[d].feedback)
  /\ Between(f.min_reward, outcome[d].reward, f.max_reward, outcome[d] # Unscored)
  /\ Between(f.min_cost, Log(d).cost, f.max_cost, d \in Logged)

\* Mutant: a page begins after the cursor's row in the list as it is now.
ListRowsAfter(f, before, limit) ==
  LET rows == NewestFirst({d \in RoutedRows : Matches(f, d)})
      after == {i \in DOMAIN rows : rows[i] = before}
  IN  FirstRows(IF before = 0 THEN rows
                ELSE IF after = {} THEN <<>>
                ELSE SubSeq(rows, Max(after) + 1, Len(rows)), limit)

\* Rows older than the cursor, newest first; 0: no cursor.
ListRows(f, before, limit) ==
  FirstRows(NewestFirst({d \in RoutedRows : Matches(f, d) /\ (before # 0 => d < before)}), limit)

\* One row more than the page tells whether there is another page.
NextCursor(rows, limit) == IF Len(rows) > limit THEN rows[limit] ELSE 0

PageOf(rows, limit) == [rows |-> FirstRows(rows, limit), next |-> NextCursor(rows, limit)]

ListPage(f, before) == PageOf(ListRows(f, before, f.limit + 1), f.limit)

\* A decision is found by the gateway's id or the provider's.
FindByResponseId(id) ==
  Max({0} \cup {d \in RoutedRows : \/ id = <<"aura", d>>
                                   \/ decision[d].linked /\ id = <<"resp", d>>})

ResolveBoundaries(recorded, current) ==
  CASE recorded \notin {"none", "malformed"} -> <<recorded, "recorded">>
    [] current # "none" -> <<current, "config">>
    [] OTHER -> <<"default", "default">>

PageOfDecision(d, current) ==
  IF d = 0 THEN "not found"
  ELSE [status |-> Status(d), feedback |-> decision[d].feedback, outcome |-> outcome[d],
        cost |-> Cost({d}), savings |-> Savings({d}),
        boundaries |-> ResolveBoundaries(Choice(d).boundaries, current)]

DecisionPage(id, current) == PageOfDecision(FindByResponseId(id), current)

-----------------------------------------------------------------------------
(* The list read page by page *)

NotWalking == [query |-> {}, next |-> 0, awaited |-> {}]

WalkInit == Init /\ walk = NotWalking

Matching(f) == {d \in RoutedRows : Matches(f, d)}

\* Every page is a request of its own; the last one has no cursor.
ReadPage(q, awaited) ==
  /\ \E page \in {ListPage(q, walk.next)} :
       walk' = IF page.next = 0 THEN NotWalking
               ELSE [query |-> {q}, next |-> page.next, awaited |-> awaited \ ToSet(page.rows)]
  /\ UNCHANGED vars

FirstPage == /\ walk = NotWalking
             /\ \E q \in {ParseListQuery(p) : p \in Walked} : ReadPage(q, Matching(q))

NextPage == \E q \in walk.query : ReadPage(q, walk.awaited)

Meanwhile == /\ Next
             /\ \/ walk = NotWalking /\ UNCHANGED walk
                \/ \E q \in walk.query : walk' = [walk EXCEPT !.awaited = @ \cap Matching(q)']

WalkNext == FirstPage \/ NextPage \/ Meanwhile

walkVars == <<vars, walk>>

WalkSpec == WalkInit /\ [][WalkNext]_walkVars /\ WF_vars(RollupStep(Loop))

\* An administrator who pages through the explorer while decisions are scored,
\* rated and grow old (list_routing_decisions, next_cursor) is shown every
\* decision that matched from the first page to the last, and no page repeats
\* or goes back before one already read.
ListedInOrder(page) ==
  /\ page.next = 0 => walk.awaited \subseteq ToSet(page.rows)
  /\ \A d \in ToSet(page.rows) : d < walk.next

WalkMissesNothing ==
  [][NextPage => \A q \in walk.query : ListedInOrder(ListPage(q, walk.next))]_walkVars

-----------------------------------------------------------------------------
\* All pages of the list, one after the other, when nothing happens meanwhile.
Walk(f) ==
  LET pages == [before \in 0..NumDecisions + 1 |-> ListPage(f, before)]
      from[before \in DOMAIN pages] ==
        pages[before].rows \o IF pages[before].next = 0 THEN <<>> ELSE from[pages[before].next]
  IN  from[0]

Sum(f) == MapThenSumSet(LAMBDA k : f[k], DOMAIN f)
SumOf(rows_, column) == Sum([k \in DOMAIN rows_ |-> rows_[k][column]])

\* The statistics by tier tell, for applied decisions, what a rollup would put
\* into the arms of that tier, and split into the rows by model and by hour.
ArmsOf(arms, tier) ==
  MapThenSumSet(LAMBDA a : arms[a].alpha - arms[a].beta, {a \in DOMAIN arms : a.tier = tier})

TiersFitArms(applied, arms) ==
  /\ \A tier \in DOMAIN applied : applied[tier].reward = ArmsOf(arms, tier)
  /\ {a.tier : a \in DOMAIN arms} = {tier \in DOMAIN applied : applied[tier].scored > 0}

TiersFit(tiers, models, hours, summary) ==
  LET counts == [k \in DOMAIN tiers |-> tiers[k].all]
      applied == [t \in {k[2] : k \in {j \in DOMAIN tiers : ~j[1]}} |-> tiers[<<FALSE, t>>]]
  IN  /\ TiersFitArms(applied, ArmStats)
      /\ \A c \in {"decisions", "cost", "savings"} : SumOf(counts, c) = SumOf(models, c)
      /\ \A c \in {"applied", "shadow", "savings", "cost"} : SumOf(hours, c) = summary[c]
      /\ SumOf(hours, "reward") = SumOf(applied, "reward")

RouterPagesAgree == TiersFit(ByTier("24h"), ByModel("24h"), RoutingTimeline("none"), AutoSummary("24h"))

\* The list gives every decision that matches once, newest first, and as many
\* of a tier as the statistics count.
Names(listed, f) ==
  /\ listed = NewestFirst({d \in RoutedRows : Matches(f, d)})
  /\ \A d \in ToSet(listed) : DecisionPage(<<"aura", d>>, "none").outcome = outcome[d]

IsOfTier(q) == q.period = "7d" /\ q.tier \in Tiers /\ q.shadow # "any"

CountsTier(listed, key, tiers) ==
  Len(listed) = IF key \in DOMAIN tiers THEN tiers[key].all.decisions ELSE 0

ListedRight(q, listed, f) ==
  /\ Names(listed, f)
  /\ IsOfTier(q) => CountsTier(listed, <<q.shadow = "true", q.tier>>, ByTier("7d"))

Explored(q, f) == ListedRight(q, Walk(f), f)

ExplorerIsComplete == \A q \in {p \in Queries : Accepted(p)} : Explored(q, ParseListQuery(q))

\* The pages about the request logs split the same rows in their own ways.  The
\* timelines are by the clock and the calendar: of the rows the overview reaches
\* back to, they lack those of the hour or the day it cuts through.
Earlier(period, first) == {d \in LogsOver(Within[period]) : DayOf(d) = first}
HourCutOff == {d \in LogsOver(Within["24h"]) : HoursAgo(d) = 24}

WeekFits(daily, usage, overview) ==
  /\ SumOf(daily, "tokens") + Tokens(Earlier("30d", 30)) = overview.month.tokens
  /\ SumOf(usage, "requests") + Cardinality(Earlier("7d", 7)) = overview.week.requests
  /\ SumOf(usage, "input") + SumOf(usage, "output") + Tokens(Earlier("7d", 7))
       = overview.week.tokens

DaysFit(daily, overview) == WeekFits(daily, UsageStats(daily), overview)

DayFits(hours, day) ==
  /\ day = DynamicStats("24h")
  /\ SumOf(hours, "requests") + Cardinality(HourCutOff) = day.requests
  /\ SumOf(hours, "errors") + Cardinality(HourCutOff \ Done(HourCutOff))
       = Cardinality(LogsIn("24h") \ Done(LogsIn("24h")))
  /\ CacheStats.hits + CacheStats.misses = day.requests

\* A row of a provider that is not registered is in no provider's line.
ProvidersFit(health, day) ==
  /\ SumOf(health, "requests")
       + Cardinality({d \in LogsIn("24h") : Log(d).provider \notin DOMAIN health}) = day.requests
  /\ CostStats(health).total <= day.cost

OverviewFits(overview) ==
  /\ DaysFit(DailyTimeline, overview)
  /\ DayFits(HourlyTimeline, overview.day)
  /\ ProvidersFit(ProviderHealth, overview.day)

InsightsFit(p, now, tokens) ==
  /\ now.tokens = SumOf(tokens, "input") + SumOf(tokens, "output")
  /\ now.requests = SumOf(UsageHeatmap(p), "requests")
  /\ now.tool_calls = SumOf(ToolUsage(p), "calls")
  /\ now.cost = MapThenSumSet(LAMBDA m : ModelCost(p, m).cost, {r[1] : r \in ModelCosts(p)})
  /\ \A by \in Range(FeatureStats(p).by) : Sum(by) = Cardinality(Done(LogsIn(p)))

LogPagesAgree ==
  /\ OverviewFits(OverviewStats)
  /\ \A p \in {"24h", "7d"} : InsightsFit(p, InsightsStats(p).now, TokenTimeline(p))
  /\ RecentLogs(1, 0) \o RecentLogs(300, 1) = RecentLogs(200, 0)

\* The exchange behind a row: an answer the model was not sure enough of.
Unsure(x) ==
  /\ x.request.validation.strategy = "confidencethreshold"
  /\ \E a \in x.answer, min \in x.request.validation.min_confidence :
       \E measured \in a.confidence : measured < min

\* What the pages sum is what was asked and answered: the calls in the answers,
\* the tokens compression took off the messages, and no more money than the
\* tokens cost at full price.  An answer that was too unsure for its request
\* is no success, neither for a page nor for its arm.
CallsIn(output) == Cardinality({i \in DOMAIN output : IsCall(output[i])})
Taken(request) == TokensOf(request.input) - TokensOf(Preprocessed(request).input)
FullPrice(model, u) ==
  IF model \in DOMAIN Prices THEN u.input * Prices[model].input + u.output * Prices[model].output
  ELSE 0

InsightsTell(answer, stats) ==
  /\ stats.tool_calls = MapThenSumSet(LAMBDA d : CallsIn(answer[d].output), DOMAIN answer)
  /\ stats.cost <= MapThenSumSet(LAMBDA d : MapThenSumSet(LAMBDA u : FullPrice(answer[d].model, u),
                                                          answer[d].usage), DOMAIN answer)

AnswersTell(answer) ==
  /\ InsightsTell(answer, InsightsStats("7d").now)
  /\ FeatureStats("7d").saved =
       MapThenSumSet(LAMBDA d : Taken(Exchange(d).request), Done(DOMAIN answer))
  /\ Done(DOMAIN answer) = {d \in DOMAIN answer : /\ answer[d].status = "completed"
                                                  /\ ~Unsure(Exchange(d))}

LogsTellTheExchange ==
  LET answered == {d \in LogsIn("7d") : Exchange(d).answer # {}}
  IN  /\ AnswersTell([d \in answered |-> CHOOSE a \in Exchange(d).answer : TRUE])
      /\ \A d \in answered : Unsure(Exchange(d)) /\ outcome[d] # Unscored
                                /\ decision[d].feedback = "none" => outcome[d].reward < 0

Quiet == walk = NotWalking /\ \A w \in Workers : worker[w] = Idle

\* Every page is a query of its own over the same rows, and the list is read in
\* several requests.  Between two rollups what they say fits together: the
\* rewards on the router's page are those of the arms it samples from, a list
\* walked by its cursors names every decision once, and no page counts a
\* request another one misses, but for those the timelines by the clock cut off;
\* and they tell what was asked and answered.
PagesAgree ==
  Quiet => RouterPagesAgree /\ ExplorerIsComplete /\ LogPagesAgree /\ LogsTellTheExchange
=============================================================================

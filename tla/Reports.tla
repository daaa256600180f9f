------------------------------ MODULE Reports -------------------------------
(***************************************************************************)
(* What the admin pages say about the requests and the routing decisions   *)
(* of Rollup.  Every page is one query over request_logs or over           *)
(* routing_decisions joined with their logs, feedback and outcomes, written *)
(* apart from the others, with its own time window, grouping and order.    *)
(*                                                                         *)
(* Time is the age of a row: an age stands for one moment, at which hour   *)
(* of which day Clock says.  Sums keep their unit, tokens, cost and        *)
(* milliseconds are small numbers, a column that is NULL adds nothing to a *)
(* sum and is 0 here, shares are whole per cents.                          *)
(***************************************************************************)
EXTENDS Rollup, RequestLogs

CONSTANTS Said,       \* name -> the columns of the log row, those of the decision
                      \* (choice), and what was asked and answered (exchange)
          Within,     \* period -> the ages it reaches back over
          Before,     \* period -> the ages of the period before that one
          Clock,      \* age -> [day, hour]; day 0 is today
          NowHour,    \* the hour of today it is
          Registered, \* providers: name -> is_enabled
          Priced,     \* model_pricing: model -> how many rows name it
          NoLimit     \* a bound nobody set

Recorded == {d \in Decisions : Ages[decision[d].age] # "absent"}
Logged == {d \in Recorded : decision[d].status # "none"}

-----------------------------------------------------------------------------
(* Sums over request_logs *)

Log(d) == Said[decision[d].says].log
Total(S, column) == MapThenSumSet(LAMBDA d : Log(d)[column], S)
Tokens(S) == Total(S, "input") + Total(S, "output")
Done(S) == {d \in S : decision[d].status = "completed"}
Percent(n, of, none) == IF of = 0 THEN none ELSE (100 * n) \div of
Rounded(sum, n) == IF n = 0 THEN 0 ELSE (2 * sum + n) \div (2 * n)
Latency(S) == Rounded(Total(S, "latency"), Cardinality(S))
DayOf(d) == Clock[decision[d].age].day
HourOf(d) == Clock[decision[d].age].hour

\* A period the dashboards do not know, "30d" among them, is a day.
ToInterval(period) ==
  IF period \in {"24h", "1d", "2d", "3d", "4d", "5d", "6d", "7d", "all"}
  THEN Within[period] ELSE Within["24h"]

LogsOver(ages) == {d \in Logged : decision[d].age \in ages}
LogsIn(period) == LogsOver(ToInterval(period))

Success(S) == Percent(Cardinality(Done(S)), Cardinality(S), 100)

Summary(S) ==
  [requests |-> Cardinality(S), input |-> Total(S, "input"), output |-> Total(S, "output"),
   cached |-> Total(S, "cached"), cost |-> Total(S, "cost"), latency |-> Latency(S),
   success |-> Success(S)]

Brief(S) == [requests |-> Cardinality(S), tokens |-> Tokens(S), cost |-> Total(S, "cost")]

DynamicStats(period) == Summary(LogsIn(period))

OverviewStats ==
  [day |-> Summary(LogsOver(Within["24h"])), week |-> Brief(LogsOver(Within["7d"])),
   month |-> Brief(LogsOver(Within["30d"])), all |-> Brief(Logged),
   providers |-> Cardinality({p \in DOMAIN Registered : Registered[p]})]

\* Rows of the timelines: one for every calendar day of the last 30 and every
\* hour by the clock of the last 24, the present one included, whether anything
\* happened or not.  The other pages reach back from this moment instead.
Point(S) ==
  [requests |-> Cardinality(S), tokens |-> Tokens(S), cost |-> Total(S, "cost"),
   latency |-> Latency(S), errors |-> Cardinality(S \ Done(S))]

DailyTimeline == [day \in 0..29 |-> Point({d \in Logged : DayOf(d) = day})]

HoursAgo(d) == 24 * DayOf(d) + NowHour - HourOf(d)

\* Mutant: the timeline by the clock goes one hour further back.
TwentyFiveHours == [ago \in 0..24 |-> Point({d \in Logged : HoursAgo(d) = ago})]

HourlyTimeline == [ago \in 0..23 |-> Point({d \in Logged : HoursAgo(d) = ago})]

\* The last seven days; how a day's tokens split into input and output is a guess.
UsageOf(point) ==
  LET input == (6 * point.tokens) \div 10
  IN  [requests |-> point.requests, input |-> input, output |-> point.tokens - input]

UsageStats(daily) == [day \in 0..6 |-> UsageOf(daily[day])]

\* Only registered providers have a row; a due row is older than five minutes.
Judged(S) == IF 10 * Cardinality(Done(S)) < 9 * Cardinality(S) THEN "degraded" ELSE "healthy"

Health(S, enabled) ==
  [requests |-> Cardinality(S), failed |-> Cardinality(S \ Done(S)), success |-> Success(S),
   latency |-> Latency(Done(S)), tokens |-> Tokens(S), cost |-> Total(S, "cost"),
   status |-> CASE ~enabled -> {"disabled"}
                [] enabled /\ S = {} -> {"no_data"}
                [] OTHER -> {"inactive"} \cup {Judged(S) : d \in {e \in S : Ages[decision[e].age] = "young"}}]

ProviderHealth ==
  [p \in DOMAIN Registered |->
     Health({d \in LogsOver(Within["24h"]) : Log(d).provider = p}, Registered[p])]

ListProviders(health) ==
  [p \in DOMAIN Registered |->
     [day |-> health[p], ever |-> Brief({d \in Logged : Log(d).provider = p})]]

\* Joined with model_pricing by name alone: a model priced twice counts twice.
Rows(model) == IF model \in DOMAIN Priced THEN Max({1, Priced[model]}) ELSE 1

ModelsOf(S) == {Log(d).model : d \in S}

Shares(cost, total) == [p \in DOMAIN cost |-> Percent(cost[p], total, 0)]

CostOf(brief, rows) == [requests |-> rows * brief.requests, cost |-> rows * brief.cost]

CostlyOnly(sums) ==
  [key \in {k \in DOMAIN sums : sums[k].cost > 0} |-> CostOf(sums[key], Rows(key[1]))]

CostByModel(month) ==
  CostlyOnly([key \in {<<Log(d).model, Log(d).provider>> : d \in month} |->
                Brief({d \in month : <<Log(d).model, Log(d).provider>> = key})])

CostStats(health) ==
  LET costly == {p \in DOMAIN health : health[p].cost > 0}
      total == MapThenSumSet(LAMBDA p : health[p].cost, costly)
  IN  [total |-> total, by_provider |-> Shares([p \in costly |-> health[p].cost], total),
       by_model |-> CostByModel(LogsOver(Within["30d"]))]

\* A hit is an answer whose provider read cached tokens.
CacheStats ==
  LET S == LogsOver(Within["24h"])
      hits == {d \in S : Log(d).cached > 0}
  IN  [hits |-> Cardinality(hits), misses |-> Cardinality(S \ hits),
       requests |-> Cardinality(S), rate |-> Percent(Cardinality(hits), Cardinality(S), 0),
       cached |-> Total(S, "cached")]

\* The view looks for the strategy above the block the gateway writes it into.
RoutingStats ==
  LET S == LogsOver(Within["24h"])
  IN  [strategy \in IF S = {} THEN {} ELSE {"default"} |-> Point(S)]

\* Newest first.
NewestFirst(S) == SetToSortSeq(S, LAMBDA d, e : d > e)

RecentLogs(limit, offset) ==
  LET rows == NewestFirst(Logged)
      most == IF limit > 200 THEN 200 ELSE limit
  IN  SubSeq(rows, offset + 1, IF offset + most > Len(rows) THEN Len(rows) ELSE offset + most)

-----------------------------------------------------------------------------
(* The Insights page *)

Change(now, then) ==
  CASE then > 0 -> (100 * (now - then)) \div then
    [] then = 0 /\ now > 0 -> 100
    [] OTHER -> 0

ToolCalls(S) == MapThenSumSet(LAMBDA d : Len(Log(d).tools), S)

Activity(S) ==
  [requests |-> Cardinality(S), tokens |-> Tokens(S), cost |-> Total(S, "cost"),
   latency |-> Latency(S), tool_calls |-> ToolCalls(S)]

Compared(now, then) ==
  [now |-> now, change |-> [column \in DOMAIN now |-> Change(now[column], then[column])]]

LogsBefore(period) == LogsOver(IF period \in DOMAIN Before THEN Before[period] ELSE Before["24h"])

InsightsStats(period) ==
  Compared(Activity(LogsIn(period)), Activity(LogsBefore(period)))

\* The ten costliest models; the join repeats the row of a model priced twice.
ModelCosts(period) ==
  LET S == LogsIn(period)
      of(m) == {d \in S : Log(d).model = m}
  IN  {<<m, copy>> \in ModelsOf(S) \X (1..2) :
         Total(of(m), "cost") > 0 /\ copy <= Rows(m)}

ModelCost(period, model) ==
  LET sum(S) == Total(S, "cost")
      of == {d \in LogsIn(period) : Log(d).model = model}
  IN  [cost |-> sum(of), requests |-> Cardinality(of),
       percentage |-> Percent(sum(of), sum(LogsIn(period)), 0)]

\* A tool is counted once for every call.
CallsOf(S, tool) ==
  MapThenSumSet(LAMBDA d : Cardinality({i \in DOMAIN Log(d).tools : Log(d).tools[i] = tool}), S)

ToolRow(calls, all) == [calls |-> calls, percentage |-> Percent(calls, all, 0)]

ToolUsage(period) ==
  LET S == LogsIn(period)
  IN  [tool \in UNION {ToSet(Log(d).tools) : d \in S} |-> ToolRow(CallsOf(S, tool), ToolCalls(S))]

Intensities(count) ==
  [slot \in DOMAIN count |->
     [requests |-> count[slot], intensity |-> Rounded(5 * count[slot], Max({count[s] : s \in DOMAIN count}))]]

\* By day of the week: what happened a week apart shares a slot.
UsageHeatmap(period) ==
  LET S == LogsIn(period)
      slot(d) == <<DayOf(d) % 7, HourOf(d)>>
  IN  Intensities([s \in {slot(d) : d \in S} |-> Cardinality({d \in S : slot(d) = s})])

\* Every period of more than three days has buckets of six hours, "all" too.
BucketHours(period) ==
  CASE period \in {"24h", "1d"} -> 1
    [] period \in {"2d", "3d"} -> 2
    [] OTHER -> 6

TokenTimeline(period) ==
  LET S == LogsIn(period)
      bucket(d) == [day |-> DayOf(d), hour |-> HourOf(d) - (HourOf(d) % BucketHours(period))]
      of(b) == {d \in S : bucket(d) = b}
  IN  [b \in {bucket(d) : d \in S} |-> [input |-> Total(of(b), "input"), output |-> Total(of(b), "output")]]

\* Which compression, validation and consistency strategies completed requests used.
StrategyBreakdown(period, feature) ==
  LET S == Done(LogsIn(period))
  IN  [s \in {Log(d)[feature] : d \in S} |-> Cardinality({d \in S : Log(d)[feature] = s})]

FeatureStats(period) ==
  LET S == Done(LogsIn(period))
      using(feature) == Cardinality({d \in S : Log(d)[feature] # "none"})
  IN  [compressed |-> Cardinality({d \in S : Log(d).reduced}), saved |-> Total(S, "saved"),
       validated |-> using("validation"), applied |-> using("consistency"),
       by |-> [f \in {"compression", "validation", "consistency"} |-> StrategyBreakdown(period, f)]]
=============================================================================

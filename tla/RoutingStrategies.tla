-------------------------- MODULE RoutingStrategies --------------------------
(***************************************************************************)
(* StrategySelector::select: which of a pool's available endpoints serves. *)
(*                                                                         *)
(* `es` is the list of enabled, healthy endpoints in the pool's order, and *)
(* a selector says which strategy to use and what it was configured with.  *)
(* A strategy either has Favourites, one of which it returns, or leaves    *)
(* the choice to the round-robin counter.                                  *)
(*                                                                         *)
(* Scores are compared, never returned: a match of traits is the number of *)
(* traits matched, a cost the sum of a profile's two prices.               *)
(***************************************************************************)
EXTENDS Integers, FiniteSets, Sequences, SequencesExt

CONSTANTS
    Weight, Priority,   \* endpoint -> its settings
    RegionOf,           \* endpoint -> the region its tags name, or "none"
    ProfilesOf          \* endpoint -> the model profiles that match it

NotKnown == -1          \* an Option that is None, for numbers
NoContext == [tools |-> {}, tokens |-> NotKnown, previous |-> NotKnown,
              session |-> NotKnown, reasoning |-> FALSE, given |-> FALSE]

\* f64::MAX, and usize/u32 counts far below it.
Unaffordable == 1000000

Largest(S) == CHOOSE x \in S : \A y \in S : x >= y
Smallest(S) == CHOOSE x \in S : \A y \in S : x <= y

\* iter().filter().collect(): the members of a list that are in S, in order.
Kept(list, S) ==
    LET kept[i \in 0 .. Len(list)] ==
          IF i = 0 THEN <<>>
          ELSE IF list[i] \in S THEN Append(kept[i - 1], list[i])
          ELSE kept[i - 1]
    IN kept[Len(list)]

-----------------------------------------------------------------------------
\* latency_to: symmetric, 150 where nothing is said.
Penalty ==
    << <<{"us_east", "us_west"}, 60>>, <<{"eu_west", "eu_central"}, 20>>,
       <<{"us_east", "eu_west"}, 80>>, <<{"us_east", "eu_central"}, 90>>,
       <<{"us_west", "eu_west"}, 130>>, <<{"us_west", "eu_central"}, 140>>,
       <<{"us_west", "ap_northeast"}, 100>>, <<{"us_east", "ap_northeast"}, 180>>,
       <<{"us_east", "ap_southeast"}, 200>>, <<{"eu_west", "ap_northeast"}, 220>>,
       <<{"eu_west", "ap_southeast"}, 180>>, <<{"eu_central", "ap_northeast"}, 200>>,
       <<{"eu_central", "ap_southeast"}, 170>>, <<{"ap_northeast", "ap_southeast"}, 70>>,
       <<{"ap_northeast", "ap_south"}, 120>>, <<{"ap_southeast", "ap_south"}, 80>> >>

LatencyTo(a, b) ==
    LET said == {i \in DOMAIN Penalty : Penalty[i][1] = {a, b}}
    IN IF a = b THEN 0
       ELSE IF said = {} THEN 150 ELSE Penalty[CHOOSE i \in said : TRUE][2]

\* ToolCategory::recommended_traits
RecommendedTraits ==
    [code_execution |-> {"code", "tool_use"},
     web_search |-> {"research", "tool_use"},
     data_analysis |-> {"analysis", "code", "tool_use"},
     image_processing |-> {"vision", "tool_use"},
     file_system |-> {"code", "tool_use"},
     api_calls |-> {"tool_use", "structured_output"},
     calculator |-> {"math", "tool_use"},
     memory |-> {"long_context", "tool_use"},
     custom |-> {"tool_use"}]

\* AgentContext::recommended_traits
TraitsFor(context) ==
    UNION {RecommendedTraits[t] : t \in context.tools}
        \cup (IF context.reasoning THEN {"reasoning"} ELSE {})

\* trait_match_score of the best matching profile, times the traits needed.
TraitScore(needs, e) ==
    Largest({0} \cup {Cardinality(p.traits \cap needs) : p \in ProfilesOf[e]})

\* The cheapest profile with at least half of the traits needed.
CostOf(needs, e) ==
    Smallest({Unaffordable} \cup
             {p.cost : p \in {q \in ProfilesOf[e] :
                                2 * Cardinality(q.traits \cap needs) >= Cardinality(needs)}})

\* Zero when no profile states a window.
WindowOf(e) == Largest({0} \cup {p.window : p \in ProfilesOf[e]})

\* A profile without a window is taken to be large enough.
Fits(tokens, e) ==
    \E p \in ProfilesOf[e] : p.window = NotKnown \/ p.window >= tokens

\* 1.0, 0.5, 0.3 and 0.2 in tenths.
Reasons(p) ==
    LET worth(t, w) == IF t \in p.traits THEN w ELSE 0
    IN worth("reasoning", 10) + worth("analysis", 5) + worth("math", 3) + worth("code", 2)

ReasoningScore(e) == Largest({0} \cup {Reasons(p) : p \in ProfilesOf[e]})

-----------------------------------------------------------------------------
\* A stable sort by score, and its first element; none when no score counts.
FirstBest(es, Score(_)) ==
    {es[Smallest({i \in DOMAIN es : \A j \in DOMAIN es : Score(es[i]) >= Score(es[j])})]}

BestIfAny(es, Score(_)) ==
    {e \in FirstBest(es, Score) : Score(e) > 0}

\* Mutant of ContextAdaptive: the roomiest unless all have room.
RoomiestUnlessAllFit(context, es) ==
    LET tokens == IF context.tokens = NotKnown THEN 0 ELSE context.tokens
        suitable == Kept(es, {e \in ToSet(es) : Fits(tokens, e)})
    IN IF Len(suitable) < Len(es) THEN FirstBest(es, WindowOf)
       ELSE FirstBest(suitable, LAMBDA e : -CostOf({}, e))

\* select_context_adaptive: the cheapest with room, else the roomiest.
ContextAdaptive(context, es) ==
    LET tokens == IF context.tokens = NotKnown THEN 0 ELSE context.tokens
        suitable == Kept(es, {e \in ToSet(es) : Fits(tokens, e)})
    IN IF suitable = <<>> THEN FirstBest(es, WindowOf)
       ELSE FirstBest(suitable, LAMBDA e : -CostOf({}, e))

\* select_sticky_session: the sum of an identifier's bytes is its hash.
StickySession(context, es) ==
    LET hash == IF context.session # NotKnown THEN context.session ELSE context.previous
    IN IF context.previous = NotKnown THEN {} ELSE {es[(hash % Len(es)) + 1]}

\* select_region_based: 100 for an endpoint without a region.
RegionBased(region, es) ==
    IF region = "none" THEN {}
    ELSE FirstBest(es, LAMBDA e : IF RegionOf[e] = "none" THEN -100
                                  ELSE -LatencyTo(region, RegionOf[e]))

\* select_least_latency compares success rates: the first endpoint that never
\* failed, else whichever did best so far.
LeastLatency(es, failed) ==
    LET spotless == Kept(es, ToSet(es) \ failed)
    IN IF spotless = <<>> THEN ToSet(es) ELSE {Head(spotless)}

\* select_weighted: in proportion to the weights.
Weighted(es) == {e \in ToSet(es) : Weight[e] > 0}

\* select_cost_optimized
CostOptimized(needs, es) ==
    {e \in FirstBest(es, LAMBDA e : -CostOf(needs, e)) : CostOf(needs, e) < Unaffordable}

\* select_priority: the lowest number.
PriorityBased(es) == FirstBest(es, LAMBDA e : -Priority[e])

\* select_trait_based
TraitBased(needs, es) == BestIfAny(es, LAMBDA e : TraitScore(needs, e))

\* select_tool_aware
ToolAware(context, es) ==
    IF context.tools = {} THEN {} ELSE TraitBased(TraitsFor(context), es)

\* select_reasoning_depth
ReasoningDepth(context, es) ==
    IF context.reasoning THEN BestIfAny(es, ReasoningScore) ELSE {}

Agentic == {"tool_aware", "context_adaptive", "sticky_session", "reasoning_depth"}

\* select; the empty set leaves the choice to select_round_robin.
Favourites(sel, es, failed) ==
    IF sel.strategy \in Agentic /\ ~sel.context.given THEN {}
    ELSE CASE sel.strategy = "round_robin" -> {}
           [] sel.strategy = "weighted" -> Weighted(es)
           [] sel.strategy = "random" -> ToSet(es)
           [] sel.strategy = "least_latency" -> LeastLatency(es, failed)
           [] sel.strategy = "region_based" -> RegionBased(sel.region, es)
           [] sel.strategy = "priority" -> PriorityBased(es)
           [] sel.strategy = "trait_based" -> TraitBased(sel.needs, es)
           [] sel.strategy = "cost_optimized" -> CostOptimized(sel.needs, es)
           [] sel.strategy = "tool_aware" -> ToolAware(sel.context, es)
           [] sel.strategy = "context_adaptive" -> ContextAdaptive(sel.context, es)
           [] sel.strategy = "sticky_session" -> StickySession(sel.context, es)
           [] sel.strategy = "reasoning_depth" -> ReasoningDepth(sel.context, es)
==============================================================================

--------------------------- MODULE MCSmartRouter ---------------------------
(* Instances of the smart router for TLC.                                  *)
EXTENDS SmartRouter, TLC

CONSTANTS a, b, c, off, d, p1, p2, p3, r1, r2, m1, m2

Symmetry == Permutations(Requests)

\* The primary pool has three endpoints and a disabled one, its chain names a
\* provider without a pool; the fallback's pool is the primary of a second
\* model, which no pool lists.
MCPools == <<p2, p1>>
MCEndpointsOf == p1 :> <<a, b, off, c>> @@ p2 :> <<d>>
MCLists == [e \in {a, b, c, off, d} |-> {m1}]
MCServes == [e \in {a, b, c, off} |-> {m1}] @@ d :> {m1, m2}
MCChainOf == p1 :> <<p3, p2>> @@ p2 :> <<>>

MCWeight == a :> 0 @@ b :> 3 @@ c :> 1 @@ off :> 1 @@ d :> 1
MCPriority == a :> 2 @@ b :> 1 @@ c :> 1 @@ off :> 0 @@ d :> 0
MCRegionOf == a :> "none" @@ b :> "eu_west" @@ c :> "us_west" @@ off :> "us_east"
              @@ d :> "none"

\* `a` is cheap and small, `b` dear and roomy, `c` in between.
Cheap == [traits |-> {"cheap", "tool_use"}, cost |-> 3, window |-> 8]
Thinker == [traits |-> {"reasoning", "analysis", "code"}, cost |-> 40, window |-> 200]
Coder == [traits |-> {"code", "tool_use", "math"}, cost |-> 18, window |-> 128]
MCProfilesOf == a :> {Cheap} @@ b :> {Thinker} @@ c :> {Coder, Cheap} @@ off :> {Coder}
                @@ d :> {}

Plain(s) == [strategy |-> s, region |-> "none", needs |-> {}, context |-> NoContext]
With(s, context) == [Plain(s) EXCEPT !.context = [context EXCEPT !.given = TRUE]]

MCSelectors ==
    p1 :> {Plain(s) : s \in {"round_robin", "weighted", "random", "least_latency",
                             "priority", "cost_optimized"}}
          \cup {[Plain("region_based") EXCEPT !.region = "us_west"],
                [Plain("trait_based") EXCEPT !.needs = {"math", "vision"}],
                [Plain("cost_optimized") EXCEPT !.needs = {"code", "math", "analysis"}],
                With("tool_aware", [NoContext EXCEPT !.tools = {"data_analysis"}]),
                With("context_adaptive", [NoContext EXCEPT !.tokens = 100]),
                With("context_adaptive", NoContext),
                With("sticky_session", [NoContext EXCEPT !.previous = 5]),
                With("reasoning_depth", [NoContext EXCEPT !.reasoning = TRUE])}
    @@ p2 :> {Plain("random")}
=============================================================================

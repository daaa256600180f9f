---------------------------- MODULE SmartRouter ----------------------------
(***************************************************************************)
(* SmartRouter: routing of concurrent calls over pools of endpoints, with  *)
(* fallback providers, and the reports their callers send back.  A call    *)
(* that was routed before a circuit opened reports after it.               *)
(*                                                                         *)
(* Pools and selectors are set up by the builder and never change: a pool  *)
(* has its endpoints in order, the models they listed when they were added *)
(* and one selector for every request it serves.                           *)
(***************************************************************************)
EXTENDS HealthTracker, RoutingStrategies

CONSTANTS
    Requests, Models,
    NoEndpoint,
    Pools,              \* the providers in the order they are registered
    EndpointsOf,        \* provider -> the endpoints of its pool, in order
    Enabled,            \* endpoints whose `enabled` is set
    Lists,              \* endpoint -> the models its provider lists
    Serves,             \* endpoint -> the models its provider supports
    ChainOf,            \* provider -> the providers of its FallbackChain
    Selectors,          \* provider -> the selectors it may be built with
    CounterPeriod,      \* a multiple of every length a list can have
    Troubled,           \* bound: the endpoints that fail or are marked
    AdminBudget         \* bound on manual marks

Providers == ToSet(Pools)

ASSUME RouterAssumption ==
    /\ Enabled \cup Troubled \subseteq Endpoints
    \* An endpoint is known by its id: health, weight and provider are looked
    \* up by it, so a pool names it once.
    /\ \A p \in Providers :
          EndpointsOf[p] \in Seq(Endpoints) /\ IsInjective(EndpointsOf[p])
    /\ CounterPeriod \in Nat \ {0}
    /\ \A p \in Providers : \A n \in 1 .. Len(EndpointsOf[p]) :
            n <= Cardinality(Enabled \cap ToSet(EndpointsOf[p])) => CounterPeriod % n = 0
    /\ NoEndpoint \notin Endpoints
    /\ \A e \in Endpoints :
          /\ Priority[e] \in Int
          /\ IsFiniteSet(ProfilesOf[e])
          /\ \A q \in ProfilesOf[e] :
                IsFiniteSet(q.traits) /\ q.cost \in Nat /\ q.window \in Int
    /\ AdminBudget \in Nat

VARIABLES
    selector,   \* provider -> the StrategySelector of its pool
    counter,    \* provider -> its round-robin counter, modulo CounterPeriod
    at,         \* the endpoint each request is calling, or NoEndpoint
    marks,      \* manual marks left
    picks       \* history: provider -> its last picks from one list

routerVars == <<health, selector, counter, at, marks, picks>>

NoPicks == [by |-> "none", list |-> <<>>, turns |-> <<>>]

\* build: register_pool for every pool, then add_fallback_chain.
RouterInit ==
    /\ HealthInit
    /\ selector \in {s \in [Providers -> UNION {Selectors[p] : p \in Providers}] :
                        \A p \in Providers : s[p] \in Selectors[p]}
    /\ counter = [p \in Providers |-> 0]
    /\ at = [r \in Requests |-> NoEndpoint]
    /\ marks = AdminBudget
    /\ picks = [p \in Providers |-> NoPicks]

-----------------------------------------------------------------------------
\* The pools that list a model, by their place in the order.
Listing(m) ==
    {i \in DOMAIN Pools : \E e \in ToSet(EndpointsOf[Pools[i]]) : m \in Lists[e]}

Supports(p, m) == p \in Providers /\ \E e \in ToSet(EndpointsOf[p]) : m \in Serves[e]

\* get_provider_for_model: the last pool that lists it, else any that supports
\* it, in the map's order.  An empty set is model_not_found.
PrimariesOf(m) ==
    IF Listing(m) # {} THEN {Pools[Largest(Listing(m))]}
    ELSE {p \in Providers : Supports(p, m)}

\* try_route_to_provider: what the pool's strategy may pick from.
Available(p) == Kept(EndpointsOf[p], {e \in Enabled : IsHealthy(e)})

\* The pool at depth d of a primary, and what it offers: a provider of the
\* chain must support the model.
PoolAt(primary, d) == IF d = 0 THEN primary ELSE ChainOf[primary][d]

Offered(primary, m, d) ==
    IF d = 0 \/ Supports(PoolAt(primary, d), m) THEN Available(PoolAt(primary, d)) ELSE <<>>

FavouritesIn(p, es) == Favourites(selector[p], es, {e \in Endpoints : health[e].failed})

\* Strategies that rank endpoints by what does not change.
Ranking == {"region_based", "priority", "trait_based", "cost_optimized",
            "tool_aware", "context_adaptive", "reasoning_depth"}

Picked(p, es, e) ==
    LET last == picks[p] IN
    IF FavouritesIn(p, es) = {}
    THEN [by |-> "turn", list |-> es,
          turns |-> IF last.by = "turn" /\ last.list = es /\ Len(last.turns) < Len(es)
                    THEN Append(last.turns, e) ELSE <<e>>]
    ELSE IF selector[p].strategy \in Ranking
         THEN [by |-> "rank", list |-> es, turns |-> <<e>>]
         ELSE NoPicks

\* Mutant of SelectRoundRobin: the counter is read, not advanced.
SelectStill(p, es, e) ==
    /\ e = es[(counter[p] % Len(es)) + 1]
    /\ UNCHANGED counter

\* select_round_robin
SelectRoundRobin(p, es, e) ==
    /\ e = es[(counter[p] % Len(es)) + 1]
    /\ counter' = [counter EXCEPT ![p] = (@ + 1) % CounterPeriod]

Select(p, es, e) ==
    LET favourites == FavouritesIn(p, es) IN
    IF favourites = {} THEN SelectRoundRobin(p, es, e)
    ELSE e \in favourites /\ UNCHANGED counter

\* SmartRouter::route: the first provider with something available; the chain
\* is walked to its end.  With nothing anywhere it is service_unavailable.
Route(r) ==
    /\ at[r] = NoEndpoint
    /\ \E m \in Models : \E primary \in PrimariesOf(m) :
       \E d \in 0 .. Len(ChainOf[primary]), e \in Endpoints :
          LET es == Offered(primary, m, d)
              p == PoolAt(primary, d)
          IN /\ \A s \in 0 .. d - 1 : Offered(primary, m, s) = <<>>
             /\ es # <<>>
             /\ Select(p, es, e)
             /\ at' = [at EXCEPT ![r] = e]
             /\ picks' = [picks EXCEPT ![p] = Picked(p, es, e)]
    /\ UNCHANGED <<health, selector, marks>>

Finish(r) == at' = [at EXCEPT ![r] = NoEndpoint]

\* report_success
ReportSuccess(r) ==
    /\ at[r] # NoEndpoint
    /\ RecordSuccess(at[r])
    /\ Finish(r)
    /\ UNCHANGED <<selector, counter, marks, picks>>

\* report_failure
ReportFailure(r) ==
    /\ at[r] \in Troubled
    /\ RecordFailure(at[r])
    /\ Finish(r)
    /\ UNCHANGED <<selector, counter, marks, picks>>

\* A rate-limit error is no failure, and a caller may die without reporting.
NothingReported(r) ==
    /\ at[r] # NoEndpoint
    /\ Finish(r)
    /\ UNCHANGED <<health, selector, counter, marks, picks>>

Mark(e) ==
    /\ marks > 0
    /\ marks' = marks - 1
    /\ MarkHealthy(e) \/ MarkUnhealthy(e) \/ Reset(e)
    /\ UNCHANGED <<selector, counter, at, picks>>

TimePasses == Elapse /\ UNCHANGED <<selector, counter, at, marks, picks>>

RouterNext ==
    \/ \E r \in Requests :
          Route(r) \/ ReportSuccess(r) \/ ReportFailure(r) \/ NothingReported(r)
    \/ \E e \in Troubled : Mark(e)
    \/ TimePasses

\* Time passes; nothing makes a caller route or report.
RouterSpec == RouterInit /\ [][RouterNext]_routerVars /\ WF_routerVars(TimePasses)

-----------------------------------------------------------------------------
(* Properties.                                                             *)

\* An unhealthy circuit has an opening time and a healthy one has none and
\* fewer than failure_threshold failures since its last success, whatever order
\* reports and marks came in.  One without a date would be refused by
\* is_healthy for good (its `else { false }`).
CircuitsAreSound ==
    \A e \in Endpoints :
        /\ (health[e].state = "healthy") <=> (health[e].opened = None)
        /\ health[e].state = "healthy" => health[e].consecutive < FailureThreshold

\* Calls routed before a circuit opened may go on failing and re-date it, but
\* cannot lock the endpoint out: it becomes available again and again.
EveryCircuitReopens == \A e \in Endpoints : []<>IsHealthy(e)

\* While a pool offers the same list, no endpoint gets a second turn before
\* every other had its first, whichever callers, primaries and fallbacks share
\* the pool's counter and whatever was picked from other lists before.
RoundRobinIsEven ==
    \A p \in Providers : picks[p].by = "turn" => IsInjective(picks[p].turns)

\* The endpoint a ranking strategy chose keeps the pool's traffic as long as it
\* is offered and only others drop out.
FavouriteStays ==
    [][\A p \in Providers :
          LET old == picks[p]
              new == picks'[p]
          IN /\ old.by = "rank" /\ new.by = "rank"
             /\ ToSet(new.list) \subseteq ToSet(old.list)
             /\ old.turns[1] \in ToSet(new.list)
             => new.turns = old.turns]_routerVars
=============================================================================

---------------------------- MODULE ResponsePath ----------------------------
(***************************************************************************)
(* POST /v1/responses from the model name to the provider's answer:        *)
(* resolve_auto_model, the two dispatch loops of create_response (streamed *)
(* and not), escalate_after_failure, and the shared per-model breaker that *)
(* concurrent requests read and write.                                     *)
(*                                                                         *)
(* A step runs from one `.await` to the next.  escalate_after_failure does *)
(* not await, so a failed call, its entry in the breaker and the choice of *)
(* the next model are one step; the failed model is excluded by name, so   *)
(* nothing it writes changes what it then reads.                           *)
(***************************************************************************)
EXTENDS ModelBreaker, TierSelect

CONSTANTS
    Configs,        \* AutoRouter snapshots an admin may install
    NoRouter,       \* auto routing switched off: `auto_router` is None
    Profiles,       \* the requests clients send
    Codes           \* ProviderError::error_code

\* Everything about an AutoRouter that the path reads.  `onErrors` is the
\* trigger list of `triggers_on`, empty when escalation is disabled.
Config == [enabled : BOOLEAN, tiers : [Tiers -> SUBSET Models], floor : Tiers,
           onErrors : SUBSET Codes, maxAttempts : Nat]

\* Everything about a request that the path reads.  A pinned request names
\* `pinned`; an auto request carries bounds, the models able to serve it and
\* permitted by every allow and deny list (`serves`), and those within its
\* budget (`cheap`).  `org` is the organization's override of `enabled`.
Profile == [auto : BOOLEAN, pinned : Models, stream : BOOLEAN, fanout : BOOLEAN,
            min : Tiers, max : Tiers, orgMin : Tiers, orgMax : Tiers,
            tools : BOOLEAN, serves : SUBSET Models, cheap : SUBSET Models,
            sticky : BOOLEAN, prev : Models, org : {"unset", "on", "off"}]

ASSUME PathAssumption ==
    /\ Profiles \subseteq Profile
    /\ Configs \subseteq Config
    /\ NoRouter \notin Config
    /\ Models # {} /\ IsFiniteSet(Models)

VARIABLES
    config,     \* the installed router: a Config or NoRouter
    pc,         \* where each request is
    profile,    \* what each request asks
    route,      \* the router a request took a reference to on arrival
    model,      \* request.model
    tier,       \* decision.tier of an auto request
    failed,     \* the provider failures of a request: [model, at, fed]
    attempt,    \* the dispatch loop's counter
    chosenAt    \* when the current model passed the eligibility oracle

requestVars == <<pc, profile, route, model, tier, failed, attempt, chosenAt>>
vars == <<breakerVars, config, requestVars>>

Places == {"idle", "resolving", "routed", "calling", "streaming",
           "repliedJson", "repliedSse", "refused", "failed", "dropped"}

ProviderFailure == [model : Models, at : Nat, fed : BOOLEAN]

TypeOK ==
    /\ BreakerTypeOK
    /\ config \in Configs \cup {NoRouter}
    /\ pc \in [Requests -> Places]
    /\ profile \in [Requests -> Profiles]
    /\ route \in [Requests -> Configs \cup {NoRouter}]
    /\ model \in [Requests -> Models]
    /\ tier \in [Requests -> Tiers]
    /\ failed \in [Requests -> SUBSET ProviderFailure]
    /\ attempt \in [Requests -> Nat]
    /\ chosenAt \in [Requests -> Nat]

Init ==
    /\ BreakerInit
    /\ config \in Configs \cup {NoRouter}
    /\ pc = [r \in Requests |-> "idle"]
    /\ profile \in [Requests -> Profiles]
    /\ route = [r \in Requests |-> NoRouter]
    /\ model = [r \in Requests |-> profile[r].pinned]
    /\ tier = [r \in Requests |-> 0]
    /\ failed = [r \in Requests |-> {}]
    /\ attempt = [r \in Requests |-> 0]
    /\ chosenAt = [r \in Requests |-> 0]

-----------------------------------------------------------------------------
FailedModels(r) == {f.model : f \in failed[r]}

\* Mutant of Eligible: the oracle does not ask the breaker.
EligibleUnchecked(r) == profile[r].serves

\* GatewayEligibility::is_eligible under the request's allow and deny lists.
Eligible(r) == {m \in profile[r].serves : ~IsOpen(m)}

\* best_of_n and self_consistency degrade `stream: true` to a plain call.
Streams(r) == profile[r].stream /\ ~profile[r].fanout

MoveTo(r, place) == pc' = [pc EXCEPT ![r] = place]

-----------------------------------------------------------------------------
\* resolve_auto_model up to its first await: the handler keeps the router it
\* found, while settings may change under it.
Arrive(r) ==
    /\ pc[r] = "idle"
    /\ MoveTo(r, "resolving")
    /\ route' = [route EXCEPT ![r] = config]
    /\ UNCHANGED <<breakerVars, config, profile, model, tier, failed, attempt,
                   chosenAt>>

\* Organization override, else the router's own switch.
AutoEnabled(r) ==
    /\ route[r] # NoRouter
    /\ \/ profile[r].org = "on"
       \/ profile[r].org = "unset" /\ route[r].enabled

\* A pinned model goes to its provider whatever the (shadow) decision says.
RoutePinned(r) ==
    /\ pc[r] = "resolving"
    /\ ~profile[r].auto
    /\ MoveTo(r, "routed")
    /\ UNCHANGED <<breakerVars, config, profile, route, model, tier, failed,
                   attempt, chosenAt>>

\* decide_with_override succeeded: request.model becomes the selection.  The
\* classifier (heuristic, learned or LLM with its timeout) may name any tier.
RouteAuto(r) ==
    /\ pc[r] = "resolving"
    /\ profile[r].auto
    /\ AutoEnabled(r)
    /\ \E class \in Tiers :
          \E s \in Decisions(route[r], profile[r], class, Eligible(r)) :
              /\ model' = [model EXCEPT ![r] = s.model]
              /\ tier' = [tier EXCEPT ![r] = s.tier]
    /\ chosenAt' = [chosenAt EXCEPT ![r] = clock]
    /\ MoveTo(r, "routed")
    /\ UNCHANGED <<breakerVars, config, profile, route, failed, attempt>>

\* 404 model_not_found (auto is off) or 503 no_eligible_model.
Refuse(r) ==
    /\ pc[r] = "resolving"
    /\ profile[r].auto
    /\ AutoEnabled(r) =>
          \E class \in Tiers :
              Decisions(route[r], profile[r], class, Eligible(r)) = {}
    /\ MoveTo(r, "refused")
    /\ UNCHANGED <<breakerVars, config, profile, route, model, tier, failed,
                   attempt, chosenAt>>

\* A cached response answers before anything is counted, always as JSON.
ServeFromCache(r) ==
    /\ pc[r] = "routed"
    /\ ~Streams(r)
    /\ MoveTo(r, "repliedJson")
    /\ UNCHANGED <<breakerVars, config, profile, route, model, tier, failed,
                   attempt, chosenAt>>

\* Cache miss, conversation lookup, first provider call.
Dispatch(r) ==
    /\ pc[r] = "routed"
    /\ MoveTo(r, "calling")
    /\ UNCHANGED <<breakerVars, config, profile, route, model, tier, failed,
                   attempt, chosenAt>>

-----------------------------------------------------------------------------
\* The provider answered.  A stream counts as a success when it opens; a
\* fan-out never touches the breaker, and its winner is replayed as events to
\* a client that asked for a stream.
CallSucceeds(r) ==
    /\ pc[r] = "calling"
    /\ IF profile[r].fanout THEN UNCHANGED breakerVars
                            ELSE RecordSuccess(model[r])
    /\ MoveTo(r, IF Streams(r) THEN "streaming"
                 ELSE IF profile[r].stream THEN "repliedSse" ELSE "repliedJson")
    /\ UNCHANGED <<config, profile, route, model, tier, failed, attempt, chosenAt>>

\* Mutant of NextChoices: only the model that failed last is excluded.
NextChoicesForgetful(r) ==
    NextCandidates(config, profile[r], tier[r], Eligible(r), {model[r]})

\* Escalation's candidates; `exclude` is every model that failed so far.
NextChoices(r) ==
    NextCandidates(config, profile[r], tier[r], Eligible(r),
                   FailedModels(r) \cup {model[r]})

Triggers(code) == config # NoRouter /\ code \in config.onErrors

\* The failures escalate_after_failure answers with another provider.
CanEscalate(r, code) ==
    /\ ~profile[r].fanout
    /\ Triggers(code)
    /\ profile[r].auto
    /\ attempt[r] < config.maxAttempts
    /\ NextChoices(r) # {}

\* Triggering failures feed the breaker, pinned requests' included.
NoteFailure(r, code) ==
    LET feeds == Triggers(code) /\ ~profile[r].fanout
    IN  /\ IF feeds THEN RecordFailure(model[r], r) ELSE UNCHANGED breakerVars
        /\ failed' = [failed EXCEPT ![r] = @ \cup
                        {[model |-> model[r], at |-> clock, fed |-> feeds]}]

\* Mutant of Escalate: the request is dispatched afresh, so its failures and
\* its attempts do not count against the next try.
EscalateAfresh(r, code) ==
    /\ pc[r] = "calling"
    /\ CanEscalate(r, code)
    /\ RecordFailure(model[r], r)
    /\ failed' = [failed EXCEPT ![r] = {}]
    /\ \E s \in NextChoices(r) :
          /\ model' = [model EXCEPT ![r] = s.model]
          /\ tier' = [tier EXCEPT ![r] = s.tier]
    /\ attempt' = [attempt EXCEPT ![r] = 0]
    /\ chosenAt' = [chosenAt EXCEPT ![r] = clock]
    /\ UNCHANGED <<config, pc, profile, route>>

\* The call fails and the request moves to another model and provider.
Escalate(r, code) ==
    /\ pc[r] = "calling"
    /\ CanEscalate(r, code)
    /\ NoteFailure(r, code)
    /\ \E s \in NextChoices(r) :
          /\ model' = [model EXCEPT ![r] = s.model]
          /\ tier' = [tier EXCEPT ![r] = s.tier]
    /\ attempt' = [attempt EXCEPT ![r] = @ + 1]
    /\ chosenAt' = [chosenAt EXCEPT ![r] = clock]
    /\ UNCHANGED <<config, pc, profile, route>>

\* The call fails and so does the request.
GiveUp(r, code) ==
    /\ pc[r] = "calling"
    /\ ~CanEscalate(r, code)
    /\ NoteFailure(r, code)
    /\ MoveTo(r, "failed")
    /\ UNCHANGED <<config, profile, route, model, tier, attempt, chosenAt>>

\* An open stream ends with response.completed, or with response.failed,
\* response.incomplete or a transport error; the breaker hears of none.
StreamEnds(r) ==
    /\ pc[r] = "streaming"
    /\ \/ MoveTo(r, "repliedSse")
       \/ MoveTo(r, "failed")
    /\ UNCHANGED <<breakerVars, config, profile, route, model, tier, failed,
                   attempt, chosenAt>>

\* The client goes away: the handler's future is dropped where it awaits.
Disconnect(r) ==
    /\ pc[r] \in {"resolving", "routed", "calling", "streaming"}
    /\ MoveTo(r, "dropped")
    /\ UNCHANGED <<breakerVars, config, profile, route, model, tier, failed,
                   attempt, chosenAt>>

\* apply_gateway_settings swaps the router while requests are in flight.
InstallRouter ==
    /\ config' \in (Configs \cup {NoRouter}) \ {config}
    /\ UNCHANGED <<breakerVars, requestVars>>

TimePasses == Tick /\ UNCHANGED <<config, requestVars>>

Answer(r) ==
    \/ CallSucceeds(r)
    \/ \E code \in Codes : Escalate(r, code) \/ GiveUp(r, code)

\* What the handler does of itself, between arrival and the provider's call.
Handle(r) ==
    \/ RoutePinned(r) \/ RouteAuto(r) \/ Refuse(r)
    \/ ServeFromCache(r) \/ Dispatch(r)

Progress(r) == Handle(r) \/ Answer(r) \/ StreamEnds(r)

Next ==
    \/ \E r \in Requests : Arrive(r) \/ Progress(r) \/ Disconnect(r)
    \/ InstallRouter
    \/ TimePasses

Spec == Init /\ [][Next]_vars

\* The runtime polls a handler that can go on.  Nothing makes a provider
\* answer or end its stream, for the providers' HTTP clients carry no timeout,
\* and nothing makes a client or an admin act.
FairSpec == Spec /\ \A r \in Requests : WF_vars(Handle(r))
=============================================================================

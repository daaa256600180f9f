------------------------- MODULE ResponsePathProps -------------------------
(***************************************************************************)
(* What the request path promises, stated over ResponsePath.               *)
(***************************************************************************)
EXTENDS ResponsePath

InCall(r) == pc[r] \in {"routed", "calling"}

\* An auto request may be talking to a model whose breaker is open, but only
\* because the breaker opened after the model was chosen: no decision and no
\* escalation picks a model that is_model_breaker_open then reports open
\* (GatewayEligibility::is_eligible).
OpenBreakerPredatesNoChoice ==
    \A r \in Requests :
        (profile[r].auto /\ InCall(r) /\ IsOpen(model[r]))
            => chosenAt[r] <= openUntil[model[r]] - Cooldown

\* A breaker is open only on evidence: at the instant it opened, `Threshold`
\* triggering failures of that model lay within the window, whoever's
\* requests they were and whatever succeeded in between
\* (record_model_failure's retain and threshold).
Evidence(m, opened) ==
    {e \in UNION {{r} \X failed[r] : r \in Requests} :
        /\ e[2].model = m /\ e[2].fed
        /\ e[2].at <= opened /\ opened - e[2].at < Window}

OpenIsEarned ==
    \A m \in Models :
        IsOpen(m) =>
            Cardinality(Evidence(m, openUntil[m] - Cooldown)) >= Threshold

\* Escalation never returns to a model that failed this request
\* (ExcludingOracle), through any number of router reloads.
NeverRetriesAFailedModel ==
    \A r \in Requests :
        /\ InCall(r) => model[r] \notin FailedModels(r)
        /\ \A f, g \in failed[r] : f.model = g.model => f = g

\* Wherever the escalations of an auto request lead, its tier stays at or
\* above the effective minimum, and at or below the maximum unless the tools
\* floor of the router that decided it is higher.
TierStaysInBounds ==
    \A r \in Requests :
        (profile[r].auto /\ InCall(r)) =>
            LET p == profile[r]
            IN  /\ tier[r] >= EffectiveMin(p)
                /\ tier[r] <= IF p.tools THEN Larger(EffectiveMax(p), route[r].floor)
                                         ELSE EffectiveMax(p)

\* Escalation moves to a tier that is at least as strong.
EscalationNeverWeakens ==
    [][\A r \in Requests :
          (pc[r] = "calling" /\ model'[r] # model[r]) => tier'[r] >= tier[r]]_vars

\* Every request that arrives comes to an end, unless a provider leaves one
\* call or one stream of it unanswered for good: neither routers swapped under
\* it nor providers that keep failing can hold it in the dispatch loop of
\* create_response, calling one model after another.
Ended(r) == pc[r] \in {"repliedJson", "repliedSse", "refused", "failed", "dropped"}

LeftUnanswered(r) ==
    \/ <>[](pc[r] = "streaming")
    \/ \E m \in Models : <>[](pc[r] = "calling" /\ model[r] = m)

EndsUnlessProviderHangs ==
    \A r \in Requests : (pc[r] = "resolving" ~> Ended(r)) \/ LeftUnanswered(r)
=============================================================================

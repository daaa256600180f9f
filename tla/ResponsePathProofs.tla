------------------------- MODULE ResponsePathProofs -------------------------
(***************************************************************************)
(* Theorems about the request path, for any set of requests, models,       *)
(* routers and profiles and any breaker parameters.                        *)
(***************************************************************************)
EXTENDS ResponsePathProps, FiniteSetTheorems, TLAPS

-----------------------------------------------------------------------------
(* What the selection operators return.                                    *)

\* A selection is an eligible model in a searched tier.
LEMMA SelectSound ==
    ASSUME NEW tiers, NEW base, NEW min, NEW max, NEW eligible,
           NEW s \in Select(tiers, base, min, max, eligible)
    PROVE  /\ s.model \in eligible
           /\ s.tier \in Searched(base, min, max)
           /\ s.tier \in Tiers
    BY DEF Select, Searched

\* The same under a budget, whether it was kept or ignored.
LEMMA SelectWithinSound ==
    ASSUME NEW tiers, NEW base, NEW min, NEW max, NEW eligible, NEW cheap,
           NEW s \in SelectWithin(tiers, base, min, max, eligible, cheap)
    PROVE  /\ s.model \in eligible
           /\ s.tier \in Searched(base, min, max)
           /\ s.tier \in Tiers
    <1>1. CASE s \in Select(tiers, base, min, max, eligible \cap cheap)
        BY <1>1, SelectSound
    <1>2. CASE s \in Select(tiers, base, min, max, eligible)
        BY <1>2, SelectSound
    <1>3. QED
        BY <1>1, <1>2 DEF SelectWithin

\* A first decision serves an eligible model from some tier.
LEMMA DecisionsSound ==
    ASSUME NEW cfg, NEW p, NEW class, NEW eligible,
           NEW s \in Decisions(cfg, p, class, eligible)
    PROVE  s.model \in eligible /\ s.tier \in Tiers
    <1> DEFINE base == RequestedTier(p, cfg.floor, class)
    <1>1. CASE s \in StickyPick(cfg.tiers, p, base, eligible)
        BY <1>1 DEF StickyPick
    <1>2. CASE s \in SelectWithin(cfg.tiers, base, EffectiveMin(p),
                                  EffectiveMax(p), eligible, p.cheap)
        BY <1>2, SelectWithinSound
    <1>3. QED
        BY <1>1, <1>2 DEF Decisions

\* An escalation serves an eligible model that has not failed, from the
\* current tier or one above it.
LEMMA NextCandidatesSound ==
    ASSUME NEW cfg, NEW p, NEW t \in Tiers, NEW eligible, NEW failedModels,
           NEW s \in NextCandidates(cfg, p, t, eligible, failedModels)
    PROVE  /\ s.model \in eligible
           /\ s.model \notin failedModels
           /\ s.tier \in Tiers
           /\ s.tier >= t
    <1>1. /\ s.model \in eligible \ failedModels
          /\ s.tier \in Searched(t, t, Larger(MergedMax(p), t))
          /\ s.tier \in Tiers
        BY SelectWithinSound DEF NextCandidates
    <1>2. s.tier >= t
        BY <1>1 DEF Searched, Tiers
    <1>3. QED
        BY <1>1, <1>2

-----------------------------------------------------------------------------
(* Type correctness.                                                       *)

\* The fields of a request's profile are what they are declared to be.
LEMMA ProfileFields ==
    ASSUME TypeOK, NEW r \in Requests
    PROVE  /\ profile[r].serves \subseteq Models
           /\ profile[r].pinned \in Models
           /\ profile[r].auto \in BOOLEAN
           /\ Eligible(r) \subseteq Models
    BY PathAssumption DEF TypeOK, Profile, Eligible

\* The breaker's own operations keep its variables typed.
LEMMA RecordFailureType ==
    ASSUME BreakerTypeOK, NEW m \in Models, NEW r \in Requests,
           RecordFailure(m, r)
    PROVE  BreakerTypeOK'
    <1>1. [call |-> r, at |-> clock] \in Failure
        BY DEF BreakerTypeOK, Failure
    <1>2. Retained(m) \cup {[call |-> r, at |-> clock]} \subseteq Failure
        BY <1>1 DEF BreakerTypeOK, Retained
    <1>3. clock + Cooldown \in Nat
        BY BreakerAssumption DEF BreakerTypeOK
    <1>4. QED
        BY <1>2, <1>3 DEF RecordFailure, BreakerTypeOK

\* A success leaves the breaker well typed.
LEMMA RecordSuccessType ==
    ASSUME BreakerTypeOK, NEW m \in Models, RecordSuccess(m)
    PROVE  BreakerTypeOK'
    BY DEF RecordSuccess, BreakerTypeOK

\* So does a failure, which also joins the request's failed models.
LEMMA NoteFailureType ==
    ASSUME TypeOK, NEW r \in Requests, NEW code \in Codes, NoteFailure(r, code)
    PROVE  BreakerTypeOK' /\ failed' \in [Requests -> SUBSET ProviderFailure]
    <1> DEFINE feeds == Triggers(code) /\ ~profile[r].fanout
               entry == [model |-> model[r], at |-> clock, fed |-> feeds]
    <1>1. BreakerTypeOK'
        <2>1. CASE feeds
            BY <2>1, RecordFailureType DEF NoteFailure, TypeOK
        <2>2. CASE ~feeds
            BY <2>2 DEF NoteFailure, TypeOK, breakerVars, BreakerTypeOK
        <2>3. QED
            BY <2>1, <2>2
    <1>2. entry \in ProviderFailure
        <2>1. feeds \in BOOLEAN
            BY Zenon
        <2>2. QED
            BY <2>1 DEF TypeOK, BreakerTypeOK, ProviderFailure
    <1>3. failed' = [failed EXCEPT ![r] = @ \cup {entry}]
        BY DEF NoteFailure
    <1>4. QED
        BY <1>1, <1>2, <1>3 DEF TypeOK

\* What comes after a failure is a model of the catalog that has not failed.
LEMMA NextChoicesSound ==
    ASSUME TypeOK, NEW r \in Requests, config # NoRouter,
           NEW s \in NextChoices(r)
    PROVE  /\ s.model \in Models
           /\ s.model \notin FailedModels(r)
           /\ s.model # model[r]
           /\ ~IsOpen(s.model)
           /\ s.tier \in Tiers
           /\ s.tier >= tier[r]
    <1>1. tier[r] \in Tiers
        BY DEF TypeOK
    <1>2. /\ s.model \in Eligible(r)
          /\ s.model \notin FailedModels(r) \cup {model[r]}
          /\ s.tier \in Tiers
          /\ s.tier >= tier[r]
        BY <1>1, NextCandidatesSound DEF NextChoices
    <1>3. QED
        BY <1>2, ProfileFields DEF Eligible

\* The variables always have their types: every request is somewhere on the
\* path with a model of the gateway, and the breaker stays typed.
THEOREM TypeCorrect == Spec => []TypeOK
<1>1. Init => TypeOK
    <2> SUFFICES ASSUME Init PROVE TypeOK
        OBVIOUS
    <2>1. \A r \in Requests : profile[r].pinned \in Models
        BY PathAssumption DEF Init, Profile
    <2>2. QED
        BY <2>1 DEF Init, BreakerInit, TypeOK, BreakerTypeOK, Places, Tiers
<1>2. TypeOK /\ [Next]_vars => TypeOK'
    <2> SUFFICES ASSUME TypeOK, [Next]_vars PROVE TypeOK'
        OBVIOUS
    <2> USE DEF TypeOK, MoveTo, Places
    <2>1. ASSUME NEW r \in Requests, Arrive(r) PROVE TypeOK'
        BY <2>1 DEF Arrive, breakerVars, BreakerTypeOK
    <2>2. ASSUME NEW r \in Requests, RoutePinned(r) PROVE TypeOK'
        BY <2>2 DEF RoutePinned, breakerVars, BreakerTypeOK
    <2>3. ASSUME NEW r \in Requests, RouteAuto(r) PROVE TypeOK'
        <3>0. PICK class \in Tiers :
                \E s \in Decisions(route[r], profile[r], class, Eligible(r)) :
                    /\ model' = [model EXCEPT ![r] = s.model]
                    /\ tier' = [tier EXCEPT ![r] = s.tier]
            BY <2>3 DEF RouteAuto
        <3>1. PICK s \in Decisions(route[r], profile[r], class, Eligible(r)) :
                /\ model' = [model EXCEPT ![r] = s.model]
                /\ tier' = [tier EXCEPT ![r] = s.tier]
            BY <3>0
        <3>2. s.model \in Models /\ s.tier \in Tiers
            BY <3>1, DecisionsSound, ProfileFields
        <3>3. clock \in Nat
            BY DEF BreakerTypeOK
        <3>4. QED
            BY <2>3, <3>1, <3>2, <3>3 DEF RouteAuto, breakerVars, BreakerTypeOK
    <2>4. ASSUME NEW r \in Requests, Refuse(r) PROVE TypeOK'
        BY <2>4 DEF Refuse, breakerVars, BreakerTypeOK
    <2>5. ASSUME NEW r \in Requests, ServeFromCache(r) PROVE TypeOK'
        BY <2>5 DEF ServeFromCache, breakerVars, BreakerTypeOK
    <2>6. ASSUME NEW r \in Requests, Dispatch(r) PROVE TypeOK'
        BY <2>6 DEF Dispatch, breakerVars, BreakerTypeOK
    <2>7. ASSUME NEW r \in Requests, CallSucceeds(r) PROVE TypeOK'
        <3>1. BreakerTypeOK'
            <4>1. CASE profile[r].fanout
                BY <2>7, <4>1 DEF CallSucceeds, breakerVars, BreakerTypeOK
            <4>2. CASE ~profile[r].fanout
                BY <2>7, <4>2, RecordSuccessType DEF CallSucceeds
            <4>3. QED
                BY <4>1, <4>2
        <3>2. QED
            BY <2>7, <3>1 DEF CallSucceeds
    <2>8. ASSUME NEW r \in Requests, NEW code \in Codes, Escalate(r, code)
          PROVE TypeOK'
        <3>1. PICK s \in NextChoices(r) :
                /\ model' = [model EXCEPT ![r] = s.model]
                /\ tier' = [tier EXCEPT ![r] = s.tier]
            BY <2>8 DEF Escalate
        <3>2. s.model \in Models /\ s.tier \in Tiers
            BY <2>8, <3>1, NextChoicesSound DEF Escalate, CanEscalate, Triggers
        <3>3. BreakerTypeOK' /\ failed' \in [Requests -> SUBSET ProviderFailure]
            BY <2>8, NoteFailureType DEF Escalate
        <3>4. clock \in Nat
            BY DEF BreakerTypeOK
        <3>5. /\ model' \in [Requests -> Models]
              /\ tier' \in [Requests -> Tiers]
            BY <3>1, <3>2
        <3>6. /\ attempt' \in [Requests -> Nat]
              /\ chosenAt' \in [Requests -> Nat]
              /\ UNCHANGED <<config, pc, profile, route>>
            BY <2>8, <3>4 DEF Escalate
        <3>7. QED
            BY <3>3, <3>5, <3>6
    <2>9. ASSUME NEW r \in Requests, NEW code \in Codes, GiveUp(r, code)
          PROVE TypeOK'
        <3>1. BreakerTypeOK' /\ failed' \in [Requests -> SUBSET ProviderFailure]
            BY <2>9, NoteFailureType DEF GiveUp
        <3>2. QED
            BY <2>9, <3>1 DEF GiveUp
    <2>10. ASSUME NEW r \in Requests, StreamEnds(r) PROVE TypeOK'
        BY <2>10 DEF StreamEnds, breakerVars, BreakerTypeOK
    <2>11. ASSUME NEW r \in Requests, Disconnect(r) PROVE TypeOK'
        BY <2>11 DEF Disconnect, breakerVars, BreakerTypeOK
    <2>12. CASE InstallRouter
        BY <2>12 DEF InstallRouter, breakerVars, BreakerTypeOK, requestVars
    <2>13. CASE TimePasses
        BY <2>13 DEF TimePasses, Tick, BreakerTypeOK, requestVars
    <2>14. CASE UNCHANGED vars
        BY <2>14 DEF vars, breakerVars, BreakerTypeOK, requestVars
    <2>15. QED
        BY <2>1, <2>2, <2>3, <2>4, <2>5, <2>6, <2>7, <2>8, <2>9, <2>10, <2>11,
           <2>12, <2>13, <2>14 DEF Next, Progress, Handle, Answer
<1>3. QED
    BY <1>1, <1>2, PTL DEF Spec

-----------------------------------------------------------------------------
(* The breaker and the choices made against it.                            *)

\* A choice is never in the future, and an open breaker never admits one
\* made after it opened.
ChoiceInv ==
    /\ \A r \in Requests : chosenAt[r] <= clock
    /\ OpenBreakerPredatesNoChoice

\* Recording a failure either opens the model's breaker from now on or leaves
\* every breaker as it was; no other model is affected.
LEMMA NoteFailureOpens ==
    ASSUME TypeOK, NEW r \in Requests, NEW code \in Codes, NoteFailure(r, code)
    PROVE  /\ clock' = clock
           /\ \A m \in Models :
                 \/ openUntil'[m] = openUntil[m]
                 \/ m = model[r] /\ openUntil'[m] = clock + Cooldown
    BY DEF NoteFailure, RecordFailure, breakerVars, TypeOK, BreakerTypeOK

\* No request is ever sent to a model whose breaker was already open when the
\* model was chosen, by a first decision or by an escalation.
THEOREM ChoicesRespectTheBreaker == Spec => []OpenBreakerPredatesNoChoice
<1>1. Init => ChoiceInv
    BY DEF Init, BreakerInit, ChoiceInv, OpenBreakerPredatesNoChoice, InCall
<1>2. TypeOK /\ ChoiceInv /\ [Next]_vars => ChoiceInv'
    <2> SUFFICES ASSUME TypeOK, ChoiceInv, [Next]_vars PROVE ChoiceInv'
        OBVIOUS
    <2> USE DEF ChoiceInv, OpenBreakerPredatesNoChoice, InCall, IsOpen, MoveTo
    <2>0. /\ clock \in Nat /\ Cooldown \in Nat
          /\ openUntil \in [Models -> Nat]
          /\ pc \in [Requests -> Places] /\ chosenAt \in [Requests -> Nat]
          /\ model \in [Requests -> Models]
        BY BreakerAssumption DEF TypeOK, BreakerTypeOK
    <2>1. ASSUME NEW r \in Requests,
                 Arrive(r) \/ Refuse(r) \/ ServeFromCache(r) \/ Dispatch(r)
                 \/ StreamEnds(r) \/ Disconnect(r)
          PROVE ChoiceInv'
        BY <2>0, <2>1 DEF Arrive, Refuse, ServeFromCache, Dispatch, StreamEnds,
                          Disconnect, breakerVars
    <2>2. ASSUME NEW r \in Requests, RoutePinned(r) PROVE ChoiceInv'
        BY <2>0, <2>2 DEF RoutePinned, breakerVars
    <2>3. ASSUME NEW r \in Requests, RouteAuto(r) PROVE ChoiceInv'
        <3>1. PICK m \in Eligible(r) : model' = [model EXCEPT ![r] = m]
            BY <2>3, DecisionsSound DEF RouteAuto
        <3>2. ~IsOpen(m) /\ m \in Models
            BY <3>1, ProfileFields DEF Eligible
        <3>3. QED
            BY <2>0, <2>3, <3>1, <3>2 DEF RouteAuto, breakerVars
    <2>4. ASSUME NEW r \in Requests, CallSucceeds(r) PROVE ChoiceInv'
        BY <2>0, <2>4 DEF CallSucceeds, RecordSuccess, breakerVars
    <2>5. ASSUME NEW r \in Requests, NEW code \in Codes, Escalate(r, code)
          PROVE ChoiceInv'
        <3>1. PICK s \in NextChoices(r) : model' = [model EXCEPT ![r] = s.model]
            BY <2>5 DEF Escalate
        <3>2. /\ s.model \in Models
              /\ s.model # model[r]
              /\ ~IsOpen(s.model)
            BY <2>5, <3>1, NextChoicesSound DEF Escalate, CanEscalate, Triggers
        <3>3. /\ clock' = clock
              /\ \A m \in Models :
                    \/ openUntil'[m] = openUntil[m]
                    \/ m = model[r] /\ openUntil'[m] = clock + Cooldown
            BY <2>5, NoteFailureOpens DEF Escalate
        <3>4. chosenAt' = [chosenAt EXCEPT ![r] = clock]
            BY <2>5 DEF Escalate
        <3>5. UNCHANGED <<pc, profile>>
            BY <2>5 DEF Escalate
        <3>6. QED
            BY <2>0, <3>1, <3>2, <3>3, <3>4, <3>5
    <2>6. ASSUME NEW r \in Requests, NEW code \in Codes, GiveUp(r, code)
          PROVE ChoiceInv'
        <3>1. /\ clock' = clock
              /\ \A m \in Models :
                    \/ openUntil'[m] = openUntil[m]
                    \/ m = model[r] /\ openUntil'[m] = clock + Cooldown
            BY <2>6, NoteFailureOpens DEF GiveUp
        <3>2. /\ UNCHANGED <<profile, model, chosenAt>>
              /\ pc' = [pc EXCEPT ![r] = "failed"]
            BY <2>6 DEF GiveUp
        <3>3. QED
            BY <2>0, <3>1, <3>2
    <2>7. CASE InstallRouter
        BY <2>7 DEF InstallRouter, breakerVars, requestVars
    <2>8. CASE TimePasses
        BY <2>0, <2>8 DEF TimePasses, Tick, requestVars
    <2>9. CASE UNCHANGED vars
        BY <2>9 DEF vars, breakerVars, requestVars
    <2>10. QED
        BY <2>1, <2>2, <2>3, <2>4, <2>5, <2>6, <2>7, <2>8, <2>9
           DEF Next, Progress, Handle, Answer
<1>3. QED
    BY <1>1, <1>2, TypeCorrect, PTL DEF Spec, ChoiceInv
-----------------------------------------------------------------------------
(* The tiers a request passes through.                                     *)

\* The merged bounds of a profile are tiers and never crossed.
LEMMA BoundsAreTiers ==
    ASSUME NEW p \in Profile
    PROVE  /\ EffectiveMin(p) \in Tiers
           /\ EffectiveMax(p) \in Tiers
           /\ EffectiveMin(p) <= EffectiveMax(p)
    BY DEF Profile, EffectiveMin, EffectiveMax, MergedMin, MergedMax, Larger,
           Smaller, Tiers

\* What a router may answer with: at least the minimum, at most the maximum or
\* the floor that tools ask for.
InBounds(t, p, floor) ==
    /\ t >= EffectiveMin(p)
    /\ t <= IF p.tools THEN Larger(EffectiveMax(p), floor) ELSE EffectiveMax(p)

\* The requested tier is in bounds whatever the classifier said.
LEMMA RequestedInBounds ==
    ASSUME NEW p \in Profile, NEW floor \in Tiers, NEW class \in Tiers
    PROVE  /\ RequestedTier(p, floor, class) \in Tiers
           /\ InBounds(RequestedTier(p, floor, class), p, floor)
    <1> DEFINE min == EffectiveMin(p)
               max == EffectiveMax(p)
    <1>1. min \in 0 .. 3 /\ max \in 0 .. 3 /\ min <= max
        BY BoundsAreTiers DEF Tiers
    <1>2. floor \in 0 .. 3 /\ class \in 0 .. 3
        BY DEF Tiers
    <1> HIDE DEF min, max
    <1>3. QED
        BY <1>1, <1>2 DEF RequestedTier, InBounds, Larger, Smaller, Tiers, min, max

\* So is the tier of every decision: searching further up stops at the
\* maximum, searching down at the minimum, and a tool loop keeps its model
\* only between the requested tier and the maximum.
LEMMA DecisionsInBounds ==
    ASSUME NEW cfg, cfg.floor \in Tiers, NEW p \in Profile, NEW class \in Tiers,
           NEW eligible, NEW s \in Decisions(cfg, p, class, eligible)
    PROVE  s.tier \in Tiers /\ InBounds(s.tier, p, cfg.floor)
    <1> DEFINE base == RequestedTier(p, cfg.floor, class)
               min == EffectiveMin(p)
               max == EffectiveMax(p)
    <1>1. /\ min \in 0 .. 3 /\ max \in 0 .. 3 /\ min <= max
          /\ base \in 0 .. 3 /\ cfg.floor \in 0 .. 3
          /\ InBounds(base, p, cfg.floor)
        BY BoundsAreTiers, RequestedInBounds DEF Tiers
    <1>2. CASE s \in StickyPick(cfg.tiers, p, base, eligible)
        <2>1. s.tier \in 0 .. 3 /\ s.tier >= base /\ s.tier <= max
            BY <1>2 DEF StickyPick, Tiers
        <2> HIDE DEF base, min, max
        <2>2. QED
            BY <1>1, <2>1 DEF InBounds, Larger, min, max, Tiers
    <1>3. CASE s \in SelectWithin(cfg.tiers, base, min, max, eligible, p.cheap)
        <2>1. s.tier \in 0 .. 3 /\ s.tier \in Searched(base, min, max)
            BY <1>3, SelectWithinSound DEF Tiers
        <2>2. \/ s.tier = base
              \/ s.tier > base /\ s.tier <= max
              \/ s.tier < base /\ s.tier >= min
            BY <2>1 DEF Searched
        <2> HIDE DEF base, min, max
        <2>3. QED
            BY <1>1, <2>1, <2>2 DEF InBounds, Larger, min, max, Tiers
    <1>4. QED
        BY <1>2, <1>3 DEF Decisions

\* An escalation stays in bounds too: it climbs to the maximum at most, or
\* not at all when the tools floor has put the request above it.
LEMMA EscalationsInBounds ==
    ASSUME NEW cfg, NEW p \in Profile, NEW t \in Tiers, NEW floor \in Tiers,
           InBounds(t, p, floor), NEW eligible, NEW failedModels,
           NEW s \in NextCandidates(cfg, p, t, eligible, failedModels)
    PROVE  InBounds(s.tier, p, floor)
    <1> DEFINE min == EffectiveMin(p)
               max == EffectiveMax(p)
    <1>1. /\ min \in 0 .. 3 /\ max \in 0 .. 3 /\ min <= max
          /\ t \in 0 .. 3 /\ floor \in 0 .. 3
        BY BoundsAreTiers DEF Tiers
    <1>2. s.tier \in 0 .. 3 /\ s.tier \in Searched(t, t, Larger(MergedMax(p), t))
        BY SelectWithinSound DEF NextCandidates, Tiers
    <1>3. s.tier = t \/ (s.tier > t /\ s.tier <= Larger(max, t))
        BY <1>1, <1>2 DEF Searched, EffectiveMax, Tiers
    <1> HIDE DEF min, max
    <1>4. QED
        BY <1>1, <1>2, <1>3 DEF InBounds, Larger, min, max

\* An auto request in its dispatch loop was decided by a router, and is within
\* the bounds that router gave it.
BoundsInv ==
    \A r \in Requests :
        (profile[r].auto /\ InCall(r)) =>
            /\ route[r] # NoRouter
            /\ InBounds(tier[r], profile[r], route[r].floor)

\* Through every decision, escalation and router swap an auto request stays
\* within the merged bounds of its client and its organization, but for the
\* floor that tools ask for (decide_with_override, next_candidate).
THEOREM TiersStayInBounds == Spec => []TierStaysInBounds
<1>1. Init => BoundsInv
    BY DEF Init, BoundsInv, InCall
<1>2. TypeOK /\ BoundsInv /\ [Next]_vars => BoundsInv'
    <2> SUFFICES ASSUME TypeOK, BoundsInv, [Next]_vars PROVE BoundsInv'
        OBVIOUS
    <2> USE DEF InCall, MoveTo
    <2>0. /\ pc \in [Requests -> Places] /\ tier \in [Requests -> Tiers]
          /\ route \in [Requests -> Configs \cup {NoRouter}]
          /\ \A r \in Requests : profile[r] \in Profile
          /\ \A c \in Configs : c.floor \in Tiers
        BY PathAssumption DEF TypeOK, Config
    <2>1. ASSUME NEW r \in Requests,
                 \/ Refuse(r) \/ ServeFromCache(r) \/ Dispatch(r)
                 \/ CallSucceeds(r) \/ StreamEnds(r) \/ Disconnect(r)
                 \/ RoutePinned(r) \/ (\E code \in Codes : GiveUp(r, code))
          PROVE BoundsInv'
        <3>1. UNCHANGED <<profile, route, tier>>
            BY <2>1 DEF Refuse, ServeFromCache, Dispatch, CallSucceeds,
                        StreamEnds, Disconnect, RoutePinned, GiveUp
        <3>2. ~RoutePinned(r) => \A q \in Requests : InCall(q)' => InCall(q)
            BY <2>0, <2>1 DEF Refuse, ServeFromCache, Dispatch, CallSucceeds,
                        StreamEnds, Disconnect, GiveUp
        <3>3. RoutePinned(r) => \A q \in Requests :
                    InCall(q)' => InCall(q) \/ ~profile[q].auto
            BY <2>0 DEF RoutePinned
        <3>4. QED
            BY <3>1, <3>2, <3>3 DEF BoundsInv, InBounds
    <2>2. ASSUME NEW r \in Requests, Arrive(r) PROVE BoundsInv'
        BY <2>0, <2>2 DEF Arrive, BoundsInv, InBounds
    <2>3. ASSUME NEW r \in Requests, RouteAuto(r) PROVE BoundsInv'
        <3>1. PICK class \in Tiers :
                \E s \in Decisions(route[r], profile[r], class, Eligible(r)) :
                    /\ model' = [model EXCEPT ![r] = s.model]
                    /\ tier' = [tier EXCEPT ![r] = s.tier]
            BY <2>3 DEF RouteAuto
        <3>2. PICK s \in Decisions(route[r], profile[r], class, Eligible(r)) :
                    tier' = [tier EXCEPT ![r] = s.tier]
            BY <3>1
        <3>3. route[r] # NoRouter /\ route[r].floor \in Tiers
            BY <2>0, <2>3 DEF RouteAuto, AutoEnabled
        <3>4. InBounds(s.tier, profile[r], route[r].floor)
            BY <2>0, <3>2, <3>3, DecisionsInBounds
        <3>5. /\ UNCHANGED <<profile, route>>
              /\ pc' = [pc EXCEPT ![r] = "routed"]
            BY <2>3 DEF RouteAuto
        <3>6. QED
            BY <2>0, <3>2, <3>3, <3>4, <3>5 DEF BoundsInv, InBounds
    <2>4. ASSUME NEW r \in Requests, NEW code \in Codes, Escalate(r, code)
          PROVE BoundsInv'
        <3>1. PICK s \in NextChoices(r) : tier' = [tier EXCEPT ![r] = s.tier]
            BY <2>4 DEF Escalate
        <3>2. UNCHANGED <<profile, route, pc>> /\ InCall(r) /\ profile[r].auto
            BY <2>4 DEF Escalate, CanEscalate
        <3>3. route[r].floor \in Tiers /\ InBounds(tier[r], profile[r], route[r].floor)
            BY <2>0, <3>2 DEF BoundsInv
        <3>4. InBounds(s.tier, profile[r], route[r].floor)
            BY <2>0, <3>1, <3>3, EscalationsInBounds DEF NextChoices
        <3>5. QED
            BY <2>0, <3>1, <3>2, <3>4 DEF BoundsInv, InBounds
    <2>5. CASE InstallRouter \/ TimePasses \/ UNCHANGED vars
        BY <2>5 DEF InstallRouter, TimePasses, vars, requestVars, BoundsInv, InBounds
    <2>6. QED
        BY <2>1, <2>2, <2>3, <2>4, <2>5 DEF Next, Progress, Handle, Answer
<1>3. BoundsInv => TierStaysInBounds
    BY DEF BoundsInv, TierStaysInBounds, InBounds
<1>4. QED
    BY <1>1, <1>2, <1>3, TypeCorrect, PTL DEF Spec

\* A failed call is answered by a model of the same tier or a stronger one,
\* whichever router is installed by then (next_candidate searches upward).
THEOREM EscalationClimbs == Spec => EscalationNeverWeakens
<1> DEFINE Climbs ==
        \A r \in Requests :
            (pc[r] = "calling" /\ model'[r] # model[r]) => tier'[r] >= tier[r]
<1>1. TypeOK /\ [Next]_vars => [Climbs]_vars
    <2> SUFFICES ASSUME TypeOK, [Next]_vars PROVE Climbs
        OBVIOUS
    <2>0. /\ pc \in [Requests -> Places] /\ tier \in [Requests -> Tiers]
          /\ model \in [Requests -> Models]
        BY DEF TypeOK
    <2>1. ASSUME NEW r \in Requests,
                 \/ Arrive(r) \/ Refuse(r) \/ ServeFromCache(r) \/ Dispatch(r)
                 \/ CallSucceeds(r) \/ StreamEnds(r) \/ Disconnect(r)
                 \/ RoutePinned(r) \/ (\E code \in Codes : GiveUp(r, code))
          PROVE Climbs
        BY <2>1 DEF Arrive, Refuse, ServeFromCache, Dispatch, CallSucceeds,
                    StreamEnds, Disconnect, RoutePinned, GiveUp
    <2>2. ASSUME NEW r \in Requests, RouteAuto(r) PROVE Climbs
        <3>1. pc[r] # "calling"
            BY <2>2 DEF RouteAuto
        <3>2. \A q \in Requests \ {r} : model'[q] = model[q]
            BY <2>0, <2>2 DEF RouteAuto
        <3>3. QED
            BY <3>1, <3>2
    <2>3. ASSUME NEW r \in Requests, NEW code \in Codes, Escalate(r, code)
          PROVE Climbs
        <3>1. PICK s \in NextChoices(r) :
                /\ model' = [model EXCEPT ![r] = s.model]
                /\ tier' = [tier EXCEPT ![r] = s.tier]
            BY <2>3 DEF Escalate
        <3>2. s.tier >= tier[r]
            BY <2>3, <3>1, NextChoicesSound DEF Escalate, CanEscalate, Triggers
        <3>3. QED
            BY <2>0, <3>1, <3>2
    <2>4. CASE InstallRouter \/ TimePasses \/ UNCHANGED vars
        BY <2>4 DEF InstallRouter, TimePasses, vars, requestVars
    <2>5. QED
        BY <2>1, <2>2, <2>3, <2>4 DEF Next, Progress, Handle, Answer
<1>2. Spec => [][Climbs]_vars
    BY <1>1, TypeCorrect, PTL DEF Spec
<1>3. QED
    BY <1>2 DEF EscalationNeverWeakens

-----------------------------------------------------------------------------
(* The failures a request leaves behind it.                                *)

\* Nothing has failed before the first call, the model in use is not among
\* those that failed, and no model failed twice.
RetryInv ==
    /\ \A r \in Requests :
          pc[r] \in {"idle", "resolving", "routed"} => failed[r] = {}
    /\ NeverRetriesAFailedModel

\* What NoteFailure adds to the failures of the request.
LEMMA NoteFailureRecords ==
    ASSUME TypeOK, NEW r \in Requests, NEW code \in Codes, NoteFailure(r, code)
    PROVE  \E e : /\ e.model = model[r]
                  /\ e.at = clock
                  /\ (e.fed <=> Triggers(code) /\ ~profile[r].fanout)
                  /\ failed' = [failed EXCEPT ![r] = @ \cup {e}]
    BY DEF NoteFailure

\* However many routers come and go, a request is never sent to a model that
\* already failed it (ExcludingOracle over the accumulated failures).
THEOREM NoModelIsRetried == Spec => []NeverRetriesAFailedModel
<1>1. Init => RetryInv
    BY DEF Init, RetryInv, NeverRetriesAFailedModel, InCall
<1>2. TypeOK /\ RetryInv /\ [Next]_vars => RetryInv'
    <2> SUFFICES ASSUME TypeOK, RetryInv, [Next]_vars PROVE RetryInv'
        OBVIOUS
    <2> USE DEF InCall, MoveTo, NeverRetriesAFailedModel, FailedModels
    <2>0. /\ pc \in [Requests -> Places] /\ model \in [Requests -> Models]
          /\ failed \in [Requests -> SUBSET ProviderFailure]
        BY DEF TypeOK
    <2>1. ASSUME NEW r \in Requests,
                 \/ Arrive(r) \/ Refuse(r) \/ ServeFromCache(r) \/ Dispatch(r)
                 \/ CallSucceeds(r) \/ StreamEnds(r) \/ Disconnect(r)
                 \/ RoutePinned(r)
          PROVE RetryInv'
        BY <2>0, <2>1 DEF Arrive, Refuse, ServeFromCache, Dispatch,
                    CallSucceeds, StreamEnds, Disconnect, RoutePinned, RetryInv
    <2>2. ASSUME NEW r \in Requests, RouteAuto(r) PROVE RetryInv'
        <3>1. /\ UNCHANGED failed /\ pc' = [pc EXCEPT ![r] = "routed"]
              /\ pc[r] = "resolving"
              /\ \A q \in Requests \ {r} : model'[q] = model[q]
            BY <2>0, <2>2 DEF RouteAuto
        <3>2. QED
            BY <2>0, <3>1 DEF RetryInv
    <2>3. ASSUME NEW r \in Requests, NEW code \in Codes, Escalate(r, code)
          PROVE RetryInv'
        <3>1. PICK s \in NextChoices(r) : model' = [model EXCEPT ![r] = s.model]
            BY <2>3 DEF Escalate
        <3>2. s.model \notin FailedModels(r) /\ s.model # model[r]
            BY <2>3, <3>1, NextChoicesSound DEF Escalate, CanEscalate, Triggers
        <3>3. PICK e : /\ e.model = model[r]
                       /\ failed' = [failed EXCEPT ![r] = @ \cup {e}]
            BY <2>3, NoteFailureRecords DEF Escalate
        <3>4. UNCHANGED pc /\ pc[r] = "calling"
            BY <2>3 DEF Escalate
        <3>5. \A f \in failed[r] : f.model # model[r]
            BY <3>4 DEF RetryInv
        <3>6. QED
            BY <2>0, <3>1, <3>2, <3>3, <3>4, <3>5 DEF RetryInv
    <2>4. ASSUME NEW r \in Requests, NEW code \in Codes, GiveUp(r, code)
          PROVE RetryInv'
        <3>1. PICK e : /\ e.model = model[r]
                       /\ failed' = [failed EXCEPT ![r] = @ \cup {e}]
            BY <2>4, NoteFailureRecords DEF GiveUp
        <3>2. /\ UNCHANGED model /\ pc[r] = "calling"
              /\ pc' = [pc EXCEPT ![r] = "failed"]
            BY <2>4 DEF GiveUp
        <3>3. \A f \in failed[r] : f.model # model[r]
            BY <3>2 DEF RetryInv
        <3>4. QED
            BY <2>0, <3>1, <3>2, <3>3 DEF RetryInv
    <2>5. CASE InstallRouter \/ TimePasses \/ UNCHANGED vars
        BY <2>5 DEF InstallRouter, TimePasses, vars, requestVars, RetryInv
    <2>6. QED
        BY <2>1, <2>2, <2>3, <2>4, <2>5 DEF Next, Progress, Handle, Answer
<1>3. QED
    BY <1>1, <1>2, TypeCorrect, PTL DEF Spec, RetryInv

-----------------------------------------------------------------------------
(* The evidence behind an open breaker.                                    *)

\* Every provider failure so far, with the request that met it.
AllFailures == UNION {{r} \X failed[r] : r \in Requests}

\* What the breaker remembers did happen, to the model it is held against.
MemoryIsEvidence ==
    \A m \in Models : \A f \in failures[m] :
        /\ f.at <= clock
        /\ \E e \in failed[f.call] : e.model = m /\ e.fed /\ e.at = f.at

EvidenceInv ==
    /\ IsFiniteSet(AllFailures)
    /\ MemoryIsEvidence
    /\ OpenIsEarned

\* Failures are only ever added, so evidence never shrinks.
LEMMA EvidenceGrows ==
    ASSUME TypeOK, IsFiniteSet(AllFailures)', NEW m, NEW opened,
           \A r \in Requests : failed[r] \subseteq failed'[r]
    PROVE  /\ IsFiniteSet(Evidence(m, opened))
           /\ IsFiniteSet(Evidence(m, opened))'
           /\ Evidence(m, opened) \subseteq Evidence(m, opened)'
           /\ Cardinality(Evidence(m, opened)) <= Cardinality(Evidence(m, opened)')
    <1>1. Evidence(m, opened) \subseteq Evidence(m, opened)'
        BY DEF Evidence
    <1>2. Evidence(m, opened)' \subseteq AllFailures'
        BY DEF Evidence, AllFailures
    <1>3. IsFiniteSet(Evidence(m, opened)')
        BY <1>2, FS_Subset
    <1>4. QED
        BY <1>1, <1>3, FS_Subset

\* The counted failures are as many failed calls: a request calls one model
\* once at an instant, so no two of them share their evidence.
LEMMA CountedAreEvidence ==
    ASSUME NEW counted \in SUBSET Failure, NEW E, IsFiniteSet(E),
           \A f \in counted : \E e : <<f.call, e>> \in E /\ e.at = f.at
    PROVE  /\ Cardinality(counted) \in Nat
           /\ Cardinality(E) \in Nat
           /\ Cardinality(counted) <= Cardinality(E)
    <1> DEFINE proof == [f \in counted |->
                   CHOOSE x \in E : x[1] = f.call /\ x[2].at = f.at]
    <1>1. ASSUME NEW f \in counted
          PROVE  proof[f] \in E /\ proof[f][1] = f.call /\ proof[f][2].at = f.at
        <2>1. PICK e : <<f.call, e>> \in E /\ e.at = f.at
            OBVIOUS
        <2>2. \E x \in E : x[1] = f.call /\ x[2].at = f.at
            BY <2>1
        <2>3. QED
            BY <2>2
    <1>2. ASSUME NEW f \in counted, NEW g \in counted, proof[f] = proof[g]
          PROVE  f = g
        <2>1. f.call = g.call /\ f.at = g.at
            BY <1>1, <1>2
        <2>2. QED
            BY <2>1 DEF Failure
    <1>3. proof \in Injection(counted, E)
        BY <1>1, <1>2 DEF Injection, IsInjective
    <1>4. IsFiniteSet(counted) /\ Cardinality(counted) <= Cardinality(E)
        BY <1>3, FS_Injection
    <1>5. QED
        BY <1>4, FS_CardinalityType

\* One more failure, noted in the log of its request.
LEMMA LogGrows ==
    ASSUME TypeOK, IsFiniteSet(AllFailures), NEW r \in Requests, NEW e,
           failed' = [failed EXCEPT ![r] = @ \cup {e}]
    PROVE  /\ IsFiniteSet(AllFailures)'
           /\ \A q \in Requests : failed[q] \subseteq failed'[q]
           /\ e \in failed'[r]
    <1>1. failed \in [Requests -> SUBSET ProviderFailure]
        BY DEF TypeOK
    <1>2. AllFailures' \subseteq AllFailures \cup {<<r, e>>}
        BY <1>1 DEF AllFailures
    <1>3. IsFiniteSet(AllFailures \cup {<<r, e>>})
        BY FS_AddElement
    <1>4. QED
        BY <1>1, <1>2, <1>3, FS_Subset

\* A breaker that the step leaves as it was keeps its evidence.
LEMMA StaysEarned ==
    ASSUME TypeOK, EvidenceInv, clock' \in Nat, clock' >= clock,
           IsFiniteSet(AllFailures)',
           \A r \in Requests : failed[r] \subseteq failed'[r],
           NEW m \in Models, openUntil'[m] = openUntil[m], IsOpen(m)'
    PROVE  Cardinality(Evidence(m, openUntil[m] - Cooldown))' >= Threshold
    <1>1. IsOpen(m)
        BY DEF IsOpen, TypeOK, BreakerTypeOK
    <1>2. Cardinality(Evidence(m, openUntil[m] - Cooldown)) >= Threshold
        BY <1>1 DEF EvidenceInv, OpenIsEarned
    <1>3. \A opened :
             /\ IsFiniteSet(Evidence(m, opened)) /\ IsFiniteSet(Evidence(m, opened)')
             /\ Cardinality(Evidence(m, opened)) <= Cardinality(Evidence(m, opened)')
        BY EvidenceGrows
    <1>4. PICK opened : opened = openUntil[m] - Cooldown
        OBVIOUS
    <1>5. Evidence(m, openUntil[m] - Cooldown)' = Evidence(m, opened)'
        BY <1>4 DEF Evidence
    <1>6. /\ Threshold \in Nat
          /\ Cardinality(Evidence(m, opened)) \in Nat
          /\ Cardinality(Evidence(m, opened)') \in Nat
        BY <1>3, BreakerAssumption, FS_CardinalityType
    <1>7. QED
        BY <1>2, <1>3, <1>4, <1>5, <1>6

\* A breaker that the step opens has its evidence in the log already.
LEMMA OpensOnEvidence ==
    ASSUME TypeOK, EvidenceInv, NEW r \in Requests,
           NEW m \in Models, RecordFailure(m, r),
           NEW e, e.model = m, e.at = clock, e.fed,
           failed' = [failed EXCEPT ![r] = @ \cup {e}]
    PROVE  EvidenceInv'
    <1>0. /\ clock \in Nat /\ clock' = clock
          /\ openUntil \in [Models -> Nat]
          /\ failures \in [Models -> SUBSET Failure]
          /\ Threshold \in Nat /\ Window \in Nat \ {0} /\ Cooldown \in Nat \ {0}
        BY BreakerAssumption DEF TypeOK, BreakerTypeOK, RecordFailure
    <1>1. /\ IsFiniteSet(AllFailures)'
          /\ \A q \in Requests : failed[q] \subseteq failed'[q]
          /\ e \in failed'[r]
        BY LogGrows DEF EvidenceInv
    <1> DEFINE counted == Retained(m) \cup {[call |-> r, at |-> clock]}
               trips == Cardinality(counted) >= Threshold
    <1>2. /\ failures' = [failures EXCEPT ![m] = IF trips THEN {} ELSE counted]
          /\ openUntil' = IF trips THEN [openUntil EXCEPT ![m] = clock + Cooldown]
                                   ELSE openUntil
        BY DEF RecordFailure
    <1>3. counted \subseteq Failure
        BY <1>0 DEF Retained, Failure
    <1>4. ASSUME NEW f \in counted
          PROVE  /\ f.at <= clock /\ clock - f.at < Window /\ f.call \in Requests
                 /\ \E d \in failed'[f.call] : d.model = m /\ d.fed /\ d.at = f.at
        <2>1. CASE f \in Retained(m)
            <3>1. f \in failures[m] /\ clock - f.at < Window
                BY <2>1 DEF Retained
            <3>2. /\ f.at <= clock
                  /\ \E d \in failed[f.call] : d.model = m /\ d.fed /\ d.at = f.at
                BY <1>0, <3>1 DEF EvidenceInv, MemoryIsEvidence
            <3>3. f.call \in Requests
                BY <1>3 DEF Failure
            <3>4. QED
                BY <1>1, <3>1, <3>2, <3>3
        <2>2. CASE f = [call |-> r, at |-> clock]
            BY <1>0, <1>1, <2>2
        <2>3. QED
            BY <2>1, <2>2
    <1>5. MemoryIsEvidence'
        <2>1. ASSUME NEW n \in Models, NEW f \in failures'[n]
              PROVE  /\ f.at <= clock'
                     /\ \E d \in failed'[f.call] : d.model = n /\ d.fed /\ d.at = f.at
            <3>1. CASE n = m
                BY <1>0, <1>2, <1>4, <2>1, <3>1
            <3>2. CASE n # m
                <4>1. f \in failures[n]
                    BY <1>0, <1>2, <2>1, <3>2
                <4>2. f.call \in Requests
                    BY <1>0, <4>1 DEF Failure
                <4>3. QED
                    BY <1>0, <1>1, <4>1, <4>2 DEF EvidenceInv, MemoryIsEvidence
            <3>3. QED
                BY <3>1, <3>2
        <2>2. QED
            BY <2>1 DEF MemoryIsEvidence
    <1>6. ASSUME NEW n \in Models, IsOpen(n)'
          PROVE  Cardinality(Evidence(n, openUntil[n] - Cooldown))' >= Threshold
        <2>1. CASE n = m /\ trips
            <3>1. openUntil'[n] - Cooldown = clock
                BY <1>0, <1>2, <2>1
            <3>2. PICK now : now = clock
                OBVIOUS
            <3>3. Evidence(n, openUntil[n] - Cooldown)' = Evidence(m, now)'
                BY <2>1, <3>1, <3>2 DEF Evidence
            <3>4. IsFiniteSet(Evidence(m, now)')
                BY <1>1, EvidenceGrows
            <3>5. ASSUME NEW f \in counted
                  PROVE  \E d : <<f.call, d>> \in Evidence(m, now)' /\ d.at = f.at
                <4>1. PICK d \in failed'[f.call] : d.model = m /\ d.fed /\ d.at = f.at
                    BY <1>4
                <4>2. QED
                    BY <1>4, <3>2, <4>1 DEF Evidence
            <3>6. /\ Cardinality(counted) \in Nat
                  /\ Cardinality(Evidence(m, now)') \in Nat
                  /\ Cardinality(counted) <= Cardinality(Evidence(m, now)')
                <4> HIDE DEF counted
                <4>1. QED
                    BY <1>3, <3>4, <3>5, CountedAreEvidence
            <3>7. QED
                BY <1>0, <2>1, <3>3, <3>6
        <2>2. CASE n # m \/ ~trips
            <3>1. openUntil'[n] = openUntil[n]
                BY <1>0, <1>2, <2>2
            <3>2. QED
                BY <1>0, <1>1, <1>6, <3>1, StaysEarned
        <2>3. QED
            BY <2>1, <2>2
    <1>7. QED
        BY <1>1, <1>5, <1>6 DEF EvidenceInv, OpenIsEarned

\* A failure that the breaker does not count is still evidence.
LEMMA UncountedKeepsEvidence ==
    ASSUME TypeOK, EvidenceInv, UNCHANGED breakerVars, NEW r \in Requests, NEW e,
           failed' = [failed EXCEPT ![r] = @ \cup {e}]
    PROVE  EvidenceInv'
    <1>0. /\ UNCHANGED <<clock, failures, openUntil>> /\ clock \in Nat
          /\ failures \in [Models -> SUBSET Failure]
        BY DEF breakerVars, TypeOK, BreakerTypeOK
    <1>1. /\ IsFiniteSet(AllFailures)'
          /\ \A q \in Requests : failed[q] \subseteq failed'[q]
        BY LogGrows DEF EvidenceInv
    <1>2. MemoryIsEvidence'
        BY <1>0, <1>1 DEF EvidenceInv, MemoryIsEvidence, Failure
    <1>3. OpenIsEarned'
        BY <1>0, <1>1, StaysEarned DEF OpenIsEarned
    <1>4. QED
        BY <1>1, <1>2, <1>3 DEF EvidenceInv

\* A step that adds no failure to any log, and to the breaker's memory none,
\* closes breakers at most.
LEMMA QuietKeepsEvidence ==
    ASSUME TypeOK, EvidenceInv, UNCHANGED failed, clock' \in Nat, clock' >= clock,
           \A m \in Models : /\ failures'[m] \subseteq failures[m]
                             /\ openUntil'[m] \in {openUntil[m], 0}
    PROVE  EvidenceInv'
    <1>1. IsFiniteSet(AllFailures)'
        BY DEF EvidenceInv, AllFailures
    <1>2. MemoryIsEvidence'
        <2>1. ASSUME NEW m \in Models, NEW f \in failures'[m]
              PROVE  /\ f.at <= clock'
                     /\ \E d \in failed'[f.call] : d.model = m /\ d.fed /\ d.at = f.at
            <3>1. f \in failures[m] /\ f.at \in Nat /\ clock \in Nat
                BY <2>1 DEF TypeOK, BreakerTypeOK, Failure
            <3>2. f.at <= clock
                BY <3>1 DEF EvidenceInv, MemoryIsEvidence
            <3>3. f.at <= clock'
                BY <3>1, <3>2
            <3>4. QED
                BY <3>1, <3>3 DEF EvidenceInv, MemoryIsEvidence
        <2>2. QED
            BY <2>1 DEF MemoryIsEvidence
    <1>3. ASSUME NEW m \in Models, IsOpen(m)'
          PROVE  Cardinality(Evidence(m, openUntil[m] - Cooldown))' >= Threshold
        <2>1. openUntil'[m] # 0
            BY <1>3 DEF IsOpen
        <2>2. openUntil'[m] = openUntil[m]
            BY <2>1
        <2>3. QED
            BY <1>1, <1>3, <2>2, StaysEarned
    <1>4. QED
        BY <1>1, <1>2, <1>3 DEF EvidenceInv, OpenIsEarned

\* Whichever way a failure is answered, the breaker stays honest.
LEMMA NoteFailureKeepsEvidence ==
    ASSUME TypeOK, EvidenceInv, NEW r \in Requests, NEW code \in Codes,
           NoteFailure(r, code)
    PROVE  EvidenceInv'
    <1>1. PICK e : /\ e.model = model[r] /\ e.at = clock
                   /\ (e.fed <=> Triggers(code) /\ ~profile[r].fanout)
                   /\ failed' = [failed EXCEPT ![r] = @ \cup {e}]
        BY NoteFailureRecords
    <1>2. PICK m \in Models : m = model[r]
        BY DEF TypeOK
    <1>3. CASE e.fed
        <2>1. RecordFailure(m, r)
            BY <1>1, <1>2, <1>3 DEF NoteFailure
        <2>2. QED
            BY <1>1, <1>2, <1>3, <2>1, OpensOnEvidence
    <1>4. CASE ~e.fed
        <2>1. UNCHANGED breakerVars
            BY <1>1, <1>4 DEF NoteFailure
        <2>2. QED
            BY <1>1, <2>1, UncountedKeepsEvidence
    <1>5. QED
        BY <1>3, <1>4

\* A model is withheld from auto routing only after `Threshold` failures of it
\* within the window, whoever met them (record_model_failure); a breaker whose
\* memory forgets, succeeds or reopens in between never opens on less.
THEOREM BreakersOpenOnEvidence == Spec => []OpenIsEarned
<1>1. Init => EvidenceInv
    <2> SUFFICES ASSUME Init PROVE EvidenceInv
        OBVIOUS
    <2>1. AllFailures = {}
        BY DEF Init, AllFailures
    <2>2. IsFiniteSet(AllFailures)
        BY <2>1, FS_EmptySet
    <2>3. QED
        BY <2>2 DEF Init, BreakerInit, EvidenceInv, MemoryIsEvidence,
                    OpenIsEarned, IsOpen
<1>2. TypeOK /\ EvidenceInv /\ [Next]_vars => EvidenceInv'
    <2> SUFFICES ASSUME TypeOK, EvidenceInv, [Next]_vars PROVE EvidenceInv'
        OBVIOUS
    <2>0. /\ clock \in Nat /\ openUntil \in [Models -> Nat]
          /\ failures \in [Models -> SUBSET Failure]
          /\ model \in [Requests -> Models]
        BY DEF TypeOK, BreakerTypeOK
    <2>1. ASSUME NEW r \in Requests,
                 \/ Arrive(r) \/ Refuse(r) \/ ServeFromCache(r) \/ Dispatch(r)
                 \/ RoutePinned(r) \/ RouteAuto(r) \/ StreamEnds(r) \/ Disconnect(r)
          PROVE EvidenceInv'
        <3>1. UNCHANGED <<clock, failures, openUntil, failed>>
            BY <2>1 DEF Arrive, Refuse, ServeFromCache, Dispatch, RoutePinned,
                        RouteAuto, StreamEnds, Disconnect, breakerVars
        <3>2. QED
            BY <2>0, <3>1, QuietKeepsEvidence
    <2>2. ASSUME NEW r \in Requests, CallSucceeds(r) PROVE EvidenceInv'
        <3>1. /\ UNCHANGED <<clock, failed>>
              /\ \/ UNCHANGED <<failures, openUntil>>
                 \/ /\ failures' = [failures EXCEPT ![model[r]] = {}]
                    /\ openUntil' = [openUntil EXCEPT ![model[r]] = 0]
            BY <2>2 DEF CallSucceeds, RecordSuccess, breakerVars
        <3>2. QED
            BY <2>0, <3>1, QuietKeepsEvidence
    <2>3. ASSUME NEW r \in Requests, NEW code \in Codes,
                 Escalate(r, code) \/ GiveUp(r, code)
          PROVE EvidenceInv'
        BY <2>3, NoteFailureKeepsEvidence DEF Escalate, GiveUp
    <2>4. CASE InstallRouter \/ TimePasses \/ UNCHANGED vars
        <3>1. /\ UNCHANGED <<failures, openUntil, failed>>
              /\ clock' = clock \/ clock' = clock + 1
            BY <2>4 DEF InstallRouter, TimePasses, Tick, vars, breakerVars, requestVars
        <3>2. QED
            BY <2>0, <3>1, QuietKeepsEvidence
    <2>5. QED
        BY <2>1, <2>2, <2>3, <2>4 DEF Next, Progress, Handle, Answer
<1>3. QED
    BY <1>1, <1>2, TypeCorrect, PTL DEF Spec, EvidenceInv

=============================================================================

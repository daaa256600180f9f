----------------------------- MODULE TierSelect -----------------------------
(***************************************************************************)
(* The pure part of auto routing: how a request's tier bounds are merged   *)
(* with its organization's policy, clamped, floored for tools, and turned  *)
(* into a model of a tier list.  No state: the modules that route requests *)
(* extend this one.                                                        *)
(*                                                                         *)
(* An oracle (`dyn Eligibility`) is the set of models it accepts.  A       *)
(* selection is a record [model, tier]; an operator that may have several  *)
(* outcomes (the within-tier strategies pick by order, price, a shared     *)
(* counter or a random sample) returns the set of them, empty for `None`.  *)
(***************************************************************************)
EXTENDS Integers

Tiers == 0 .. 3     \* Tier::Simple, Medium, Complex, Reasoning

Larger(a, b) == IF a >= b THEN a ELSE b
Smaller(a, b) == IF a <= b THEN a ELSE b

-----------------------------------------------------------------------------
(* Bounds.  An absent bound is the weakest one (`unwrap_or(Simple)`,       *)
(* `unwrap_or(Reasoning)`), which is also neutral in the merge.            *)

\* OrgAutoRoutingOverride::merged_with: the stronger minimum, the weaker
\* maximum of the request's own options and the organization's policy.
MergedMin(p) == Larger(p.min, p.orgMin)
MergedMax(p) == Smaller(p.max, p.orgMax)

\* decide_with_override: crossed bounds collapse onto the maximum.
EffectiveMax(p) == MergedMax(p)
EffectiveMin(p) == Smaller(MergedMin(p), MergedMax(p))

\* The tier asked of the catalog: the classified tier clamped to the bounds,
\* then raised to the tools floor even when that exceeds the maximum.
RequestedTier(p, floor, class) ==
    LET clamped == Smaller(Larger(class, EffectiveMin(p)), EffectiveMax(p))
    IN  IF p.tools THEN Larger(clamped, floor) ELSE clamped

-----------------------------------------------------------------------------
(* TierCatalog                                                             *)

\* Mutant of Searched: nothing caps the upward search.
SearchedUncapped(base, min, max) ==
    {t \in Tiers : t >= base \/ t >= min}

\* The tiers select searches: the base tier, those above it up to max and
\* those below it down to min.
Searched(base, min, max) ==
    {t \in Tiers : t = base \/ (t > base /\ t <= max) \/ (t < base /\ t >= min)}

\* Search order: the base tier, upward, then downward.
Precedes(base, t, u) ==
    \/ t >= base /\ (u < base \/ t < u)
    \/ t < base /\ u < t

\* TierCatalog::select over the tier lists `tiers`.
Select(tiers, base, min, max, eligible) ==
    LET stocked == {t \in Searched(base, min, max) : tiers[t] \cap eligible # {}}
    IN  {s \in [model : eligible, tier : stocked] :
            /\ s.model \in tiers[s.tier]
            /\ \A u \in stocked : u = s.tier \/ Precedes(base, s.tier, u)}

\* A request budget hides the models predicted to cost more; when that leaves
\* nothing, the budget is ignored.
SelectWithin(tiers, base, min, max, eligible, cheap) ==
    LET affordable == Select(tiers, base, min, max, eligible \cap cheap)
    IN  IF affordable # {} THEN affordable
                           ELSE Select(tiers, base, min, max, eligible)

\* TierModels::tier_of: the highest tier that lists the model.
ListedAt(tiers, m) == {t \in Tiers : m \in tiers[t]}
IsTierOf(tiers, m, t) ==
    t \in ListedAt(tiers, m) /\ \A u \in ListedAt(tiers, m) : u <= t

\* The tool-loop exception: the previous turn's model, when it is eligible,
\* at least as strong as the requested tier and within the maximum.
StickyPick(tiers, p, base, eligible) ==
    {s \in [model : eligible, tier : Tiers] :
        /\ p.sticky
        /\ s.model = p.prev
        /\ IsTierOf(tiers, s.model, s.tier)
        /\ s.tier >= base
        /\ s.tier <= EffectiveMax(p)}

\* AutoRouter::decide_with_override, after classification.
Decisions(cfg, p, class, eligible) ==
    LET base == RequestedTier(p, cfg.floor, class)
        kept == StickyPick(cfg.tiers, p, base, eligible)
    IN  IF kept # {} THEN kept
        ELSE SelectWithin(cfg.tiers, base, EffectiveMin(p), EffectiveMax(p),
                          eligible, p.cheap)

\* Mutant of NextCandidates: falls back to weaker tiers like a first decision.
NextCandidatesDownward(cfg, p, tier, eligible, failedModels) ==
    SelectWithin(cfg.tiers, tier, EffectiveMin(p), Larger(MergedMax(p), tier),
                 eligible \ failedModels, p.cheap)

\* AutoRouter::next_candidate: from the current tier upward only, skipping
\* the models that already failed this request.
NextCandidates(cfg, p, tier, eligible, failedModels) ==
    SelectWithin(cfg.tiers, tier, tier, Larger(MergedMax(p), tier),
                 eligible \ failedModels, p.cheap)
=============================================================================

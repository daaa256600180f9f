---------------------------- MODULE ModelCatalog ----------------------------
(***************************************************************************)
(* What the gateway knows about the models it serves, the tier lists made  *)
(* of it, and the auto router built from a configuration and one document  *)
(* of gateway settings.  Everything here is computed from what the process *)
(* starts with, so it is a constant; only which document is in force moves *)
(* (GatewaySettings).                                                      *)
(***************************************************************************)
EXTENDS TierSelect, Classify, SequencesExt

CONSTANTS Registration,  \* the configured providers in the order they are registered
          Listing,       \* the models they list, by provider, then id
          Sources,       \* rows of model_pricing: [id, provider, tags, window, price]
          ApiSlug,       \* scraped id -> API id, where they differ
          Canonical,     \* id -> its canonical slug
          Seeded,        \* model -> price in the built-in list
          NamedVision, NamedTools,   \* models whose name implies the capability
          BuiltIn,       \* the built-in tier lists
          BootConfig     \* routing.auto of the configuration file

ASSUME CatalogAssumption ==
  LET price == [in : Nat, out : Nat]
  IN  /\ Sources \in Seq([id : STRING, provider : STRING, tags : SUBSET STRING,
                          window : Nat, price : price])
      /\ \A model \in DOMAIN Seeded : Seeded[model] \in price

NoPrice == [in |-> 0, out |-> 0]
NoSource == [id |-> "none", tags |-> {}, window |-> 0, price |-> NoPrice]

Slug(model) == IF model \in DOMAIN Canonical THEN Canonical[model] ELSE model

-----------------------------------------------------------------------------
(* Serving                                                                 *)

Registered == ToSet(Registration)

\* The model map: a later provider takes over a model an earlier one lists.
ListedBy(model) == {i \in DOMAIN Registration : model \in Registration[i].models}

\* A model nobody lists goes to any provider that accepts every name; Ollama,
\* one of them, is left out, HuggingFace is not.
AcceptsAny == {p \in Registered : p.name = "huggingface"}

Provider(model) ==
  IF ListedBy(model) # {} THEN Registration[Max(ListedBy(model))].name
  ELSE IF AcceptsAny # {} THEN "huggingface" ELSE "none"

-----------------------------------------------------------------------------
(* The catalog                                                             *)

\* The first row with the model's id, or whose scraped slug stands for it.
ById(model) ==
  {i \in DOMAIN Sources :
     \/ Sources[i].id = model
     \/ Sources[i].id \in DOMAIN ApiSlug /\ ApiSlug[Sources[i].id] = model}

ByCanonical(model) ==
  {i \in DOMAIN Sources :
     Sources[i].provider = Provider(model) /\ Slug(Sources[i].id) = Slug(model)}

FirstSource(byId, byCanonical) ==
  CASE byId # {} -> Sources[Min(byId)]
    [] byId = {} /\ byCanonical # {} -> Sources[Min(byCanonical)]
    [] OTHER -> NoSource

SourceOf(model) == FirstSource(ById(model), ByCanonical(model))

InCatalog(model) == model \in ToSet(Listing)

\* The built-in price fills what the database does not price.
SeededPrice(model) == IF model \in DOMAIN Seeded THEN Seeded[model] ELSE NoPrice

Entry(model) ==
  [SourceOf(model) EXCEPT !.price = IF @ = NoPrice THEN SeededPrice(model) ELSE @]

PriceOf(model) ==
  IF InCatalog(model) THEN Entry(model).price
  ELSE SeededPrice(model)

\* 70% input, 30% output, in tenths.
PerMillion(price) == 7 * price.in + 3 * price.out
Blended(model) == PerMillion(PriceOf(model))
Priced(model) == PriceOf(model) # NoPrice

SupportsVision(model) ==
  \/ InCatalog(model) /\ Entry(model).tags \cap {"vision", "multimodal"} # {}
  \/ model \in NamedVision

SupportsTools(model) ==
  \/ InCatalog(model) /\ Entry(model).tags \cap {"tool-calling", "agentic"} # {}
  \/ model \in NamedTools

IsReasoning(model) == "reasoning" \in Entry(model).tags

-----------------------------------------------------------------------------
(* Tier lists                                                              *)

\* The priced models, cheapest first; equal prices keep the listing's order.
ByPrice ==
  LET known == SelectSeq([i \in DOMAIN Listing |-> i], LAMBDA i : Priced(Listing[i]))
      worth == [m \in ToSet(Listing) |-> Blended(m)]
      cheaper(i, j) == \/ worth[Listing[i]] < worth[Listing[j]]
                       \/ worth[Listing[i]] = worth[Listing[j]] /\ i < j
      sorted == SortSeq(known, cheaper)
  IN  [k \in DOMAIN sorted |-> Listing[sorted[k]]]

\* At most three per tier, the ones that can call tools first.
PerTier == 3

UpTo(list, n) == SubSeq(list, 1, Smaller(n, Len(list)))

ToolsFirst(list) ==
  SelectSeq(list, SupportsTools) \o SelectSeq(list, LAMBDA m : ~SupportsTools(m))

ReasoningModels(byPrice) ==
  LET tagged == SelectSeq(byPrice, IsReasoning)
  IN  Reverse(IF tagged # <<>> THEN tagged
              ELSE SubSeq(byPrice, Larger(1, Len(byPrice) - 2), Len(byPrice)))

Without(list, models) == SelectSeq(list, LAMBDA m : m \notin models)

OtherModels(byPrice) == Without(byPrice, ToSet(ReasoningModels(byPrice)))

\* The k-th third of a list in which the cheapest come first.
Third(list, k) ==
  LET size == Larger((Len(list) + 2) \div 3, 1)
  IN  SubSeq(list, k * size + 1, Smaller((k + 1) * size, Len(list)))

\* Mutant: the tools come first before the thirds are cut.
CutAfterTools(byPrice) ==
  [t \in Tiers |-> UpTo(IF t = 3 THEN ReasoningModels(byPrice)
                        ELSE Third(ToolsFirst(OtherModels(byPrice)), t), PerTier)]

\* Thirds by price below the reasoning tier.
CutByPrice(byPrice) ==
  [t \in Tiers |-> UpTo(IF t = 3 THEN ReasoningModels(byPrice)
                        ELSE ToolsFirst(Third(OtherModels(byPrice), t)), PerTier)]

FromCatalog == CutByPrice(ByPrice)

HasCandidates(tiers) == \E t \in Tiers : tiers[t] # <<>>

-----------------------------------------------------------------------------
(* Documents and routers                                                   *)

\* A document names what it overrides; tiers it leaves out of the four lists
\* take the built-in ones, not those of the configuration file.
Overrides(doc, field) == field \in DOMAIN doc

Cleaned(list) ==
  FoldLeft(LAMBDA out, m : IF Contains(out, m) THEN out ELSE Append(out, m), <<>>, list)

TiersOf(doc) ==
  [t \in Tiers |-> Cleaned(IF t \in DOMAIN doc.tiers THEN doc.tiers[t] ELSE BuiltIn[t])]

ApplyToAuto(doc) ==
  [field \in DOMAIN BootConfig |->
     CASE field = "tiers" /\ Overrides(doc, "tiers") -> TiersOf(doc)
       [] field # "tiers" /\ Overrides(doc, field)   -> doc[field]
       [] OTHER                                      -> BootConfig[field]]

NoRouter == [shadow |-> FALSE, enabled |-> FALSE]

Prune(tiers) == [t \in Tiers |-> SelectSeq(tiers[t], LAMBDA m : Provider(m) # "none")]

\* build_auto_router: no tiers at all are derived from the catalog; a router
\* that nothing is left for, or that nobody wants, is none.
WithTiers(cfg, tiers) ==
  IF (cfg.enabled \/ cfg.shadow) /\ HasCandidates(tiers)
  THEN [cfg EXCEPT !.tiers = tiers] ELSE NoRouter

BuildRouter(cfg) ==
  WithTiers(cfg, Prune(IF HasCandidates(cfg.tiers) THEN cfg.tiers ELSE FromCatalog))

Derived(doc) == ~HasCandidates(ApplyToAuto(doc).tiers)

-----------------------------------------------------------------------------
(* Choosing a model                                                        *)

\* for_request counts for itself: no calls and no line breaks.
NeededContext(req) ==
  EstimateTokens(req.instructions.chars
    + MapThenSumSet(LAMBDA i : req.input[i].text.chars,
                    {i \in DOMAIN req.input : req.input[i].kind # "call"}))
  + req.maxOutput

\* GatewayEligibility and the request's allow and deny lists; the breaker is
\* in ResponsePath.
Eligible(req, f, models) ==
  {m \in models :
     /\ Provider(m) # "none"
     /\ f.images => SupportsVision(m)
     /\ f.tools > 0 => SupportsTools(m)
     /\ InCatalog(m) /\ Entry(m).window # 0 => NeededContext(req) <= Entry(m).window
     /\ m \notin req.deny
     /\ req.allow = {} \/ m \in req.allow}

\* The least of them by Worth, the first in the list among equals.
FirstIn(list, models) ==
  {m \in models : \E i \in DOMAIN list : list[i] = m /\ \A j \in 1 .. i - 1 : list[j] \notin models}

FirstOf(list, models, Worth(_)) ==
  FirstIn(list, {m \in models : \A n \in models : Worth(m) <= Worth(n)})

\* A model nobody prices comes last.
DearerThanAny == 1000000

Cheapest(list, models) ==
  FirstOf(list, models, LAMBDA m : IF Priced(m) THEN Blended(m) ELSE DearerThanAny)

\* What predicted_cost_usd says: nothing without a cost model or a price.
Predictable(m, costs) == costs # {} /\ Priced(m)
Predicted(m, f, costs) == PredictedCost(CHOOSE c \in costs : TRUE, f, m, PriceOf(m))

\* TierCatalog::select_within; the round robin and Thompson pick any of them.
SelectFrom(router, list, models, predictable, f, costs) ==
  CASE router.within = "predicted_cost" /\ predictable # {} ->
         FirstOf(list, predictable, LAMBDA m : Predicted(m, f, costs))
    [] router.within = "cheapest" \/ (router.within = "predicted_cost" /\ predictable = {}) ->
         Cheapest(list, models)
    [] router.within = "config_order" -> FirstIn(list, models)
    [] OTHER -> models

WithinTier(router, t, models, f, costs) ==
  SelectFrom(router, router.tiers[t], models, {m \in models : Predictable(m, costs)}, f, costs)

ListedIn(router) == [t \in Tiers |-> ToSet(router.tiers[t])]

AllModels(router) == UNION {ListedIn(router)[t] : t \in Tiers}

\* decide_with_override after classification: which models may be chosen, and
\* at which tier.  A budget nothing fits is ignored.
FirstFound(some, others) == IF some # {} THEN some ELSE others

ServedFrom(router, req, f, class, costs, eligible) ==
  LET affordable == {m \in eligible : Predictable(m, costs) => Predicted(m, f, costs) <= req.budget}
      bounds == [min |-> req.min, max |-> req.max, orgMin |-> 0, orgMax |-> 3,
                 tools |-> f.tools > 0]
      base == RequestedTier(bounds, router.floor, class)
      from(models) ==
        {s \in Select(ListedIn(router), base, EffectiveMin(bounds), EffectiveMax(bounds), models) :
           s.model \in WithinTier(router, s.tier, ListedIn(router)[s.tier] \cap models, f, costs)}
  IN  FirstFound(from(IF req.budget = 0 THEN {} ELSE affordable), from(eligible))

Served(router, req, f, class, costs) ==
  ServedFrom(router, req, f, class, costs, Eligible(req, f, AllModels(router)))
=============================================================================

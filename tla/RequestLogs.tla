----------------------------- MODULE RequestLogs -----------------------------
(***************************************************************************)
(* From a provider's answer to the row of request_logs: the answer is      *)
(* priced and described in its metadata, may be demoted because the model  *)
(* was not sure enough, and is logged with what the admin pages read, some *)
(* of it from columns and some from that metadata.                         *)
(*                                                                         *)
(* A value that may be missing is a set of at most one element; prices are *)
(* per token.  Tenant and end user of the metadata are left out.           *)
(***************************************************************************)
EXTENDS Prompts

CONSTANTS Prices,    \* model -> [input, output, cached, reasoning]
          ModelMap,  \* model -> the provider configured for it
          PrefixOf   \* model -> the provider its name begins like, or "unknown"

Or(optional, default) == IF optional = {} THEN default ELSE CHOOSE x \in optional : TRUE

-----------------------------------------------------------------------------
(* Enriching *)

\* Cached tokens are part of the input; a provider that reports more of them is
\* not believed.
Charge(price, usage) ==
  LET reported == Or(usage.cached, 0)
      cached == IF reported > usage.input THEN usage.input ELSE reported
  IN  (usage.input - cached) * price.input + usage.output * price.output
        + cached * Or(price.cached, price.input)
        + Or(usage.reasoning, 0) * Or(price.reasoning, 0)

\* The price is looked up by the name the provider gives its model.
CalculateCost(model, usage) ==
  IF model \in DOMAIN Prices THEN {Charge(Prices[model], usage)} ELSE {}

EnrichedUsage(answer) ==
  {[u EXCEPT !.cost = IF CalculateCost(answer.model, u) = {} THEN @
                      ELSE CalculateCost(answer.model, u)] : u \in answer.usage}

ProviderName(model) == IF model \in DOMAIN ModelMap THEN ModelMap[model] ELSE PrefixOf[model]

IsCall(item) == item.kind = "function_call"

Agentic(answer) ==
  LET calls == SelectSeq(answer.output, IsCall)
  IN  [items |-> Len(answer.output),
       tools_used |-> [i \in DOMAIN calls |-> calls[i].name],
       requires_action |-> \E i \in DOMAIN calls : calls[i].status = "in_progress",
       has_reasoning |-> \E i \in DOMAIN answer.output : answer.output[i].kind = "reasoning",
       incomplete_reason |-> answer.reason]

\* What the request asked for, whether it took effect or not.
AskedFor(request) ==
  [validation |-> request.validation.strategy, consistency |-> request.consistency.strategy]

Undescribed == [provider |-> "unknown", asked |-> [validation |-> "none", consistency |-> "none"],
                agentic |-> [tools_used |-> <<>>], compression |-> NoCompression]

\* The block joins the provider's own metadata, unless that is no object: then
\* it replaces it, with neither the calls nor what was asked for.
EnrichResponse(answer, request) ==
  LET named == [Undescribed EXCEPT !.provider = ProviderName(answer.model)]
  IN  [answer EXCEPT
         !.usage = EnrichedUsage(answer),
         !.aura = IF answer.metadata = "not an object" THEN {named}
                  ELSE {[named EXCEPT !.agentic = Agentic(answer), !.asked = AskedFor(request)]}]

EnrichWithLatency(answer, request, compression) ==
  LET enriched == EnrichResponse(answer, request)
  IN  [enriched EXCEPT !.aura = {[a EXCEPT !.compression = compression] : a \in @}]

\* An answer whose measured confidence is below the threshold is incomplete;
\* one that was not measured passes.
ConfidenceGate(answer, request) ==
  IF /\ request.validation.strategy = "confidencethreshold"
     /\ answer.status = "completed"
     /\ \E min \in request.validation.min_confidence, measured \in answer.confidence :
          measured < min
  THEN [answer EXCEPT !.status = "incomplete", !.reason = {"low confidence"}]
  ELSE answer

-----------------------------------------------------------------------------
(* The row *)

\* First strategy of a compression that ran.
CompressionOf(aura) == IF aura.compression.strategies = <<>> THEN "none"
                       ELSE aura.compression.strategies[1]

Saved(compression) ==
  IF compression.original = 0 \/ compression.compressed = 0 THEN 0
  ELSE compression.original - compression.compressed

\* Provider and model are those the gateway called; the rest is the answer's.
LogRow(provider, model, answer, latency) ==
  LET usage == Or(answer.usage, [input |-> 0, output |-> 0, cached |-> {}, cost |-> {}])
      aura == Or(answer.aura, Undescribed)
  IN  [provider |-> provider, model |-> model,
       input |-> usage.input, output |-> usage.output, cached |-> Or(usage.cached, 0),
       cost |-> Or(usage.cost, 0), latency |-> latency,
       tools |-> aura.agentic.tools_used,
       validation |-> aura.asked.validation, consistency |-> aura.asked.consistency,
       compression |-> CompressionOf(aura), reduced |-> aura.compression.original > 0,
       saved |-> Saved(aura.compression)]

\* A request no provider answered: no usage, no metadata of an answer.
FailedRow(provider, model, latency) ==
  LogRow(provider, model, [usage |-> {}, aura |-> {}], latency)

\* The answer as the client gets it, and as it is logged.
Delivered(request, answer) ==
  ConfidenceGate(EnrichWithLatency(answer, Preprocessed(request), CompressionMetadata(request)),
                 request)
=============================================================================

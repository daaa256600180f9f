------------------------------ MODULE Classify ------------------------------
(***************************************************************************)
(* How hard a request is: the features the auto router extracts from it    *)
(* and the tier each classifier makes of them under a mode.                *)
(*                                                                         *)
(* Scores are in thousandths and the weighted sum in millionths, so that   *)
(* the rounding of the scorer can be seen.  A text is its length and the   *)
(* set of what the matchers find in it; two messages never form a match    *)
(* together.  No state: the modules that route extend this one.            *)
(***************************************************************************)
EXTENDS Integers, Sequences, FiniteSets, FiniteSetsExt

CONSTANTS Keywords      \* list -> its words: code, reasoning, technical, simple, quick, deep

ASSUME KeywordsAssumption ==
  \A list \in {"code", "reasoning", "technical", "simple", "quick", "deep"} :
    IsFiniteSet(Keywords[list])

Modes == {"cost", "balanced", "quality"}
Classifiers == {"heuristic", "llm", "learned"}

Bounded(x, low, high) == IF x < low THEN low ELSE IF x > high THEN high ELSE x

\* (x * 1000.0).round() / 1000.0: half away from zero, from millionths.
Rounded(x) == IF x >= 0 THEN (x + 500) \div 1000 ELSE -((500 - x) \div 1000)

-----------------------------------------------------------------------------
(* Features                                                                *)

CodePatterns == {"fence", "path", "call", "frame", "line"}
StepPatterns == {"first then", "numbered", "lettered", "connective"}

NoText == [chars |-> 0, words |-> {}, questions |-> 0, fences |-> 0]

\* Messages, calls and their outputs; every other kind of item adds nothing.
Reaches(item) == item.kind \in {"user", "system", "assistant", "call", "output"}
Authored(item) == item.kind \in {"user", "system"}

Chosen(req, Test(_)) == {i \in DOMAIN req.input : Test(req.input[i])}

\* Each text that is collected is followed by a line break.
Length(req, picked) ==
  MapThenSumSet(LAMBDA i : req.input[i].text.chars + 1, picked)
  + (IF req.instructions = NoText THEN 0 ELSE req.instructions.chars + 1)

UserText(req) ==
  LET picked == Chosen(req, Authored) IN
  [words     |-> req.instructions.words \cup UNION {req.input[i].text.words : i \in picked},
   questions |-> req.instructions.questions
                 + MapThenSumSet(LAMBDA i : req.input[i].text.questions, picked),
   fences    |-> req.instructions.fences
                 + MapThenSumSet(LAMBDA i : req.input[i].text.fences, picked)]

EstimateTokens(chars) == (chars + 3) \div 4

TieredScore(matches, half, full) ==
  IF matches >= full THEN 1000 ELSE IF matches >= half THEN 500 ELSE 0

Hits(words, list) == Cardinality(words \cap list)

Intent(words) ==
  LET quick == Hits(words, Keywords.quick)
      deep == Hits(words, Keywords.deep)
  IN  IF quick > deep THEN "quick" ELSE IF deep > quick THEN "deep" ELSE "none"

CodeScore(text) ==
  IF text.fences > 1 THEN 1000     \* two marks are a block
  ELSE TieredScore(Hits(text.words, Keywords.code)
                   + 2 * Hits(text.words, CodePatterns), 1, 2)

ExtractFeatures(req) ==
  LET text == UserText(req)
      outputs == Cardinality(Chosen(req, LAMBDA item : item.kind = "output"))
  IN  [tokens       |-> EstimateTokens(Length(req, Chosen(req, Reaches))),
       continuation |-> req.continues,
       toolLoop     |-> req.continues /\ outputs > 0,
       tools        |-> req.tools,
       toolRequired |-> req.choice \in {"required", "function"},
       images       |-> Chosen(req, LAMBDA item : item.image) # {},
       maxOutput    |-> req.maxOutput,
       code         |-> CodeScore(text),
       codeMatches  |-> Hits(text.words, Keywords.code \cup CodePatterns),
       reasoningMatches |-> Hits(text.words, Keywords.reasoning),
       reasoning    |-> TieredScore(Hits(text.words, Keywords.reasoning), 1, 2),
       technical    |-> TieredScore(Hits(text.words, Keywords.technical), 2, 4),
       simple       |-> TieredScore(Hits(text.words, Keywords.simple), 1, 2),
       multiStep    |-> TieredScore(Hits(text.words, StepPatterns), 1, 3),
       questions    |-> text.questions,
       intent       |-> Intent(text.words)]

-----------------------------------------------------------------------------
(* The heuristic                                                           *)

FeatureWeights == [tokens |-> 100, code |-> 300, reasoning |-> 250, technical |-> 250,
            simple |-> 50, multiStep |-> 30, questions |-> 20, tools |-> 150,
            intent |-> 300, continuation |-> 50, outputLength |-> 50]
Thresholds == [short |-> 15, long |-> 400, longOutput |-> 2000]
DefaultBoundaries == [medium |-> 150, complex |-> 350, reasoning |-> 600]
ReasoningOverride == 3

ModeOffset(mode) == CASE mode = "cost" -> -100 [] mode = "quality" -> 150 [] OTHER -> 0

TierFor(b, score) ==
  IF score >= b.reasoning THEN 3 ELSE IF score >= b.complex THEN 2
  ELSE IF score >= b.medium THEN 1 ELSE 0

\* In millionths: -1 at or below the short threshold, then from 0 up to 1.
TokenFeature(tokens) ==
  IF tokens <= Thresholds.short THEN -1000000
  ELSE (1000000 * (Bounded(tokens, 0, Thresholds.long) - Thresholds.short))
       \div (Thresholds.long - Thresholds.short)

\* The weighted sum, in millionths.
Weighed(f) ==
  LET half(holds) == IF holds THEN 500 ELSE 0
      tools == IF f.toolRequired THEN 1000 ELSE half(f.tools > 0)
      intent == CASE f.intent = "quick" -> -1000 [] f.intent = "deep" -> 1000 [] OTHER -> 0
  IN  (FeatureWeights.tokens * TokenFeature(f.tokens)) \div 1000
      + FeatureWeights.code * f.code
      + FeatureWeights.reasoning * f.reasoning
      + FeatureWeights.technical * f.technical
      - FeatureWeights.simple * f.simple
      + FeatureWeights.multiStep * f.multiStep
      + FeatureWeights.questions * half(f.questions > 3)
      + FeatureWeights.tools * tools
      + FeatureWeights.intent * intent
      + FeatureWeights.continuation * half(f.continuation)
      + FeatureWeights.outputLength * half(f.maxOutput >= Thresholds.longOutput)

RawScore(f) == Rounded(Bounded(Weighed(f), -1000000, 1000000))

HeuristicScore(f, mode) == Bounded(RawScore(f) + ModeOffset(mode), 0, 1000)

Overridden(f) == f.reasoningMatches >= ReasoningOverride /\ f.intent # "quick"

HeuristicTier(f, mode, boundaries) ==
  IF Overridden(f) THEN 3 ELSE TierFor(boundaries, HeuristicScore(f, mode))

-----------------------------------------------------------------------------
(* The learned classifier: what training made of the features is any       *)
(* number between 0 and 1; here it grows with the code a request has.      *)

NoBoundaries == [medium |-> 0, complex |-> 0, reasoning |-> 0]

ExpectedPosition(model, f) == Bounded(model.base + model.perCode * f.codeMatches, 0, 1000)

LearnedTier(model, f, mode, boundaries) ==
  TierFor(IF model.boundaries = NoBoundaries THEN boundaries ELSE model.boundaries,
          Bounded(ExpectedPosition(model, f) + ModeOffset(mode), 0, 1000))

-----------------------------------------------------------------------------
(* The language model's reply: an object that names a tier, wherever it    *)
(* stands, else the strongest tier among the words.                        *)

NoTier == 4

ParsedReply(reply) ==
  IF reply.object # NoTier THEN reply.object
  ELSE IF reply.words # {} THEN Max(reply.words) ELSE NoTier

\* A reply that is late, missing or cannot be parsed counts as none.
NoReply == [object |-> NoTier, words |-> {}]

-----------------------------------------------------------------------------
(* The cost model: output tokens per model, from the length of the input;  *)
(* a model without a head of its own uses the global one.                  *)

MaxPredictedTokens == 200000

HeadOf(costs, model) == IF model \in DOMAIN costs.heads THEN costs.heads[model] ELSE costs.global

PredictedTokens(costs, f, model) ==
  LET head == HeadOf(costs, model)
  IN  Bounded(head.base + head.perToken * f.tokens, 1, MaxPredictedTokens)

\* In millionths of a dollar; a price is [in, out] per million tokens.
PredictedCost(costs, f, model, price) ==
  f.tokens * price.in + PredictedTokens(costs, f, model) * price.out
=============================================================================

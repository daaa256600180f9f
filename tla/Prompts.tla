------------------------------- MODULE Prompts -------------------------------
(***************************************************************************)
(* What create_response does to a request before it is routed: the texts   *)
(* of its messages are compressed, and its instructions are extended for   *)
(* the sake of consistent answers.                                         *)
(*                                                                         *)
(* A text is its estimated tokens, whether it reads like a rule, the JSON  *)
(* value it parses as, the tokens each format would leave of it, and the   *)
(* text it becomes in AISP notation (AISP itself for a text in AISP).      *)
(* What the encoders write, and how long that is, is part of the text.     *)
(***************************************************************************)
EXTENDS Naturals, Integers, Sequences, SequencesExt, FiniteSets

CONSTANT NamesIn  \* model -> which of "gpt", "o1", "claude", "gemini" its name contains

NotJson == [kind |-> "none"]

-----------------------------------------------------------------------------
(* Choosing a format *)

\* ToonConfig: by default two elements with two fields each.
IsUniformArray(items, toon) ==
  /\ Len(items) >= toon.min_array_size
  /\ Cardinality(items[1]) >= toon.min_fields
  /\ \A i \in DOMAIN items : items[i] = items[1]

\* An array is the sequence of its elements: the set of its keys for an
\* object, {} for anything else; arrays of arrays say so.
StructureOf(json, toon) ==
  CASE json.kind = "array" /\ json.items = <<>> -> "unknown"
    [] json.kind = "array" /\ IsUniformArray(json.items, toon) -> "uniform_array"
    [] json.kind = "array" /\ json.rows -> "tabular"
    [] json.kind = "array" -> "mixed"
    [] json.kind = "object" /\ json.depth > 2 -> "nested_object"
    [] json.kind = "object" /\ json.arrays -> "mixed"
    [] OTHER -> "unknown"

RecommendedFormat(structure) ==
  CASE structure \in {"uniform_array", "tabular"} -> "toon"
    [] structure = "nested_object" -> "yaml"
    [] OTHER -> "json_compact"

\* What AISP left of the text is parsed; the format was recommended for what
\* was there before.  No encoder fails on a value that parsed.
CompressValue(text, structure, config, before) ==
  LET format == IF config.auto_select THEN RecommendedFormat(structure) ELSE config.data_format
      used == CASE format = "toon" -> "toon"
                [] format = "yaml" -> "yaml"
                [] format = "markdown" /\ structure = "tabular" -> "markdown"
                [] OTHER -> "jsonminify"
      strategies == Append(before, used)
  IN  [tokens |-> text.packed[used],
       strategies |-> IF Len(strategies) > 1 THEN Append(strategies, "hybrid") ELSE strategies]

CompressSmart(text, config) ==
  LET symbols == text.rules /\ config.semantic_format = "aisp"
      before == IF symbols THEN <<"aisp">> ELSE <<>>
      processed == IF symbols THEN text.aisp ELSE text
      structure == IF text.json = NotJson THEN "text" ELSE StructureOf(text.json, config.toon)
  IN  IF processed.json # NotJson
      THEN CompressValue(processed, structure, config, before)
      ELSE [tokens |-> processed.tokens,
            strategies |-> IF before = <<>> THEN <<"tokencleanup">> ELSE before]

-----------------------------------------------------------------------------
(* Compressing a request *)

\* A message keeps the text of its parts only.
CompressMessage(item, config) ==
  [item EXCEPT !.text.tokens = CompressSmart(item.text, config).tokens,
               !.image = FALSE]

IsMessage(item) == item.kind = "message"

CompressInput(input, config) ==
  [i \in DOMAIN input |->
     IF IsMessage(input[i]) THEN CompressMessage(input[i], config) ELSE input[i]]

TokensOf(input) ==
  FoldLeft(LAMBDA sum, item : sum + item.text.tokens, 0, SelectSeq(input, IsMessage))

\* Each strategy once, in the order of its first use.
StrategiesOf(input, config) ==
  LET new(used, s) == IF Contains(used, s) THEN used ELSE Append(used, s)
  IN  FoldLeft(LAMBDA used, item : FoldLeft(new, used, CompressSmart(item.text, config).strategies),
               <<>>, SelectSeq(input, IsMessage))

NoCompression == [on |-> FALSE, original |-> 0, compressed |-> 0, strategies |-> <<>>]

CompressionMetadata(request) ==
  IF ~request.compression.enabled THEN NoCompression
  ELSE [on |-> TRUE, original |-> TokensOf(request.input),
        compressed |-> TokensOf(CompressInput(request.input, request.compression)),
        strategies |-> StrategiesOf(request.input, request.compression)]

-----------------------------------------------------------------------------
(* Extending the instructions, a sequence of sections *)

\* The first of these its name contains.
Quirks(model) ==
  CASE NamesIn[model] \cap {"gpt", "o1"} # {} -> {"closing phrases"}
    [] "claude" \in NamesIn[model] -> {"excessive apologies", "unnecessary preamble"}
    [] "gemini" \in NamesIn[model] -> {"unnecessary disclaimers"}
    [] OTHER -> {}

\* Which field of the request each strategy needs.
Needs(strategy) ==
  CASE strategy = "constitutional" -> "principles"
    [] strategy = "styleprofile" -> "style_profile"
    [] strategy = "referenceanchoring" -> "reference_response"
    [] strategy = "fewshotpriming" -> "examples"

Augmentable == {"constitutional", "styleprofile", "referenceanchoring", "fewshotpriming"}

\* Instructions nobody gave are those of a helpful assistant.
Base(instructions) == IF instructions = <<>> THEN <<"helpful assistant">> ELSE instructions

\* The model is the one the request asks for, which may be "auto"; strategies
\* that are not implemented yet, and those whose field is missing, do nothing.
Augmented(request) ==
  LET strategy == request.consistency.strategy
  IN  CASE strategy \in Augmentable /\ Needs(strategy) \in request.consistency.given ->
             Append(Base(request.instructions), Needs(strategy))
        [] strategy = "modelcalibration" ->
             Base(request.instructions)
               \o (IF Quirks(request.model) = {} THEN <<>> ELSE <<"communication style">>)
        [] OTHER -> request.instructions

Preprocessed(request) ==
  [request EXCEPT !.input = IF request.compression.enabled
                            THEN CompressInput(request.input, request.compression)
                            ELSE request.input,
                  !.instructions = Augmented(request)]
=============================================================================

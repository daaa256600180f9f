--------------------------- MODULE ProviderAnswers ---------------------------
(***************************************************************************)
(* What the adapters make of a provider's whole answer: a response of      *)
(* items with a status and token counts, or an error with a code that the  *)
(* gateway escalates on or not.                                            *)
(*                                                                         *)
(* A body is [candidates, usage]; a candidate [blocks, finish, confidence] *)
(* with blocks [kind |-> "text", of], [kind |-> "thinking", of] and        *)
(* [kind |-> "call", id, name, json]; usage [input, written, read, output] *)
(* where Claude counts what its cache wrote and read apart from the input  *)
(* and the others within it.  Finish reasons go by what they mean:         *)
(* "stop", "sequence", "eos", "calls", "length", "context" (the model's    *)
(* own limit), "filter", "other", "unknown", "none".                       *)
(***************************************************************************)
EXTENDS ProviderRequests

CONSTANT MaxTokens      \* the largest token count, 2^32 - 1 in the code

ASSUME AnswersAssumption == MaxTokens \in Nat \ {0}

Capped(n) == IF n > MaxTokens THEN MaxTokens ELSE n

-----------------------------------------------------------------------------
(* Token counts.                                                           *)

NoTokens == [input |-> 0, output |-> 0, cached |-> 0]
Tokens(input, output, cached) == [input |-> input, output |-> output, cached |-> cached]

\* Prompt counts that already hold the cached tokens.
ChatUsage(u) == Tokens(u.input + u.written + u.read, u.output, u.read)

\* Ollama and HuggingFace read no cache counts.
PlainUsage(u) == Tokens(u.input + u.written + u.read, u.output, 0)

\* Claude's input excludes what the cache wrote and read.
AnthropicUsage(u) == Tokens(Capped(Capped(u.input + u.written) + u.read), u.output, u.read)

BedrockUsage(u) == Tokens(Capped(Capped(u.input + u.written) + u.read), u.output, u.read)

-----------------------------------------------------------------------------
(* Status.                                                                 *)

Status(status, reason, error) == [status |-> status, reason |-> reason, error |-> error]
Completed == Status("completed", "none", "none")
Cut(reason) == Status("incomplete", reason, "none")
NoAnswer == Status("failed", "none", "no_response")

\* "unknown" reasons are logged and count as completed.
StatusOf(finish, lengths, filters) ==
    IF finish = "none" THEN NoAnswer
    ELSE IF finish \in lengths THEN Cut("max_tokens")
    ELSE IF finish \in filters THEN Cut("content_filter")
    ELSE Completed

-----------------------------------------------------------------------------
(* The items of an answer.                                                 *)

Said(of) == [kind |-> "message", role |-> "assistant", parts |-> <<[kind |-> "text", of |-> of]>>]
Thought(of) == [kind |-> "reasoning", of |-> of]
Called(id, name, json) == [kind |-> "call", id |-> id, name |-> name, json |-> json]

\* Mutant: every call without an id is called 0.
ChatItemsZero(blocks, indexed) ==
    LET texts == SelectSeq(blocks, LAMBDA b : b.kind = "text")
        calls == SelectSeq(blocks, LAMBDA b : b.kind = "call")
        id(i) == IF indexed /\ calls[i].id = NoId THEN <<"index", 0>> ELSE calls[i].id
    IN (IF texts = <<>> THEN <<>> ELSE <<Said(texts[1].of)>>)
       \o [i \in DOMAIN calls |-> Called(id(i), calls[i].name, calls[i].json)]

\* A chat message has one text at most, and then its calls.  Together and
\* Fireworks may leave out a call's id; its index takes the place.
ChatItems(blocks, indexed) ==
    LET texts == SelectSeq(blocks, LAMBDA b : b.kind = "text")
        calls == SelectSeq(blocks, LAMBDA b : b.kind = "call")
        id(i) == IF indexed /\ calls[i].id = NoId THEN <<"index", i - 1>> ELSE calls[i].id
    IN (IF texts = <<>> THEN <<>> ELSE <<Said(texts[1].of)>>)
       \o [i \in DOMAIN calls |-> Called(id(i), calls[i].name, calls[i].json)]

ClaudeBlock(b, thinking) ==
    CASE b.kind = "text"     -> <<Said(b.of)>>
      [] b.kind = "call"     -> <<Called(b.id, b.name, TRUE)>>
      [] b.kind = "thinking" -> IF thinking THEN <<Thought(b.of)>> ELSE <<>>

ClaudeItems(blocks, thinking) ==
    FlattenSeq([i \in DOMAIN blocks |-> ClaudeBlock(blocks[i], thinking)])

\* Gemini names no calls: the id is made of the function's name.
GeminiItems(blocks) ==
    LET item(b) == IF b.kind = "text" THEN <<Said(b.of)>>
                   ELSE IF b.kind = "call" THEN <<Called(<<"name", b.name>>, b.name, TRUE)>>
                   ELSE <<>>
    IN FlattenSeq([i \in DOMAIN blocks |-> item(blocks[i])])

-----------------------------------------------------------------------------
(* Responses.  Only the first candidate counts.                            *)

Response(status, items, usage, confidence) ==
    [status |-> status.status, reason |-> status.reason, error |-> status.error,
     output |-> items, usage |-> usage, confidence |-> confidence]

NoCandidate == [blocks |-> <<>>, finish |-> "none", confidence |-> 0]
First(body) == IF body.candidates = <<>> THEN NoCandidate ELSE body.candidates[1]

\* Logprobs, where they come, give the response a confidence.
OpenAIAnswer(body) ==
    LET c == First(body)
    IN Response(StatusOf(c.finish, {"length"}, {"filter"}), ChatItems(c.blocks, FALSE),
                ChatUsage(body.usage), c.confidence)

TogetherAnswer(body) ==
    LET c == First(body)
    IN Response(StatusOf(c.finish, {"length"}, {}), ChatItems(c.blocks, TRUE),
                ChatUsage(body.usage), 0)

FireworksAnswer(body) ==
    LET c == First(body)
    IN Response(StatusOf(c.finish, {"length"}, {}), ChatItems(c.blocks, TRUE),
                ChatUsage(body.usage), 0)

MistralAnswer(body) ==
    LET c == First(body)
    IN Response(StatusOf(c.finish, {"length", "context"}, {}), ChatItems(c.blocks, FALSE),
                ChatUsage(body.usage), 0)

OllamaAnswer(body) ==
    LET c == First(body)
    IN Response(StatusOf(c.finish, {"length"}, {}), ChatItems(c.blocks, FALSE),
                PlainUsage(body.usage), 0)

HuggingFaceAnswer(body) ==
    LET c == First(body)
    IN Response(StatusOf(c.finish, {"length"}, {}), ChatItems(c.blocks, FALSE),
                PlainUsage(body.usage), 0)

AnthropicAnswer(body) ==
    LET c == First(body)
    IN Response(StatusOf(c.finish, {"length"}, {}), ClaudeItems(c.blocks, TRUE),
                AnthropicUsage(body.usage), 0)

BedrockAnswer(body) ==
    LET c == First(body)
    IN Response(StatusOf(c.finish, {"length"}, {}), ClaudeItems(c.blocks, FALSE),
                BedrockUsage(body.usage), 0)

\* Gemini may leave out the reason: an answer with items is then complete.
GeminiStatus(finish, items) ==
    CASE finish = "none"  -> IF items = <<>> THEN NoAnswer ELSE Completed
      [] finish = "other" -> Status("failed", "none", "generation_failed")
      [] OTHER            -> StatusOf(finish, {"length"}, {"filter"})

GeminiAnswer(body) ==
    LET c == First(body)
    IN Response(GeminiStatus(c.finish, GeminiItems(c.blocks)), GeminiItems(c.blocks),
                ChatUsage(body.usage), 0)

Answer(provider, body) ==
    CASE provider = "openai"      -> OpenAIAnswer(body)
      [] provider = "together"    -> TogetherAnswer(body)
      [] provider = "fireworks"   -> FireworksAnswer(body)
      [] provider = "mistral"     -> MistralAnswer(body)
      [] provider = "ollama"      -> OllamaAnswer(body)
      [] provider = "huggingface" -> HuggingFaceAnswer(body)
      [] provider = "anthropic"   -> AnthropicAnswer(body)
      [] provider = "bedrock"     -> BedrockAnswer(body)
      [] provider = "google"      -> GeminiAnswer(body)

\* Bodies the adapter's types accept: a chat answer has its finish reason, a
\* call its id where no index or name takes its place.
BlocksOf(body) == UNION {ToSet(body.candidates[i].blocks) : i \in DOMAIN body.candidates}
HasReasons(body) == \A i \in DOMAIN body.candidates : body.candidates[i].finish # "none"
HasIds(body) == \A b \in BlocksOf(body) : b.kind = "call" => b.id # NoId

OpenAIAccepts(body) == HasReasons(body) /\ HasIds(body)
MistralAccepts(body) == HasReasons(body) /\ HasIds(body)
OllamaAccepts(body) == HasReasons(body) /\ HasIds(body)
HuggingFaceAccepts(body) == HasReasons(body) /\ HasIds(body)
TogetherAccepts(body) == HasReasons(body)
FireworksAccepts(body) == HasReasons(body)
AnthropicAccepts(body) == HasIds(body)
\* Bedrock's answers know no thinking.
BedrockAccepts(body) == HasIds(body) /\ \A b \in BlocksOf(body) : b.kind # "thinking"
\* A part of a kind not listed fails the whole answer.
GeminiAccepts(body) == \A b \in BlocksOf(body) : b.kind \in {"text", "call"}

Accepts(provider, body) ==
    CASE provider = "openai"      -> OpenAIAccepts(body)
      [] provider = "together"    -> TogetherAccepts(body)
      [] provider = "fireworks"   -> FireworksAccepts(body)
      [] provider = "mistral"     -> MistralAccepts(body)
      [] provider = "ollama"      -> OllamaAccepts(body)
      [] provider = "huggingface" -> HuggingFaceAccepts(body)
      [] provider = "anthropic"   -> AnthropicAccepts(body)
      [] provider = "bedrock"     -> BedrockAccepts(body)
      [] provider = "google"      -> GeminiAccepts(body)

-----------------------------------------------------------------------------
(* Errors.  A refusal is [status, model, parsed]: the HTTP status, whether *)
(* the message mentions a model, whether the body is the JSON expected.    *)

Unavailable == {502, 503, 504}

NotFound(r) == IF r.model THEN "model_not_found" ELSE "provider_error"

OpenAIError(r) ==
    CASE ~r.parsed                -> "provider_error"
      [] r.status = 400           -> "invalid_request"
      [] r.status \in {401, 403}  -> "authentication_error"
      [] r.status = 404           -> NotFound(r)
      [] r.status = 429           -> "rate_limit_exceeded"
      [] r.status \in Unavailable -> "service_unavailable"
      [] OTHER                    -> "provider_error"

MistralError(r) ==
    IF r.parsed /\ r.status = 422 THEN "invalid_request" ELSE OpenAIError(r)

\* An unexpected body is the message; the status decides all the same.
TogetherError(r) == MistralError([r EXCEPT !.parsed = TRUE])

FireworksError(r) == MistralError([r EXCEPT !.parsed = TRUE])

OllamaError(r) ==
    CASE ~r.parsed      -> "provider_error"
      [] r.status = 400 -> "invalid_request"
      [] r.status = 404 -> NotFound(r)
      [] r.status \in Unavailable \union {500} -> "service_unavailable"
      [] OTHER          -> "provider_error"

HuggingFaceError(r) ==
    CASE ~r.parsed               -> "provider_error"
      [] r.status \in {400, 422} -> "invalid_request"
      [] r.status \in {401, 403} -> "authentication_error"
      [] r.status = 404          -> "model_not_found"
      [] r.status = 429          -> "rate_limit_exceeded"
      [] r.status \in Unavailable \union {500} -> "service_unavailable"
      [] OTHER                   -> "provider_error"

AnthropicError(r) ==
    CASE ~r.parsed      -> "provider_error"
      [] r.status = 404 -> "model_not_found"
      [] r.status = 529 -> "service_unavailable"
      [] OTHER          -> OpenAIError(r)

\* Gemini answers 502 and 504 like any other status.
GeminiError(r) ==
    IF r.status \in {502, 504} THEN "provider_error" ELSE OpenAIError(r)

\* Bedrock's SDK reports a message; words in it decide.
BedrockError(r) ==
    CASE r.status = 403         -> "authentication_error"
      [] r.status = 429         -> "rate_limit_exceeded"
      [] r.status = 404         -> "model_not_found"
      [] r.status \in {500, 503} -> "service_unavailable"
      [] OTHER                  -> "network_error"

Refusal(provider, r) ==
    CASE provider = "openai"      -> OpenAIError(r)
      [] provider = "together"    -> TogetherError(r)
      [] provider = "fireworks"   -> FireworksError(r)
      [] provider = "mistral"     -> MistralError(r)
      [] provider = "ollama"      -> OllamaError(r)
      [] provider = "huggingface" -> HuggingFaceError(r)
      [] provider = "anthropic"   -> AnthropicError(r)
      [] provider = "bedrock"     -> BedrockError(r)
      [] provider = "google"      -> GeminiError(r)

\* reqwest's errors; an answer cut off or malformed is "decode".
TransportError(what) ==
    CASE what = "timeout" -> "timeout"
      [] what = "request" -> "invalid_request"
      [] OTHER            -> "network_error"

\* No answer at all, or one that the types do not accept.
Broken(provider, what) ==
    CASE provider = "bedrock" /\ what = "timeout" -> "timeout"
      [] provider = "bedrock" /\ what = "decode"  -> "parse_error"
      [] provider = "bedrock"                     -> "network_error"
      [] OTHER                                    -> TransportError(what)
=============================================================================

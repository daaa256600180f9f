-------------------------- MODULE ProviderRequests --------------------------
(***************************************************************************)
(* How the adapters put a request into a provider's own terms.             *)
(*                                                                         *)
(* A request is a list of items: messages of parts, calls the assistant    *)
(* made, and outputs of those calls.  A provider's chat API takes messages *)
(* of a role and blocks instead; all calls the assistant made in one turn  *)
(* belong into one message.  Nine adapters do this on three plans: six     *)
(* speak OpenAI's chat completions, two Claude's messages, one Gemini's    *)
(* contents.  Texts, images, sounds and outputs are tokens; arguments and  *)
(* outputs matter only in that they are JSON or not.                       *)
(***************************************************************************)
EXTENDS Integers, Sequences, SequencesExt

(* Items:  [kind |-> "message", role, parts], with parts                   *)
(*           [kind |-> "text", of], [kind |-> "audio", of] or              *)
(*           [kind |-> "image", of, url, data]  (url, data: given or not)  *)
(*         [kind |-> "call", id, name, json]                               *)
(*         [kind |-> "output", id, of, json]                               *)
(* Sent:   [role, blocks], with blocks of kind text, image, audio, note,   *)
(*         call, result.                                                   *)

Message(role, blocks) == [role |-> role, blocks |-> blocks]
Text(of) == [kind |-> "text", of |-> of]
Note(of) == [kind |-> "note", of |-> of]       \* "[Invalid image]", "[Audio: ...]"
Image(of, form) == [kind |-> "image", of |-> of, form |-> form]
Audio(of) == [kind |-> "audio", of |-> of]
Call(id, name, args) == [kind |-> "call", id |-> id, name |-> name, args |-> args]
Result(key, of, form) == [kind |-> "result", key |-> key, of |-> of, form |-> form]

\* Identifiers of calls: the provider's own, an index or a name in its place.
NoId == <<"absent", 0>>

IsSystem(item) == item.kind = "message" /\ item.role = "system"

-----------------------------------------------------------------------------
(* The batching every adapter shares: calls wait until an item that is not *)
(* a call comes, or the input ends, and then go out in one message.        *)

\* Translate item by item; tr gives the messages of an item that is not a
\* call, block the block of one that is.
Batched(input, role, tr(_), block(_)) ==
    LET flushed(s) ==
            IF s.pending = <<>> THEN s.messages
            ELSE Append(s.messages, Message(role, s.pending))
        step(s, item) ==
            IF item.kind = "call"
            THEN [s EXCEPT !.pending = Append(@, block(item))]
            ELSE [messages |-> flushed(s) \o tr(item), pending |-> <<>>]
    IN flushed(FoldLeft(step, [messages |-> <<>>, pending |-> <<>>], input))

-----------------------------------------------------------------------------
(* OpenAI's chat completions.  A dialect says what differs: whether system *)
(* items stay in the list, and whether sounds become a note or vanish.     *)

ChatPart(dialect, p) ==
    CASE p.kind = "text"  -> <<Text(p.of)>>
      [] p.kind = "image" -> IF p.url THEN <<Image(p.of, "url")>>
                             ELSE IF p.data THEN <<Image(p.of, "data")>>
                             ELSE <<Note(p.of)>>
      [] p.kind = "audio" -> IF dialect.sounds THEN <<Note(p.of)>> ELSE <<>>

ChatParts(dialect, parts) ==
    FlattenSeq([i \in DOMAIN parts |-> ChatPart(dialect, parts[i])])

ChatItem(dialect, item) ==
    IF item.kind = "output"
    THEN <<Message("tool", <<Result(item.id, item.of, "text")>>)>>
    ELSE IF item.role = "system" /\ ~dialect.system THEN <<>>
    ELSE <<Message(item.role, ChatParts(dialect, item.parts))>>

ChatMessages(dialect, req) ==
    LET head == IF req.instructions = "none" THEN <<>>
                ELSE <<Message("system", <<Text(req.instructions)>>)>>
    IN head \o Batched(req.input, "assistant",
                       LAMBDA item : ChatItem(dialect, item),
                       LAMBDA c : Call(c.id, c.name, "string"))

\* What a provider is sent: messages, a system prompt, the tool choice, how
\* many candidates it is to produce, whether it reports logprobs.
ChatRequest(dialect, req, choice, logprobs) ==
    [messages |-> ChatMessages(dialect, req), system |-> <<>>,
     choice |-> choice, candidates |-> 1, logprobs |-> logprobs]

\* Logprobs are asked for by the strategies that read them.
OpenAILogprobs(req) ==
    \/ req.strategy \in {"logprobs", "confidence"} /\ req.include
    \/ req.strategy \in {"best_of_n", "self_consistency"} /\ req.byConfidence

OpenAIRequest(req) ==
    ChatRequest([system |-> TRUE, sounds |-> TRUE], req, req.choice, OpenAILogprobs(req))

TogetherRequest(req) ==
    ChatRequest([system |-> FALSE, sounds |-> FALSE], req, req.choice, FALSE)

FireworksRequest(req) ==
    ChatRequest([system |-> FALSE, sounds |-> FALSE], req, req.choice, FALSE)

\* Mistral's word for "required" is "any".
MistralRequest(req) ==
    ChatRequest([system |-> FALSE, sounds |-> TRUE], req,
                IF req.choice = "required" THEN "any" ELSE req.choice, FALSE)

OllamaRequest(req) ==
    ChatRequest([system |-> FALSE, sounds |-> TRUE], req, req.choice, FALSE)

HuggingFaceRequest(req) ==
    ChatRequest([system |-> FALSE, sounds |-> TRUE], req, req.choice, FALSE)

-----------------------------------------------------------------------------
(* The system prompt that Claude and Gemini take beside the messages: the  *)
(* instructions, then the text parts of every system message.              *)

SystemPrompt(req) ==
    LET texts(item) == SelectSeq(item.parts, LAMBDA p : p.kind = "text")
        ofItem(item) == IF IsSystem(item)
                        THEN [i \in DOMAIN texts(item) |-> texts(item)[i].of]
                        ELSE <<>>
    IN (IF req.instructions = "none" THEN <<>> ELSE <<req.instructions>>)
       \o FlattenSeq([i \in DOMAIN req.input |-> ofItem(req.input[i])])

\* The same for Bedrock, which has its own copy.
BedrockSystem(req) == SystemPrompt(req)

GeminiSystem(req) == SystemPrompt(req)

-----------------------------------------------------------------------------
(* Claude's messages, of Anthropic and of Bedrock.                         *)

\* Mutant: an image given by its content alone is taken for invalid.
ClaudePartByUrl(p) ==
    CASE p.kind = "text"  -> Text(p.of)
      [] p.kind = "image" -> IF p.url THEN Image(p.of, "url") ELSE Note(p.of)
      [] p.kind = "audio" -> Note(p.of)

ClaudePart(p) ==
    CASE p.kind = "text"  -> Text(p.of)
      [] p.kind = "image" -> IF p.data THEN Image(p.of, "data")
                             ELSE IF p.url THEN Image(p.of, "url")
                             ELSE Note(p.of)
      [] p.kind = "audio" -> Note(p.of)

ClaudeParts(parts) == [i \in DOMAIN parts |-> ClaudePart(parts[i])]

ClaudeRole(role) == IF role = "assistant" THEN "assistant" ELSE "user"

ClaudeItem(item) ==
    IF item.kind = "output" THEN <<Message("user", <<Result(item.id, item.of, "text")>>)>>
    ELSE IF item.role = "system" THEN <<>>
    ELSE <<Message(ClaudeRole(item.role), ClaudeParts(item.parts))>>

\* Arguments that are no JSON are wrapped rather than dropped.
ParsedCall(c) == Call(c.id, c.name, IF c.json THEN "object" ELSE "wrapped")

ClaudeMessages(req) == Batched(req.input, "assistant", ClaudeItem, ParsedCall)

\* Claude has no way to forbid tools: "none" becomes "auto".
ClaudeChoice(choice) ==
    CASE choice = "required" -> "any"
      [] choice = "none"     -> "auto"
      [] OTHER               -> choice

AnthropicRequest(req) ==
    [messages |-> ClaudeMessages(req), system |-> SystemPrompt(req),
     choice |-> ClaudeChoice(req.choice), candidates |-> 1, logprobs |-> FALSE]

BedrockRequest(req) ==
    [messages |-> ClaudeMessages(req), system |-> BedrockSystem(req),
     choice |-> ClaudeChoice(req.choice), candidates |-> 1, logprobs |-> FALSE]

-----------------------------------------------------------------------------
(* Gemini's contents.  Calls lose their id; results are named by it.       *)

GeminiPart(p) == IF p.kind = "audio" THEN Audio(p.of) ELSE ClaudePart(p)

GeminiParts(parts) == [i \in DOMAIN parts |-> GeminiPart(parts[i])]

GeminiItem(item) ==
    IF item.kind = "output"
    THEN <<Message("user", <<Result(item.id, item.of,
                                    IF item.json THEN "object" ELSE "wrapped")>>)>>
    ELSE IF item.role = "system" THEN <<>>
    ELSE <<Message(IF item.role = "assistant" THEN "model" ELSE "user",
                   GeminiParts(item.parts))>>

GeminiCall(c) == Call(NoId, c.name, IF c.json THEN "object" ELSE "wrapped")

\* Best-of-n and self-consistency ask for several candidates, 8 at most.
GeminiCandidates(req) ==
    IF req.strategy \in {"best_of_n", "self_consistency"}
    THEN IF req.n > 8 THEN 8 ELSE req.n
    ELSE 1

GeminiChoice(choice) == IF choice = "required" THEN "any" ELSE choice

GeminiRequest(req) ==
    [messages |-> Batched(req.input, "model", GeminiItem, GeminiCall),
     system |-> GeminiSystem(req), choice |-> GeminiChoice(req.choice),
     candidates |-> GeminiCandidates(req), logprobs |-> FALSE]

-----------------------------------------------------------------------------
Providers == {"openai", "together", "fireworks", "mistral", "ollama",
              "huggingface", "anthropic", "bedrock", "google"}

\* Every adapter's transform_request.
Translated(provider, req) ==
    CASE provider = "openai"      -> OpenAIRequest(req)
      [] provider = "together"    -> TogetherRequest(req)
      [] provider = "fireworks"   -> FireworksRequest(req)
      [] provider = "mistral"     -> MistralRequest(req)
      [] provider = "ollama"      -> OllamaRequest(req)
      [] provider = "huggingface" -> HuggingFaceRequest(req)
      [] provider = "anthropic"   -> AnthropicRequest(req)
      [] provider = "bedrock"     -> BedrockRequest(req)
      [] provider = "google"      -> GeminiRequest(req)
=============================================================================

---------------------------- MODULE ProviderCalls ----------------------------
(***************************************************************************)
(* A conversation with tools, over providers that change from turn to      *)
(* turn.                                                                   *)
(*                                                                         *)
(* A client sends the conversation so far; the gateway translates it for   *)
(* one provider and asks for one answer, or for n at once and selects a    *)
(* winner (validation/fanout.rs).  A failure that escalates asks another   *)
(* provider the same.  The client appends the answer's items to its list,  *)
(* runs the tools it calls, in any order, and appends their outputs.       *)
(* Providers are external: they answer, refuse or fail as their API allows *)
(* and call a tool only after the text of an answer.                       *)
(***************************************************************************)
EXTENDS ProviderAnswers, FiniteSets

CONSTANTS
    Openings,       \* what a conversation may start with: [instructions, input]
    Modes,          \* how a request asks: strategy, n, logprobs, tool choice
    Bodies,         \* whole answers
    Refusals,       \* [status, model, parsed]
    Breaks,         \* transport errors
    Length,         \* a text's length
    LengthCap,      \* texts longer than this count as this long
    Normal,         \* a text, its case, spacing and punctuation normalized
    MaxAsks         \* bound: calls of providers in a conversation

ASSUME CallsAssumption == MaxAsks \in Nat

VARIABLES
    instructions,   \* of the conversation, "none" without
    input,          \* the client's list of items
    owed,           \* ids of the calls whose outputs the client still owes
    pc,             \* "client" or "calling"
    call,           \* [provider, mode] of the request under way or just done
    sent,           \* what the provider was sent
    replies,        \* what came back for each candidate, once all have
    response,       \* what the client was answered
    asks

vars == <<instructions, input, owed, pc, call, sent, replies, response, asks>>

None == [kind |-> "none"]

Init ==
    /\ \E o \in Openings : instructions = o.instructions /\ input = o.input
    /\ owed = <<>>
    /\ pc = "client"
    /\ call = None
    /\ sent = None
    /\ replies = <<>>
    /\ response = None
    /\ asks = 0

-----------------------------------------------------------------------------
(* Fan-out: validation/fanout.rs.                                          *)

Fans(mode) == mode.strategy \in {"best_of_n", "self_consistency"}

\* Candidates asked for: 1 to 8, 3 unless said.
Count(mode) ==
    IF ~Fans(mode) THEN 1
    ELSE IF mode.n < 1 THEN 1 ELSE IF mode.n > 8 THEN 8 ELSE mode.n

TextOf(r) ==
    LET messages == SelectSeq(r.output, LAMBDA i : i.kind = "message")
    IN [i \in DOMAIN messages |-> messages[i].parts[1].of]

LengthOf(r) ==
    LET total == FoldLeft(LAMBDA n, of : n + Length[of], 0, TextOf(r))
    IN IF total > LengthCap THEN LengthCap ELSE total

\* max_by keeps the last of equals.
LastOf(indices, key(_)) ==
    CHOOSE i \in indices :
        \A j \in indices : key(j) < key(i) \/ (key(j) = key(i) /\ j <= i)

\* Among the responses cs at the given indices: the highest confidence where
\* there is one, else the longest text.
ByLogprob(cs, indices) ==
    LET confident == {i \in indices : cs[i].confidence > 0}
    IN IF confident # {} THEN LastOf(confident, LAMBDA i : cs[i].confidence)
       ELSE LastOf(indices, LAMBDA i : LengthOf(cs[i]))

NormalText(r) == [i \in DOMAIN TextOf(r) |-> Normal[TextOf(r)[i]]]

Groups(cs) == {{i \in DOMAIN cs : NormalText(cs[i]) = NormalText(cs[j])} : j \in DOMAIN cs}

\* Of several largest groups the map's order picks one.  A winner alone in
\* its group is no agreement: all candidates compete.
ByFrequency(cs) ==
    LET largest == {g \in Groups(cs) : \A h \in Groups(cs) : Cardinality(h) <= Cardinality(g)}
    IN {IF Cardinality(g) > 1 THEN ByLogprob(cs, g) ELSE ByLogprob(cs, DOMAIN cs) : g \in largest}

\* Mutant: the text's length decides even where confidences are known.
ByLength(mode, cs) == {LastOf(DOMAIN cs, LAMBDA i : LengthOf(cs[i]))}

SelectWinner(mode, cs) ==
    IF mode.strategy = "self_consistency" THEN ByFrequency(cs)
    ELSE {ByLogprob(cs, DOMAIN cs)}

\* Mutant: only one candidate is billed.
WinnersUsage(cs) == cs[1].usage

\* The tokens of all candidates that took part.
SumUsage(cs) ==
    LET add(t, r) == Tokens(Capped(t.input + r.usage.input), Capped(t.output + r.usage.output),
                            Capped(t.cached + r.usage.cached))
    IN FoldLeft(add, NoTokens, cs)

IsCompleted(r) == r.status = "completed"
IsError(r) == r.status = "error"
Error(code) == [status |-> "error", error |-> code]

\* run_fanout: what N answers come to.  A single candidate is passed on as
\* it is; of several only completed ones take part.
Fanout(mode, results) ==
    LET successes == SelectSeq(results, IsCompleted)
        errors == SelectSeq(results, IsError)
    IN IF Len(results) = 1 THEN {results[1]}
       ELSE IF successes = <<>>
            THEN {IF errors = <<>> THEN Error("internal_error") ELSE errors[1]}
            ELSE {[successes[w] EXCEPT !.usage = SumUsage(successes)] :
                    w \in SelectWinner(mode, successes)}

-----------------------------------------------------------------------------
(* The gateway and the client.                                             *)

Escalates(code) ==
    code \in {"rate_limit_exceeded", "service_unavailable", "timeout", "network_error",
              "model_not_found", "internal_error"}

Request(mode) ==
    [instructions |-> instructions, input |-> input, choice |-> mode.choice,
     strategy |-> mode.strategy, n |-> mode.n, include |-> mode.include,
     byConfidence |-> mode.byConfidence]

\* complete: translate and send; a fan-out sends the same several times.
Ask(provider, mode) ==
    /\ pc = "client" /\ owed = <<>> /\ asks + Count(mode) <= MaxAsks
    /\ pc' = "calling"
    /\ call' = [provider |-> provider, mode |-> mode]
    /\ sent' = Translated(provider, Request(mode))
    /\ asks' = asks + Count(mode)
    /\ replies' = <<>> /\ response' = None
    /\ UNCHANGED <<instructions, input, owed>>

\* What one candidate comes to: an error, or a response.
Outcome(provider, reply) ==
    CASE reply.kind = "refusal" -> Error(Refusal(provider, reply))
      [] reply.kind = "break"   -> Error(Broken(provider, reply.what))
      [] reply.kind = "body"    -> IF Accepts(provider, reply) THEN Answer(provider, reply)
                                   ELSE Error(Broken(provider, "decode"))

Outcomes == [i \in DOMAIN replies |-> Outcome(call.provider, replies[i])]

\* Bodies a provider may answer with: as many candidates as it was asked
\* for, logprobs if they were.
Expected(body) ==
    /\ Len(body.candidates) <= sent.candidates
    /\ \A i \in DOMAIN body.candidates : body.candidates[i].confidence > 0 => sent.logprobs

Replies == [1..Count(call.mode) -> {b \in Bodies : Expected(b)} \union Refusals \union Breaks]

\* The items a client can send back: InputItem knows no reasoning.
Echo(output) == SelectSeq(output, LAMBDA i : i.kind # "reasoning")

Owes(output) ==
    LET calls == SelectSeq(output, LAMBDA i : i.kind = "call")
    IN [i \in DOMAIN calls |-> calls[i].id]

\* All candidates have answered or failed, and r comes of it.
Finish(came, r) ==
    /\ r.status # "error"
    /\ pc' = "client"
    /\ replies' = came /\ response' = r
    /\ input' = input \o Echo(r.output)
    /\ owed' = Owes(r.output)
    /\ UNCHANGED <<instructions, call, sent, asks>>

\* The call fails and the client is told.
Fail(came, r) ==
    /\ r.status = "error"
    /\ pc' = "client"
    /\ replies' = came /\ response' = r
    /\ UNCHANGED <<instructions, input, owed, call, sent, asks>>

\* The call fails and another provider is asked; a fan-out never escalates.
Escalate(r) ==
    /\ r.status = "error" /\ Escalates(r.error)
    /\ ~Fans(call.mode) /\ asks < MaxAsks
    /\ \E p \in Providers \ {call.provider} :
        /\ call' = [call EXCEPT !.provider = p]
        /\ sent' = Translated(p, Request(call.mode))
    /\ asks' = asks + 1
    /\ UNCHANGED <<instructions, input, owed, pc, replies, response>>

Settle(came) ==
    \E r \in Fanout(call.mode, [i \in DOMAIN came |-> Outcome(call.provider, came[i])]) :
        Finish(came, r) \/ Fail(came, r) \/ Escalate(r)

\* The client appends the output of one of its calls.
Return(k) ==
    /\ pc = "client" /\ k \in DOMAIN owed
    /\ \E json \in BOOLEAN :
        input' = Append(input, [kind |-> "output", id |-> owed[k], of |-> owed[k], json |-> json])
    /\ owed' = RemoveAt(owed, k)
    /\ call' = None /\ sent' = None /\ replies' = <<>> /\ response' = None
    /\ UNCHANGED <<instructions, pc, asks>>

Next ==
    \/ \E p \in Providers, m \in Modes : Ask(p, m)
    \/ pc = "calling" /\ \E came \in Replies : Settle(came)
    \/ \E k \in DOMAIN owed : Return(k)

Spec == Init /\ [][Next]_vars

-----------------------------------------------------------------------------
(* Properties.                                                             *)

IsResult(m) == \E i \in DOMAIN m.blocks : m.blocks[i].kind = "result"
CallBlocks(m) == {i \in DOMAIN m.blocks : m.blocks[i].kind = "call"}

\* The results that directly follow message j.
Following(ms, j) == {k \in j + 1..Len(ms) : \A i \in j + 1..k : IsResult(ms[i])}

\* Whatever provider made the calls and whatever provider is asked next, in
\* whatever order the client ran the tools (transform_request): a message
\* with calls is directly followed by as many results, and there are no other
\* results.  To every provider but Gemini each result names exactly one of the
\* calls, or, where the calls are Gemini's own, whose ids are made of the
\* function's name (gemini.rs:482), the calls of that function.  Nothing is
\* claimed of how Gemini is told which call a result is of: it pairs them by
\* name and position (gemini.rs:159), and is sent the call's id for a name
\* (gemini.rs:185), in the order the client ran the tools.
ResultsFindTheirCalls ==
    sent # None =>
        LET ms == sent.messages
            calling == {j \in DOMAIN ms : CallBlocks(ms[j]) # {}}
            named(j, k) == {c \in CallBlocks(ms[j]) : ms[j].blocks[c].id = ms[k].blocks[1].key}
        IN /\ \A j \in calling : Cardinality(Following(ms, j)) = Cardinality(CallBlocks(ms[j]))
           /\ \A k \in DOMAIN ms : IsResult(ms[k]) => \E j \in calling :
                /\ k \in Following(ms, j)
                /\ call.provider # "google" =>
                       \/ Cardinality(named(j, k)) = 1
                       \/ ms[k].blocks[1].key[1] = "name" /\ named(j, k) # {}

\* What the client says with an item, and what a provider is told by a block.
PartToken(p) ==
    IF p.kind = "image" /\ ~p.url /\ ~p.data THEN <<"note", p.of>>
    ELSE IF p.kind = "audio" /\ call.provider # "google" THEN <<"note", p.of>>
    ELSE <<p.kind, p.of>>

Heard(p) == ~(p.kind = "audio" /\ call.provider \in {"together", "fireworks"})

ItemTokens(item) ==
    CASE item.kind = "message" ->
            LET heard == SelectSeq(item.parts, Heard) IN [i \in DOMAIN heard |-> PartToken(heard[i])]
      [] item.kind = "call"    -> <<<<"call", item.name>>>>
      [] item.kind = "output"  -> <<<<"result", item.of>>>>

BlockToken(b) == IF b.kind = "call" THEN <<"call", b.name>> ELSE <<b.kind, b.of>>

TokensOf(items) == FlattenSeq([i \in DOMAIN items |-> ItemTokens(items[i])])

SentTokens ==
    FlattenSeq([i \in DOMAIN sent.messages |->
        LET blocks == sent.messages[i].blocks
        IN [j \in DOMAIN blocks |-> BlockToken(blocks[j])]])

SystemTexts == [i \in DOMAIN sent.system |-> <<"text", sent.system[i]>>]

\* The conversation as it was when sent was made of it.
SaidBefore ==
    SubSeq(input, 1, Len(input) - (IF response = None \/ IsError(response) THEN 0
                                   ELSE Len(Echo(response.output))))

\* Where the code does one thing and the repository says another: whether
\* OpenAI hears a sound (openai.rs:168, provider-mapping.md:634), and whether
\* the other chat adapters pass on a system item (provider-mapping.md:15).
Disputed(systems) ==
    IF call.provider = "openai"
    THEN {"note", "audio"} \X {p.of : p \in {q \in UNION {ToSet(i.parts) :
               i \in {j \in ToSet(input) : j.kind = "message"}} : q.kind = "audio"}}
    ELSE ToSet(TokensOf(systems))

Undisputed(tokens, systems) == SelectSeq(tokens, LAMBDA t : t \notin Disputed(systems))

\* What the conversation says reaches the provider once, in its order, the
\* instructions first (transform_request): images given by address or by
\* content arrive as images, and Claude and Gemini get the texts of the system
\* items beside the messages.  Nothing is claimed of sounds to OpenAI, nor of
\* system items to the other chat providers, which the adapters leave out
\* against what the repository says.
NothingSaidIsLost ==
    sent # None =>
        LET others == SelectSeq(SaidBefore, LAMBDA i : ~IsSystem(i))
            systems == SelectSeq(SaidBefore, LAMBDA i : IsSystem(i))
            head == IF instructions = "none" THEN <<>> ELSE <<<<"text", instructions>>>>
            texts == SelectSeq(TokensOf(systems), LAMBDA t : t[1] = "text")
        IN IF call.provider \in {"anthropic", "bedrock", "google"}
           THEN /\ SystemTexts = head \o texts
                /\ SentTokens = TokensOf(others)
           ELSE Undisputed(SentTokens, systems)
                  = Undisputed(head \o TokensOf(SaidBefore), systems)

\* The candidates of a fan-out that took part: those not cut, not failed.
Taking == {i \in DOMAIN replies : IsCompleted(Outcomes[i])}

Agrees(i) == NormalText(Outcomes[i]) = NormalText(response)

\* Of several candidates the client gets a completed one whenever there is
\* one; what more than half of them say, if it asked for agreement; else no
\* candidate was more sure of itself (select_winner).
TheBestCandidateWins ==
    (replies # <<>> /\ Len(replies) > 1) =>
        IF Taking = {} THEN IsError(response)
        ELSE /\ IsCompleted(response)
             /\ \E i \in Taking : Outcomes[i].output = response.output
             /\ call.mode.strategy = "self_consistency" =>
                    \A i \in Taking :
                        2 * Cardinality({j \in Taking : NormalText(Outcomes[j]) = NormalText(Outcomes[i])})
                            > Cardinality(Taking) => Agrees(i)
             /\ call.mode.strategy = "best_of_n" =>
                    \A i \in Taking : Outcomes[i].confidence <= response.confidence

\* An answer bills every candidate that completed, and all of them no more
\* than they used together, the input with what a cache wrote and read, up to
\* the counter's limit (attach_fanout_metadata).  Nothing is claimed of a
\* candidate that was cut short: fanout.rs:5 "aggregates usage/cost across all
\* attempts", but run_fanout leaves it out.
CandidatesAreBilled ==
    (replies # <<>> /\ ~IsError(response)) =>
        LET answered == {i \in DOMAIN replies : replies[i].kind = "body"}
            tokens(i) == replies[i].usage.input + replies[i].usage.written + replies[i].usage.read
            total(S) == FoldLeft(LAMBDA n, i : n + IF i \in S THEN tokens(i) ELSE 0, 0,
                                 [i \in DOMAIN replies |-> i])
        IN response.usage.input \in Capped(total(Taking))..Capped(total(answered))
=============================================================================

-------------------------- MODULE MCRunningGateway --------------------------
(* Two admins, three documents, three slots' worth of trained models and   *)
(* twelve models of three providers.                                       *)
EXTENDS RunningGateway

CONSTANTS a1, a2, d0, d1, d2, s1, s2

MCAdmins == {a1, a2}
MCPlaces == <<"payload_capture", "auto_router", "gateway_settings">>

\* The empty document, one with tier lists of its own, one that turns routing off.
MCBoot == [name |-> d0]
MCDocs ==
  {MCBoot,
   [name |-> d1, classifier |-> "learned", within |-> "predicted_cost",
    tiers |-> 0 :> <<"nano", "gone", "nano">> @@ 2 :> <<"large">>],
   [name |-> d2, enabled |-> FALSE]}

MCBootConfig ==
  [enabled |-> TRUE, shadow |-> FALSE, mode |-> "balanced", classifier |-> "heuristic",
   within |-> "cheapest", sticky |-> TRUE, floor |-> 1,
   tiers |-> [t \in 0 .. 3 |-> <<>>]]
MCBuiltIn == [t \in 0 .. 3 |-> CASE t = 0 -> <<"flash">> [] t = 1 -> <<"mini">>
                                 [] t = 2 -> <<"elsewhere">> [] OTHER -> <<"deep">>]

Learned(s, base, step) ==
  [kind |-> "learned_lr", slot |-> s, base |-> base, perCode |-> step, boundaries |-> NoBoundaries]
Costs(s, base, step) ==
  [kind |-> "cost_lr", slot |-> s, global |-> [base |-> base, perToken |-> step],
   heads |-> "mini" :> [base |-> 2 * base, perToken |-> 0]]
MCWeights == {Learned(s1, 100, 300), Learned(s2, 500, 0), Costs(s1, 50, 1)}
MCWeightsFile == [k \in Kinds |-> IF k = "learned_lr" THEN {Learned(s2, 0, 200)} ELSE {}]

Price(in, out) == [in |-> in, out |-> out]
Row(id, provider, tags, window, price) ==
  [id |-> id, provider |-> provider, tags |-> tags, window |-> window, price |-> price]

MCRegistration ==
  <<[name |-> "google", models |-> {"flash", "pro", "bare"}],
    [name |-> "openai", models |-> {"nano", "mini", "mid", "large", "deep", "bare"}],
    [name |-> "mistral", models |-> {"small", "coder", "chat", "deeper"}]>>
MCListing == <<"flash", "pro", "chat", "coder", "deeper", "small",
               "bare", "deep", "large", "mid", "mini", "nano">>
MCSources ==
  <<Row("nano", "openai", {}, 300, Price(1, 2)),
    Row("mini", "openai", {"tool-calling"}, 0, Price(2, 4)),
    Row("mid-2025", "openai", {"agentic", "vision"}, 1000, Price(3, 9)),
    Row("large", "openai", {"tool-calling", "vision"}, 0, Price(9, 20)),
    Row("deep", "openai", {"reasoning", "tool-calling"}, 0, Price(10, 40)),
    Row("flash scraped", "google", {"multimodal", "tool-calling"}, 0, Price(1, 3)),
    Row("pro", "google", {"multimodal", "tool-calling"}, 0, Price(4, 12)),
    Row("small", "mistral", {}, 0, Price(1, 1)),
    Row("coder", "mistral", {"tool-calling"}, 500, NoPrice),
    Row("deeper", "mistral", {"reasoning"}, 0, Price(12, 30))>>
MCApiSlug == "flash scraped" :> "flash"
MCCanonical == "mid-2025" :> "mid"
MCSeeded == "coder" :> Price(4, 12) @@ "chat" :> Price(6, 6) @@ "mini" :> Price(100, 100)

MCKeywords ==
  [code |-> {"refactor", "rust"}, reasoning |-> {"prove", "analyse", "why"},
   technical |-> {"latency", "index", "shard", "quorum"}, simple |-> {"hello", "thanks"},
   quick |-> {"briefly"}, deep |-> {"in depth"}]

Says(chars, words) == [chars |-> chars, words |-> words, questions |-> 0, fences |-> 0]
User(text) == [kind |-> "user", text |-> text, image |-> FALSE]
Ask(input) ==
  [input |-> input, instructions |-> NoText, continues |-> FALSE, tools |-> 0,
   choice |-> "auto", maxOutput |-> 0, min |-> 0, max |-> 3, allow |-> {}, deny |-> {},
   budget |-> 0]

Greeting == Ask(<<User(Says(5, {"hello", "thanks"}))>>)
OneLiner == Ask(<<User(Says(824, {"hello", "thanks", "rust"}))>>)
Task == Ask(<<User(Says(400, {"refactor", "rust", "path", "first then"}))>>)
Proof == Ask(<<User(Says(200, {"prove", "analyse", "why"}))>>)
MCAsked ==
  {Greeting, OneLiner, Task, Proof,
   [Proof EXCEPT !.input = <<User(Says(200, {"prove", "analyse", "why", "briefly"}))>>],
   [Task EXCEPT !.tools = 1, !.max = 0],
   [Task EXCEPT !.tools = 1, !.choice = "required", !.budget = 1500],
   [Greeting EXCEPT !.instructions = [Says(90, {"latency", "index"}) EXCEPT !.questions = 4,
                                                                          !.fences = 1],
                    !.budget = 300],
   [OneLiner EXCEPT !.input = <<User([Says(30, {"index"}) EXCEPT !.fences = 2]),
                                [User(NoText) EXCEPT !.image = TRUE]>>],
   [OneLiner EXCEPT !.continues = TRUE, !.maxOutput = 4000, !.deny = {"pro", "large"},
                    !.input = <<[kind |-> "output", text |-> Says(90, {}), image |-> FALSE],
                                User(Says(40, {"in depth"}))>>],
   [Task EXCEPT !.min = 1, !.max = 2, !.allow = {"mini", "mid", "large", "deep"}]}

MCReplies == {NoReply, [object |-> 2, words |-> {0}], [object |-> NoTier, words |-> {0, 1}]}

MCJudgeWords == {"a", "b", "same", "late", "unsure"}

\* A generated prompt, another label and another verdict for it, a held out
\* prompt that is a live one too, and one with a tier nobody knows.
Row1 == [prompt |-> Says(60, {"shard"}), hex |-> TRUE, intended |-> "simple", label |-> "medium",
         low |-> "medium", high |-> "reasoning", decided |-> {"simple"}, split |-> {},
         weight |-> 1, verdict |-> {"tie"}]
MCGenerated ==
  {Row1,
   [Row1 EXCEPT !.label = "simple", !.decided = {}, !.split = {"holdout"}, !.verdict = {"b"}],
   [Row1 EXCEPT !.prompt = Says(5, {"hello", "thanks"}), !.split = {"holdout"}, !.verdict = {}],
   [Row1 EXCEPT !.prompt = Says(70, {"shard"}), !.high = "best"]}

\* The routers of these documents list models and have a floor, as the theorems
\* about serving ask of a router.
ASSUME RoutersAssumption ==
  \A doc \in Docs : Routers[doc] # NoRouter =>
    /\ Routers[doc].floor \in Tiers
    /\ Routers[doc].tiers \in [Tiers -> Seq(STRING)]
=============================================================================

------------------------------ MODULE MCRollup ------------------------------
EXTENDS DecisionPages

\* A definition is evaluated once, but the one a constant is given in the
\* configuration at every use of the constant: the tables are definitions apart.

\* Names and prices of three models; the large one answers under a dated name.
MCNamesIn == [m \in {"auto", "small", "large"} |->
                CASE m = "small" -> {"gpt"} [] m = "large" -> {"claude"} [] OTHER -> {}]
MCPrices == [m \in {"small"} |-> [input |-> 3, output |-> 5, cached |-> {1}, reasoning |-> {}]]
MCModelMap == [m \in {"small", "large"} |-> IF m = "small" THEN "openai" ELSE "groq"]
MCPrefixOf == [m \in {"large-2025"} |-> "unknown"]

\* A table of two rows, and a rule about another.
Toon == [min_array_size |-> 2, min_fields |-> 2]
Compressing == [enabled |-> TRUE, auto_select |-> TRUE, semantic_format |-> "aisp",
                data_format |-> "json_compact", toon |-> Toon]
Table == [kind |-> "array", items |-> <<{"id", "name"}, {"id", "name"}>>, rows |-> FALSE]
Plain(tokens, rules, json) ==
  [tokens |-> tokens, rules |-> rules, json |-> json,
   packed |-> [f \in {"toon", "yaml", "markdown", "jsonminify"} |-> IF f = "toon" THEN 3 ELSE 5],
   aisp |-> [tokens |-> 4, json |-> NotJson]]
Message(text) == [kind |-> "message", text |-> text, image |-> TRUE]

Wants(ask) ==
  [model |-> ask.model, validation |-> ask.validation, consistency |-> ask.consistency,
   compression |-> [Compressing EXCEPT !.enabled = ask.consistency.strategy # "none"],
   instructions |-> <<>>,
   input |-> <<Message(Plain(6, FALSE, Table)), [kind |-> "output"], Message(Plain(5, TRUE, NotJson))>>]

Sure == [strategy |-> "none", min_confidence |-> {}]
Threshold == [strategy |-> "confidencethreshold", min_confidence |-> {8}]
AsIs == [strategy |-> "none", given |-> {}]

Call(name) == [kind |-> "function_call", name |-> name, status |-> "completed"]
Answer(said) ==
  [model |-> said.model, status |-> "completed", output |-> said.output,
   confidence |-> said.confidence, reason |-> {}, metadata |-> "none", aura |-> {},
   usage |-> {[input |-> 4, output |-> 2, cached |-> {6}, reasoning |-> {}, cost |-> {}]}]

Chosen(tier, classified, escalated) ==
  [arm |-> [tier |-> tier, model |-> IF tier = "simple" THEN "small" ELSE "large"],
   mode |-> "balanced", classified |-> classified, escalated |-> escalated,
   requested |-> 5, selected |-> IF tier = "simple" THEN 1 ELSE 5,
   boundaries |-> IF escalated THEN "malformed" ELSE "recorded"]

Ask(model, validation, consistency) ==
  [model |-> model, validation |-> validation, consistency |-> consistency]

Answering(model, output, confidence) ==
  [model |-> model, output |-> output, confidence |-> confidence]

Asked(choice, provider, ask, answers) ==
  [choice |-> choice, provider |-> provider, ask |-> ask, answers |-> answers]

Exchanges ==
  "unsure" :>
         Asked(Chosen("simple", "simple", FALSE), "openai", Ask("auto", Threshold, AsIs),
               {Answering("small", <<Call("read")>>, {5})})
  @@ "shadowed" :>
         Asked(Chosen("simple", "simple", FALSE), "openai",
               Ask("small", Threshold, [strategy |-> "modelcalibration", given |-> {}]),
               {Answering("small",
                          <<Call("search"), [kind |-> "reasoning"], Call("search"), Call("read")>>, {})})
  @@ "failed" :> Asked(Chosen("complex", "simple", TRUE), "groq", Ask("auto", Sure, AsIs), {})
  @@ "ingested" :> Asked(Chosen("simple", "simple", FALSE), "groq", Ask("auto", Sure, AsIs), {})
  @@ "named" :>
         Asked(Chosen("complex", "simple", FALSE), "groq",
               Ask("large", Sure, [strategy |-> "constitutional", given |-> {"principles"}]),
               {Answering("large-2025", <<Call("read")>>, {})})

\* The exchange, what the client was given of it and the row that was logged.
ExchangeOf(x) == [request |-> Wants(x.ask), answer |-> {Answer(said) : said \in x.answers}]
GivenIn(exchange) == {Delivered(exchange.request, a) : a \in exchange.answer}

LoggedRow(x, given) ==
  IF given = {} THEN FailedRow(x.provider, x.choice.arm.model, 7)
  ELSE LogRow(x.provider, x.choice.arm.model, CHOOSE a \in given : TRUE, 5)

Told(x, exchange, given) ==
  [choice |-> x.choice, exchange |-> exchange, log |-> LoggedRow(x, given),
   status |-> IF given = {} THEN "failed" ELSE (CHOOSE a \in given : TRUE).status]

ToldOf(x, exchange) == Told(x, exchange, GivenIn(exchange))

SaidTable == [name \in DOMAIN Exchanges |-> ToldOf(Exchanges[name], ExchangeOf(Exchanges[name]))]

MCSaid == SaidTable

Request(name, kind, linked) ==
  [arm |-> SaidTable[name].choice.arm, kind |-> kind, linked |-> linked, says |-> name,
   status |-> SaidTable[name].status]

\* First a decided request whose answer was too unsure for it, one the router
\* only shadowed, compressed and calibrated, a synthetic one, or one that named
\* its model; then one no provider answered after an escalation.
RequestTable ==
  << {Request("unsure", "applied", TRUE), Request("shadowed", "shadow", TRUE),
      Request("ingested", "synthetic", FALSE), Request("named", "plain", FALSE)},
     {Request("failed", "applied", FALSE)} >>

MCRequests == RequestTable

\* The user corrects the answer.
MCNextTurns == {[tool |-> FALSE, stronger |-> FALSE, text |-> "correction", here |-> TRUE]}

MCNoLimit == 1000

\* It is half past eight in the evening.  A young row is of this hour, a due one
\* is 23 hours and three quarters old, an expired one almost seven days: both
\* lie inside the period and before the first line of its timeline.
MCNowHour == 20
MCWithin ==
  [p \in {"1h", "24h", "1d", "2d", "3d", "4d", "5d", "6d", "7d", "30d", "90d", "all"} |->
     CASE p = "1h" -> {2}
       [] p \in {"7d", "30d", "90d", "all"} -> {2, 3, 4}
       [] OTHER -> {2, 3}]
MCBefore == [p \in {"24h", "1d", "7d", "all"} |-> {}]
MCClock == [age \in 2..4 |-> [day |-> CASE age = 2 -> 0 [] age = 3 -> 1 [] OTHER -> 7,
                              hour |-> IF age = 4 THEN 21 ELSE 20]]
MCRegistered == [p \in {"openai", "mistral"} |-> p = "openai"]
MCPriced == [m \in {"small", "large"} |-> IF m = "large" THEN 2 ELSE 0]

Everything ==
  [period |-> "all", from |-> {}, mode |-> "any", tier |-> "any", classified |-> "any",
   changed |-> "any", model |-> "any", shadow |-> "any", synthetic |-> "exclude",
   escalated |-> "any", status |-> "any", outcome |-> "any", feedback |-> "any",
   min_reward |-> MCNoLimit, max_reward |-> MCNoLimit, min_cost |-> MCNoLimit,
   max_cost |-> MCNoLimit, limit |-> 1]

\* Rows leave this list when they are scored.
WalkedTable == {[Everything EXCEPT !.outcome = "unscored"]}
MCWalked == WalkedTable

MCQueries ==
  {Everything,
   [Everything EXCEPT !.limit = 0, !.min_reward = -2, !.max_reward = 2],
   [Everything EXCEPT !.limit = 300, !.status = "pending"],
   [Everything EXCEPT !.from = {2}, !.period = "fortnight", !.changed = "false"],
   [Everything EXCEPT !.outcome = "unscored", !.min_cost = 0],
   [Everything EXCEPT !.min_cost = 9, !.max_cost = 1],
   [Everything EXCEPT !.synthetic = "only"],
   [Everything EXCEPT !.tier = "hard"]}
  \cup {[Everything EXCEPT !.period = "7d", !.tier = t, !.shadow = s] :
           t \in {"simple", "complex"}, s \in {"true", "false"}}
=============================================================================

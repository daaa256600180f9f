------------------------------ MODULE GoldPairs ------------------------------
(***************************************************************************)
(* The labels the learned classifier is trained on.  Some requests are     *)
(* answered a second time in the background, by the cheapest model of the  *)
(* lowest and of the highest tier, and a judge says whether the cheap      *)
(* answer would have done; generated requests come labelled in batches.    *)
(* Both kinds are rows of routing_gold_pairs.                              *)
(*                                                                         *)
(* A prompt stands for its hash.  Texts, costs and latencies of the two    *)
(* answers are left out: an answer is "text" or how the call failed.       *)
(***************************************************************************)
EXTENDS ModelCatalog

TierNames == <<"simple", "medium", "complex", "reasoning">>

-----------------------------------------------------------------------------
(* Live pairs                                                              *)

\* The text of the last message of the user, when there is any.
LastUserText(req) ==
  LET said == {i \in DOMAIN req.input : req.input[i].kind = "user"}
  IN  IF said = {} \/ req.input[Max(said)].text.chars = 0 THEN {}
      ELSE {req.input[Max(said)].text}

\* Of a decision that is not synthetic: plain text that needs no context.
IsGoldEligible(req, f) ==
  /\ f.tools = 0 /\ ~f.images /\ ~f.toolLoop
  /\ ~req.continues
  /\ LastUserText(req) # {}

CheapestIn(router, req, f, t) ==
  Cheapest(router.tiers[t], Eligible(req, f, ToSet(router.tiers[t])))

\* One model for each end of the tiers that have any.
PairOf(cheapest) ==
  LET stocked == {t \in Tiers : cheapest[t] # {}}
      pairs(l, h) == [low : {l}, cheap : cheapest[l], high : {h}, strong : cheapest[h]]
  IN  {p \in UNION {pairs(l, h) : l, h \in stocked} :
         /\ \A t \in stocked : p.low <= t /\ t <= p.high
         /\ p.low # p.high /\ p.cheap # p.strong}

\* Whatever bounds and budget the request has; none when the two ends meet.
PickPair(router, req, f) == PairOf([t \in Tiers |-> CheapestIn(router, req, f, t)])

\* How a background call ends.
Answers == {"text", "error", "timeout"}

Verdicts == {"a", "b", "tie"}

ParseJudge(word) == IF word \in {"equal", "same"} THEN {"tie"} ELSE {word} \cap Verdicts

\* No verdict, when the judge cannot be reached, is late or says something else.
JudgePair(word) == IF word = "late" THEN {} ELSE ParseJudge(word)

\* The judge is asked only when both have answered.
LivePair(text, pair, decided, answers, word) ==
  [source |-> "live", response |-> "request", prompt |-> text, decided |-> TierNames[decided + 1],
   low |-> TierNames[pair.low + 1], high |-> TierNames[pair.high + 1],
   verdict |-> IF answers = <<"text", "text">> THEN JudgePair(word) ELSE {},
   batch |-> "none", split |-> "train", intended |-> "none", label |-> "none"]

-----------------------------------------------------------------------------
(* Generated pairs                                                         *)

KnownTier(name) == name \in ToSet(TierNames)

Acceptable(given) ==
  /\ given.hex
  /\ KnownTier(given.intended) /\ KnownTier(given.label) /\ KnownTier(given.low) /\ KnownTier(given.high)
  /\ \A t \in given.decided : KnownTier(t)
  /\ \A s \in given.split : s \in {"train", "holdout"}
  /\ given.weight >= 0
  /\ given.verdict \subseteq Verdicts

Given(optional, default) == IF optional = {} THEN default ELSE CHOOSE x \in optional : TRUE

SyntheticPair(batch, given) ==
  [source |-> "synthetic", response |-> <<batch, given.prompt>>, prompt |-> given.prompt,
   decided |-> Given(given.decided, given.label), low |-> given.low, high |-> given.high,
   verdict |-> given.verdict, batch |-> batch, split |-> Given(given.split, "train"),
   intended |-> given.intended, label |-> given.label]

-----------------------------------------------------------------------------
(* The table, oldest row first                                             *)

\* A generated prompt has one row; ingesting it again replaces the columns
\* that came with the batch, not what was decided nor the name it got first.
InsertPair(table, pair) ==
  LET same == {i \in DOMAIN table : /\ pair.source = "synthetic" /\ table[i].source = "synthetic"
                                    /\ table[i].prompt = pair.prompt}
  IN  IF same = {} THEN Append(table, pair)
      ELSE [i \in DOMAIN table |->
              IF i \in same THEN [pair EXCEPT !.response = table[i].response,
                                              !.decided = table[i].decided]
              ELSE table[i]]

\* Row by row: what cannot be used is reported and the rest still lands.
Counting(out, after) ==
  IF Len(after) > Len(out.table) THEN [out EXCEPT !.table = after, !.inserted = @ + 1]
  ELSE [out EXCEPT !.table = after, !.updated = @ + 1]

IngestSyntheticGold(table, batch, lines) ==
  FoldLeft(LAMBDA out, given :
             IF Acceptable(given)
             THEN Counting(out, InsertPair(out.table, SyntheticPair(batch, given)))
             ELSE [out EXCEPT !.rejected = @ + 1],
           [table |-> table, inserted |-> 0, updated |-> 0, rejected |-> 0], lines)

GoldSummary(table) ==
  LET count(Test(_)) == Cardinality({i \in DOMAIN table : Test(table[i])})
      generated(p) == p.source = "synthetic"
  IN  [total |-> Len(table),
       cheap_sufficed |-> count(LAMBDA p : p.verdict \cap {"a", "tie"} # {}),
       strong_better |-> count(LAMBDA p : p.verdict = {"b"}),
       ties |-> count(LAMBDA p : p.verdict = {"tie"}),
       failed |-> count(LAMBDA p : p.verdict = {}),
       live |-> count(LAMBDA p : ~generated(p)), synthetic |-> count(generated),
       train |-> count(LAMBDA p : generated(p) /\ p.split = "train"),
       holdout |-> count(LAMBDA p : generated(p) /\ p.split = "holdout"),
       agreed |-> count(LAMBDA p : generated(p) /\ p.intended = p.label)]
=============================================================================

--------------------------- MODULE RunningGateway ---------------------------
(***************************************************************************)
(* The gateway while admins change it: the settings document               *)
(* (GatewaySettings) and the trained models (RouterModels) move, one       *)
(* process holds both, and every request to "auto" is decided by the       *)
(* router made of the document in force (ModelCatalog) and the classifier  *)
(* and cost model in memory (Classify).                                    *)
(* A sample of the decisions is labelled (GoldPairs) for the next training. *)
(*                                                                         *)
(* An admin has one request in flight.  A restart takes settings, models   *)
(* and whatever is in flight at once.                                      *)
(***************************************************************************)
EXTENDS GatewaySettings, RouterModels, GoldPairs

CONSTANTS Asked,       \* the requests to "auto"
          Replies,     \* what the classifying language model may answer
          MaxChanges,  \* bound: requests of the admins, of both kinds
          JudgeWords,  \* the words a judge may answer
          Generated    \* rows a script may send for ingestion

\* The admins who edit the settings are those who train the router.
ASSUME RunningAssumption == Operators = Admins

\* What training may put into weights, and what a request may hold.
ASSUME DecidingAssumption ==
  LET text == [chars : Nat, words : SUBSET STRING, questions : Nat, fences : Nat]
      head == [base : Int, perToken : Int]
      limits == [medium : Int, complex : Int, reasoning : Int]
  IN  /\ \A w \in Weights \cup UNION {WeightsFile[k] : k \in Kinds} :
           /\ w.kind = "learned_lr" => w.base \in Int /\ w.perCode \in Int /\ w.boundaries \in limits
           /\ w.kind = "cost_lr" => w.global \in head /\ \A m \in DOMAIN w.heads : w.heads[m] \in head
      /\ \A r \in Asked :
           /\ r.input \in Seq([kind : STRING, text : text, image : BOOLEAN])
           /\ r.instructions \in text
           /\ {r.min, r.max} \subseteq Tiers
      /\ Replies \subseteq [object : 0 .. 4, words : SUBSET Tiers]

runningVars == <<settingsVars, modelVars>>

RunningInit == SettingsInit /\ ModelsInit

Free(a) == puts[a].pc = "idle" /\ jobs[a].pc = "idle" /\ putsSent + opsSent < MaxChanges

ChangeDocument(a) ==
  /\ \/ Free(a) /\ \E doc \in Docs : PutSettings(a, doc)
     \/ Saved(a) \/ SaveFails(a) \/ Apply(a)
  /\ UNCHANGED modelVars

ChangeModels(a) ==
  /\ \/ Free(a) /\ BeginOperation(a)
     \/ ModelStep(a)
  /\ UNCHANGED settingsVars

NewProcess == Restart /\ ModelsRestart

RunningNext == NewProcess \/ \E a \in Admins : ChangeDocument(a) \/ ChangeModels(a)

RunningSpec == RunningInit /\ [][RunningNext]_runningVars

-----------------------------------------------------------------------------
(* Deciding                                                                *)

Features == [r \in Asked |-> ExtractFeatures(r)]

Routers == [doc \in Docs |-> BuildRouter(ApplyToAuto(doc))]

\* resolve_auto_model: the heuristic stands in for a classifier that is not
\* loaded or does not answer.
Classified(f, learned, mode, classifier, reply) ==
  CASE classifier = "learned" /\ learned # {} ->
         LearnedTier(CHOOSE l \in learned : TRUE, f, mode, DefaultBoundaries)
    [] classifier = "llm" /\ ParsedReply(reply) # NoTier -> ParsedReply(reply)
    [] OTHER -> HeuristicTier(f, mode, DefaultBoundaries)

\* The modes from the thriftiest to the best.
ByQuality == <<"cost", "balanced", "quality">>

Loadable(k) ==
  {{}} \cup {{w} : w \in {v \in Weights \cup UNION {WeightsFile[x] : x \in Kinds} : v.kind = k}}

RisesWith(class) == class[1] <= class[2] /\ class[2] <= class[3]

\* The classifiers in memory under which a better mode classifies no lower.
OrderedModes ==
  {learned \in Loadable("learned_lr") :
     \A f \in Range(Features), classifier \in Classifiers, reply \in Replies :
       RisesWith([i \in 1 .. 3 |-> Classified(f, learned, ByQuality[i], classifier, reply)])}

\* What serves a request by the class it is given.
ServedByClass(router, r, f, costs) == [class \in Tiers |-> Served(router, r, f, class, costs)]

RisesBy(served, thrifty) ==
  \A lower \in 0 .. 2 : \A s \in served[lower], u \in served[lower + 1] :
    /\ s.tier <= u.tier
    /\ thrifty /\ u.tier < 3 => Blended(s.model) <= Blended(u.model)

\* A pair brackets what serves the request when its models are the ones that
\* would be chosen at the two ends, whatever the request's own bounds, and no
\* decision for the request is outside of them; no pair means the ends meet.
Brackets(pair, cheapest, served) ==
  /\ \A p \in pair :
       /\ cheapest[0] = {[model |-> p.cheap, tier |-> p.low]}
       /\ cheapest[3] = {[model |-> p.strong, tier |-> p.high]}
       /\ \A class \in Tiers : \A s \in served[class] : p.low <= s.tier /\ s.tier <= p.high
  /\ pair = {} => \A s \in cheapest[0], u \in cheapest[3] : s.tier = u.tier \/ s.model = u.model

Unbound(r) == [r EXCEPT !.min = 0, !.max = 3, !.budget = 0]

CheapestByClass(router, r, f) == ServedByClass([router EXCEPT !.within = "cheapest"], Unbound(r), f, {})

\* Whichever cost model is in memory, a request that is classified higher is
\* served no lower and, by the cheapest of derived lists, no cheaper; a pair
\* picked with the router that served it brackets it.
FairTo(r, f, served, router, thrifty) ==
  /\ RisesBy(served, thrifty)
  /\ IsGoldEligible(r, f) => Brackets(PickPair(router, r, f), CheapestByClass(router, r, f), served)

Fair(router, derived, features) ==
  \A r \in Asked, costs \in Loadable("cost_lr") :
    FairTo(r, features[r], ServedByClass(router, r, features[r], costs), router,
           derived /\ router.within = "cheapest")

\* What the background calls and the judge may leave of the sampled requests.
LiveTable(router, features) ==
  FoldSet(LAMBDA pair, table : InsertPair(table, pair), <<>>,
          UNION {{LivePair(text, p, p.low, <<a, b>>, word) :
                    text \in LastUserText(r), p \in PickPair(router, r, features[r]),
                    a \in Answers, b \in Answers, word \in JudgeWords} :
                 r \in {x \in Asked : IsGoldEligible(x, features[x])}})

\* Every row of the last ingestion is counted once; the same batch once more
\* changes nothing.
CountsOnce(live_rows, first, second, again, page) ==
  /\ page.total = page.cheap_sufficed + page.strong_better + page.failed
  /\ page.synthetic = page.train + page.holdout
  /\ page.synthetic = first.inserted + second.inserted
  /\ SubSeq(second.table, 1, page.live) = live_rows
  /\ again = [second EXCEPT !.inserted = 0, !.updated = @ + second.inserted]

IngestAgain(live_rows, first, second, two) ==
  CountsOnce(live_rows, first, second, IngestSyntheticGold(second.table, "second", two),
             GoldSummary(second.table))

IngestNext(live_rows, first, two) ==
  IngestAgain(live_rows, first, IngestSyntheticGold(first.table, "second", two), two)

\* The page of the labels counts every row once, whatever is ingested after
\* one another.
Counted(live_rows) ==
  \A one \in BoundedSeq(Generated, 2) : \A two \in BoundedSeq(Generated, 2) :
    IngestNext(live_rows, IngestSyntheticGold(live_rows, "first", one), two)

Settled(router, derived, features) ==
  router # NoRouter => Fair(router, derived, features) /\ Counted(LiveTable(router, features))

SettledDocs == {doc \in Docs : Settled(Routers[doc], Derived(doc), Features)}

-----------------------------------------------------------------------------
\* Whichever document and trained models the admins, failures and restarts
\* have left in force: a request asked under "cost" is never classified above
\* the same request under "balanced", nor that above "quality", whichever
\* classifier answers, runs late or is not loaded; classified higher it is served
\* by no lower tier, whatever images, tools, context, allow lists or a budget rule
\* out, and, where tier lists are derived from the catalog and models chosen by
\* "cheapest" (no other strategy), by no cheaper model below the reasoning tier,
\* whose models are chosen by their tag.  The pairs that the next classifier
\* learns from, picked while the router that decided is still in force, compare
\* the two ends of that order, and a batch ingested again counts no row twice.
ModesAreOrdered ==
  /\ loaded["learned_lr"] \in OrderedModes
  /\ live["auto_router"] \in SettledDocs
=============================================================================

--------------------------- MODULE MCResponsePath ---------------------------
(* Instances of the request path for TLC.                                  *)
EXTENDS ResponsePathProps, TLC

CONSTANTS r1, r2, r3, a, b, c

Symmetry == Permutations(Requests)

\* Two cheap models of one tier, a and b, and a stronger one, c.
Lists(t0, t1, t2, t3) == 0 :> t0 @@ 1 :> t1 @@ 2 :> t2 @@ 3 :> t3

\* One escalation, as by default.
Usual == [enabled |-> TRUE, tiers |-> Lists({a, b}, {c}, {}, {}), floor |-> 1,
          onErrors |-> {"unavailable"}, maxAttempts |-> 1]

\* A model listed in two tiers, a hole in the middle, no tools floor, and a
\* router that only shadows.
Sparse == [enabled |-> TRUE, tiers |-> Lists({a}, {}, {a, b}, {c}), floor |-> 0,
           onErrors |-> {"unavailable"}, maxAttempts |-> 2]
ShadowOnly == [Usual EXCEPT !.enabled = FALSE, !.floor = 2]

PlainAuto == [auto |-> TRUE, pinned |-> a, stream |-> FALSE, fanout |-> FALSE,
              min |-> 0, max |-> 3, orgMin |-> 0, orgMax |-> 3,
              tools |-> FALSE, serves |-> {a, b, c}, cheap |-> {a, b, c},
              sticky |-> FALSE, prev |-> a, org |-> "unset"]
PinnedToA == [PlainAuto EXCEPT !.auto = FALSE]
StreamedPinned == [PinnedToA EXCEPT !.stream = TRUE]
FannedOut == [PlainAuto EXCEPT !.fanout = TRUE, !.stream = TRUE]

\* Breaker runs: who feeds the breaker and who is steered by it.
BreakerProfiles == {PlainAuto, PinnedToA}
BreakerConfigs == {Usual}

\* Bounds runs: tier bounds, policies, tools, budgets, tool loops.
BoundsProfiles ==
    {[PlainAuto EXCEPT !.min = lo, !.max = hi, !.orgMin = policy, !.tools = t,
                       !.serves = s, !.cheap = {a, c}, !.sticky = k, !.prev = b,
                       !.org = "on"] :
        lo \in {0, 1}, hi \in {0, 2, 3}, policy \in {0, 2}, t \in BOOLEAN,
        s \in {{a, b, c}, {a, c}, {b}}, k \in BOOLEAN}
BoundsConfigs == {Usual, Sparse, ShadowOnly}

\* What a request must come through: streams, fan-outs, pinned models.
LiveProfiles == {StreamedPinned, FannedOut, [PinnedToA EXCEPT !.org = "off"]}
RoamingProfiles == BoundsProfiles \cup LiveProfiles

ToolsProfiles == {[PlainAuto EXCEPT !.tools = TRUE, !.serves = {a, b}]}
PolicyProfiles == {[PlainAuto EXCEPT !.orgMin = 1, !.max = 0]}
=============================================================================

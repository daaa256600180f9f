--------------------------- MODULE MCProviderCalls ---------------------------
(* Two openings, five ways to ask, answers of every shape the adapters       *)
(* tell apart.                                                               *)
EXTENDS ProviderCalls, TLC

User(parts) == [kind |-> "message", role |-> "user", parts |-> parts]
System(parts) == [kind |-> "message", role |-> "system", parts |-> parts]
TextPart(of) == [kind |-> "text", of |-> of]
Picture(of, url, data) == [kind |-> "image", of |-> of, url |-> url, data |-> data]

MCOpenings ==
    {[instructions |-> "be brief",
      input |-> <<System(<<TextPart("house rules")>>),
                  User(<<TextPart("look"), Picture("cat", FALSE, TRUE),
                         [kind |-> "audio", of |-> "meow"]>>)>>],
     [instructions |-> "none",
      input |-> <<User(<<Picture("dog", TRUE, FALSE), Picture("nothing", FALSE, FALSE),
                         TextPart("and this")>>)>>]}

Mode(strategy, n, byConfidence) ==
    [strategy |-> strategy, n |-> n, include |-> FALSE, byConfidence |-> byConfidence,
     choice |-> "auto"]

MCModes == {Mode("none", 0, FALSE), Mode("best_of_n", 2, TRUE), Mode("best_of_n", 2, FALSE),
            Mode("self_consistency", 3, FALSE), Mode("self_consistency", 3, TRUE)}

TextBlock(of) == [kind |-> "text", of |-> of]
CallBlock(id, name) == [kind |-> "call", id |-> id, name |-> name, json |-> TRUE]
Body(candidates, usage) == [kind |-> "body", candidates |-> candidates, usage |-> usage]
Candidate(blocks, finish, confidence) ==
    [blocks |-> blocks, finish |-> finish, confidence |-> confidence]
Usage(fresh, written, read, output) ==
    [input |-> fresh, written |-> written, read |-> read, output |-> output]

MCBodies ==
    {Body(<<Candidate(<<TextBlock("42")>>, "stop", 0)>>, Usage(1, 1, 0, 1)),
     Body(<<Candidate(<<TextBlock("42.")>>, "stop", 1)>>, Usage(1, 0, 1, 1)),
     Body(<<Candidate(<<TextBlock("no idea")>>, "stop", 2)>>, Usage(2, 0, 0, 1)),
     Body(<<Candidate(<<TextBlock("maybe"), CallBlock(<<"given", 1>>, "search"),
                        CallBlock(<<"given", 2>>, "search")>>, "calls", 0)>>, Usage(1, 0, 0, 1)),
     Body(<<Candidate(<<CallBlock(NoId, "search"), CallBlock(NoId, "read")>>, "calls", 0)>>,
          Usage(1, 0, 0, 1)),
     Body(<<Candidate(<<[kind |-> "thinking", of |-> "hm"], TextBlock("maybe")>>, "stop", 0)>>,
          Usage(1, 0, 0, 1)),
     Body(<<Candidate(<<TextBlock("4")>>, "length", 0)>>, Usage(1, 0, 0, 1)),
     Body(<<Candidate(<<>>, "none", 0)>>, Usage(1, 0, 0, 0))}

MCRefusals == {[kind |-> "refusal", status |-> 503, model |-> FALSE, parsed |-> TRUE]}
MCBreaks == {[kind |-> "break", what |-> "request"]}

MCLength == [t \in {"42", "42.", "no idea", "maybe", "4"} |->
                CASE t = "42" -> 2 [] t = "42." -> 3 [] t = "no idea" -> 7
                  [] t = "maybe" -> 5 [] OTHER -> 1]
MCNormal == [t \in DOMAIN MCLength |-> IF t = "42." THEN "42" ELSE t]
=============================================================================

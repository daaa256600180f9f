------------------------- MODULE MCProviderStreams -------------------------
(* Frames of the three kinds of provider streams, for TLC.                 *)
EXTENDS ProviderStreams

Chunk(content, indices, u) ==
    [kind |-> "chunk", content |-> content, calls |-> indices, usage |-> u]
Part(parts, finish) == [kind |-> "parts", parts |-> parts, finish |-> finish]

\* Text, two calls in one chunk, text with a call and the counts, the end.
SomeChunks ==
    {Chunk(TRUE, <<>>, FALSE), Chunk(FALSE, <<1, 0>>, FALSE),
     Chunk(TRUE, <<0>>, TRUE), [kind |-> "done"]}

SomeBlocks ==
    {[kind |-> "text_start"], [kind |-> "text"], [kind |-> "error"],
     [kind |-> "tool_start", index |-> 1], [kind |-> "args", index |-> 1],
     [kind |-> "stop", ends |-> TRUE], [kind |-> "stop", ends |-> FALSE]}

SomeParts ==
    {Part(<<"text">>, FALSE), Part(<<"call">>, FALSE),
     Part(<<"text", "call">>, TRUE), Part(<<>>, TRUE)}
=============================================================================

-------------------------- MODULE ProviderStreams --------------------------
(***************************************************************************)
(* How the provider adapters turn a provider's stream into the events of   *)
(* the Open Responses protocol.                                            *)
(*                                                                         *)
(* An adapter is polled for its next event.  It first announces the        *)
(* response, then hands out queued events, then handles the next complete  *)
(* line of its buffer, and only then waits for bytes, which arrive cut     *)
(* anywhere: in the middle of a line or of a character.  Nine adapters     *)
(* share this loop and differ in how they handle a line.  A frame stands   *)
(* for one line: what the JSON of the line says to the adapter.  A piece   *)
(* <<f, i>> is the i-th text or argument fragment of frame f.  The         *)
(* provider and the network are external: a provider sends a script its    *)
(* API allows and closes, and the connection may break at any time.        *)
(***************************************************************************)
EXTENDS Integers, Sequences, SequencesExt, FiniteSets

CONSTANTS
    MaxFrames,      \* bound: frames of a script
    Chunks,         \* frames of an OpenAI-compatible stream
    Blocks,         \* frames of a Claude stream
    Parts           \* frames of a Gemini stream

\* What the JSON of a line may say: a chunk has text or calls by their index, a
\* Claude event its kind, a Gemini chunk its parts and whether it finishes: for
\* a reason the adapter acts on (STOP, MAX_TOKENS or SAFETY); it ignores others,
\* so that a chunk with one of those is a chunk without.
ASSUME StreamsAssumption ==
    /\ MaxFrames \in Nat
    /\ Chunks \subseteq
         [kind : {"chunk"}, content : BOOLEAN, calls : Seq(Nat), usage : BOOLEAN]
           \cup [kind : {"done"}]
    /\ Blocks \subseteq
         [kind : {"text_start", "text", "error"}]
           \cup [kind : {"tool_start", "args"}, index : Nat]
           \cup [kind : {"stop"}, ends : BOOLEAN]
    /\ Parts \subseteq
         [kind : {"parts"}, parts : Seq({"text", "call"}), finish : BOOLEAN]

-----------------------------------------------------------------------------
(* The adapters.  queues: events wait in a queue, so one line can give     *)
(* several.  usage: the token counts of the stream are read.  sdk: the     *)
(* provider's SDK delivers whole frames instead of bytes.                  *)

Adapter(family, flags) ==
    [family |-> family, queues |-> "queues" \in flags,
     usage |-> "usage" \in flags, sdk |-> "sdk" \in flags]

OpenAI      == Adapter("chunks", {"usage"})
HuggingFace == Adapter("chunks", {})
Ollama      == Adapter("chunks", {})
Mistral     == Adapter("chunks", {})
Together    == Adapter("chunks", {"queues", "usage"})
Fireworks   == Adapter("chunks", {"queues", "usage"})
Anthropic   == Adapter("blocks", {"usage"})
Bedrock     == Adapter("blocks", {"usage", "sdk"})
Gemini      == Adapter("parts", {"queues", "usage"})

Adapters == {OpenAI, HuggingFace, Ollama, Mistral, Together, Fireworks,
             Anthropic, Bedrock, Gemini}

-----------------------------------------------------------------------------
(* The wire.  A line is an ASCII byte that stands for the JSON around the  *)
(* text, a character of two bytes, and a newline; in a damaged line the    *)
(* character lacks its second byte.                                        *)

Newline == [b |-> "newline", f |-> 0]
Ascii(f) == [b |-> "ascii", f |-> f]
Lead(f) == [b |-> "lead", f |-> f]
Continuation(f) == [b |-> "continuation", f |-> f]
Character(f) == [b |-> "character", f |-> f]
Replacement == [b |-> "replacement", f |-> 0]

Line(f, damaged) ==
    IF f = damaged THEN <<Ascii(f), Lead(f), Newline>>
                   ELSE <<Ascii(f), Lead(f), Continuation(f), Newline>>

Bytes(n, damaged) ==
    LET bytes[f \in 0 .. n] ==
          IF f = 0 THEN <<>> ELSE bytes[f - 1] \o Line(f, damaged)
    IN bytes[n]

NothingYet == [text |-> <<>>, pending |-> <<>>]

\* One byte more, after the text decoded so far and an unfinished character.
DecodeByte(d, byte) ==
    LET kept == IF d.pending # <<>> /\ byte.b # "continuation"
                THEN Append(d.text, Replacement) ELSE d.text
    IN CASE byte.b = "lead" -> [text |-> kept, pending |-> <<byte>>]
         [] byte.b = "continuation" ->
              [text |-> Append(kept, IF d.pending # <<>> THEN Character(byte.f)
                                                         ELSE Replacement),
               pending |-> <<>>]
         [] OTHER -> [text |-> Append(kept, byte), pending |-> <<>>]

\* Mutant of PushUtf8: each chunk is decoded on its own and dropped whole
\* when it ends inside a character.
PushUtf8Naive(d, bytes) ==
    LET alone == FoldLeft(DecodeByte, NothingYet, bytes)
    IN IF alone.pending = <<>>
       THEN [text |-> d.text \o alone.text, pending |-> <<>>] ELSE d

\* push_utf8: an unfinished character waits for the next chunk, an invalid
\* byte costs one character.
PushUtf8(d, bytes) ==
    LET decoded[i \in 0 .. Len(bytes)] ==
          IF i = 0 THEN d ELSE DecodeByte(decoded[i - 1], bytes[i])
    IN decoded[Len(bytes)]

-----------------------------------------------------------------------------

VARIABLES
    adapter,    \* the adapter at work
    script,     \* the frames its provider sends
    damaged,    \* a frame with a damaged character, or 0
    got,        \* bytes received
    broken,     \* the connection broke
    buffer,     \* decoded text and an unfinished character
    handled,    \* frames taken out of the buffer
    pending,    \* queued events
    item, part, \* output_item.added and content_part.added are out
    text,       \* accumulated_text, as pieces
    calls,      \* accumulated tool calls: argument pieces by index
    usage,      \* token counts have been read
    finished,   \* the final response has been built (completed_sent, done)
    out,        \* events handed to the client
    closed      \* the event stream has ended

wire == <<adapter, script, damaged>>
acc == <<item, part, text, calls, usage, finished>>
vars == <<adapter, script, damaged, got, broken, buffer, handled, pending,
          item, part, text, calls, usage, finished, out, closed>>

\* Scripts a provider's API allows.  A text block starts before its deltas
\* and a tool block before its arguments; [DONE] and message_delta come last,
\* a finish reason after all content, or the provider stops without one.
WellFormed(s) ==
    \A i \in DOMAIN s :
        /\ s[i].kind \in {"done", "stop"} => i = Len(s)
        /\ s[i].kind = "text" =>
            \E j \in 1 .. i - 1 : s[j].kind = "text_start"
        /\ s[i].kind = "args" =>
            \E j \in 1 .. i - 1 : /\ s[j].kind = "tool_start"
                                  /\ s[j].index = s[i].index
        /\ s[i].kind = "parts" /\ s[i].parts # <<>> =>
            \A j \in 1 .. i - 1 : ~s[j].finish

Frames(family) ==
    CASE family = "chunks" -> Chunks
      [] family = "blocks" -> Blocks
      [] family = "parts"  -> Parts

Scripts(family) == {s \in BoundedSeq(Frames(family), MaxFrames) : WellFormed(s)}

Init ==
    /\ adapter \in Adapters
    /\ script \in Scripts(adapter.family)
    /\ damaged \in {0, Len(script)}
    /\ got = 0 /\ broken = FALSE
    /\ buffer = NothingYet
    /\ handled = 0
    /\ pending = <<>>
    /\ item = FALSE /\ part = FALSE /\ text = <<>> /\ calls = <<>>
    /\ usage = FALSE /\ finished = FALSE
    /\ out = <<>> /\ closed = FALSE

-----------------------------------------------------------------------------
(* Events.                                                                 *)

Event(type) == [type |-> type]
Delta(piece) == [type |-> "delta", piece |-> piece]
Args(index, piece) == [type |-> "args", index |-> index, piece |-> piece]

\* The response built from what has been accumulated.  The order of its tool
\* calls, which the adapters take from a hash map, is not part of it.
Completed(t, c, u) ==
    [type |-> "completed", text |-> t, calls |-> c, usage |-> u]

\* The first of some events is returned, the others wait in the queue.
Hand(events) ==
    IF events = <<>>
    THEN UNCHANGED <<out, pending>>
    ELSE /\ out' = Append(out, Head(events))
         /\ pending' = Tail(events)

\* accumulated_tool_calls.entry(index).or_default(), then push_str.
WithArgs(c, index, pieces) ==
    [i \in DOMAIN c \cup {index} |->
        IF i # index THEN c[i]
        ELSE IF i \in DOMAIN c THEN c[i] \o pieces ELSE pieces]

-----------------------------------------------------------------------------
(* The poll loop.                                                          *)

\* response.created and response.in_progress come before anything is read.
Announce ==
    /\ Len(out) < 2
    /\ out' = Append(out, Event(IF out = <<>> THEN "created" ELSE "in_progress"))
    /\ UNCHANGED <<wire, got, broken, buffer, handled, pending, acc, closed>>

Ready == Len(out) >= 2 /\ ~closed

PopPending ==
    /\ Ready /\ pending # <<>>
    /\ Hand(pending)
    /\ UNCHANGED <<wire, got, broken, buffer, handled, acc, closed>>

\* The next complete line, when there is one.
LineEnd ==
    IF \E i \in DOMAIN buffer.text : buffer.text[i] = Newline
    THEN CHOOSE i \in DOMAIN buffer.text :
            /\ buffer.text[i] = Newline
            /\ \A j \in 1 .. i - 1 : buffer.text[j] # Newline
    ELSE 0

\* A line is parsed; what surrounds the text tells which frame it is.
TakeLine(f) ==
    /\ Ready /\ pending = <<>> /\ LineEnd # 0
    /\ ~(adapter.sdk /\ finished)
    /\ f = buffer.text[1].f
    /\ buffer' = [buffer EXCEPT !.text = SubSeq(@, LineEnd + 1, Len(@))]
    /\ handled' = handled + 1
    /\ UNCHANGED <<wire, got, broken, closed>>

-----------------------------------------------------------------------------
(* OpenAI-compatible chunks: choices[0].delta has content, or tool calls.  *)

\* Mutant of ChunkText: the delta is queued without being accumulated.
ChunkTextUnsaved(f) ==
    IF adapter.queues
    THEN /\ item' = TRUE /\ part' = TRUE
         /\ UNCHANGED text
         /\ Hand((IF item THEN <<>> ELSE <<Event("item")>>)
                   \o (IF part THEN <<>> ELSE <<Event("part")>>)
                   \o <<Delta(<<f, 1>>)>>)
    ELSE UNCHANGED <<item, part, text, out, pending>>

\* A content delta.  An adapter without a queue returns the announcement of
\* the item, then of the part, in place of the delta.
ChunkText(f) ==
    IF adapter.queues
    THEN /\ item' = TRUE /\ part' = TRUE
         /\ text' = Append(text, <<f, 1>>)
         /\ Hand((IF item THEN <<>> ELSE <<Event("item")>>)
                   \o (IF part THEN <<>> ELSE <<Event("part")>>)
                   \o <<Delta(<<f, 1>>)>>)
    ELSE \/ /\ ~item
            /\ item' = TRUE
            /\ Hand(<<Event("item")>>)
            /\ UNCHANGED <<part, text>>
         \/ /\ item /\ ~part
            /\ part' = TRUE
            /\ Hand(<<Event("part")>>)
            /\ UNCHANGED <<item, text>>
         \/ /\ item /\ part
            /\ text' = Append(text, <<f, 1>>)
            /\ Hand(<<Delta(<<f, 1>>)>>)
            /\ UNCHANGED <<item, part>>

\* Tool calls: the handler returns at the first one with arguments.
ChunkCall(f, index) ==
    /\ calls' = WithArgs(calls, index, <<<<f, 1>>>>)
    /\ Hand(<<Args(index, <<f, 1>>)>>)
    /\ UNCHANGED <<item, part, text>>

HandleChunk ==
    /\ adapter.family = "chunks"
    /\ \E f \in DOMAIN script :
        /\ TakeLine(f)
        /\ script[f].kind = "chunk"
        /\ usage' = (usage \/ (adapter.usage /\ script[f].usage))
        /\ \/ /\ script[f].content
              /\ ChunkText(f)
              /\ UNCHANGED calls
           \/ /\ ~script[f].content /\ script[f].calls # <<>>
              /\ ChunkCall(f, Head(script[f].calls))
           \/ /\ ~script[f].content /\ script[f].calls = <<>>
              /\ UNCHANGED <<item, part, text, calls, out, pending>>
    /\ UNCHANGED finished

\* Mutant of HandleDone: a response without text is not completed.
HandleDoneWithText ==
    /\ adapter.family = "chunks"
    /\ \E f \in DOMAIN script :
        /\ TakeLine(f)
        /\ script[f].kind = "done"
        /\ Hand(IF text # <<>> THEN <<Completed(text, calls, usage)>> ELSE <<>>)
    /\ finished' = (text # <<>>)
    /\ UNCHANGED <<item, part, text, calls, usage>>

\* "data: [DONE]".  Only a queue has room for output_text.done.
HandleDone ==
    /\ adapter.family = "chunks"
    /\ \E f \in DOMAIN script :
        /\ TakeLine(f)
        /\ script[f].kind = "done"
        /\ Hand((IF adapter.queues /\ text # <<>> THEN <<Event("text_done")>>
                                                  ELSE <<>>)
                  \o <<Completed(text, calls, usage)>>)
    /\ finished' = TRUE
    /\ UNCHANGED <<item, part, text, calls, usage>>

-----------------------------------------------------------------------------
(* Claude's typed events, from Anthropic and through Bedrock, which        *)
(* answers with response.in_progress whenever it has nothing to say.       *)

Nothing == IF adapter.sdk THEN <<Event("in_progress")>> ELSE <<>>

\* content_block_start of a text block or of a tool.
BlockStarts(f) ==
    \/ /\ script[f].kind = "text_start"
       /\ item' = TRUE
       /\ Hand(IF item THEN Nothing ELSE <<Event("item")>>)
       /\ UNCHANGED calls
    \/ /\ script[f].kind = "tool_start"
       /\ calls' = WithArgs(calls, script[f].index, <<>>)
       /\ Hand(Nothing)
       /\ UNCHANGED item

\* content_block_delta: the first text delta only announces the part.
BlockGrows(f) ==
    \/ /\ script[f].kind = "text" /\ ~part
       /\ part' = TRUE
       /\ Hand(<<Event("part")>>)
       /\ UNCHANGED <<text, calls>>
    \/ /\ script[f].kind = "text" /\ part
       /\ text' = Append(text, <<f, 1>>)
       /\ Hand(<<Delta(<<f, 1>>)>>)
       /\ UNCHANGED <<part, calls>>
    \/ /\ script[f].kind = "args"
       /\ calls' = WithArgs(calls, script[f].index, <<<<f, 1>>>>)
       /\ Hand(<<Args(script[f].index, <<f, 1>>)>>)
       /\ UNCHANGED <<part, text>>

\* message_delta: only end_turn, tool_use and stop_sequence complete the
\* response; max_tokens and the other reasons say nothing.
Stops(f) ==
    /\ script[f].kind = "stop"
    /\ usage' = TRUE
    /\ \/ /\ script[f].ends
          /\ finished' = TRUE
          /\ Hand(<<Completed(text, calls, TRUE)>>)
       \/ /\ ~script[f].ends
          /\ UNCHANGED finished
          /\ Hand(Nothing)

HandleBlock ==
    /\ adapter.family = "blocks"
    /\ \E f \in DOMAIN script :
        /\ TakeLine(f)
        /\ \/ BlockStarts(f) /\ UNCHANGED <<part, text, usage, finished>>
           \/ BlockGrows(f) /\ UNCHANGED <<item, usage, finished>>
           \/ Stops(f) /\ UNCHANGED <<item, part, text, calls>>
           \/ /\ script[f].kind = "error" /\ ~adapter.sdk
              /\ Hand(<<Event("error")>>)
              /\ UNCHANGED acc
           \/ /\ script[f].kind = "error" /\ adapter.sdk
              /\ Hand(Nothing)
              /\ UNCHANGED acc

-----------------------------------------------------------------------------
(* Gemini: a chunk has several parts, and perhaps the finish reason.       *)

\* One part, after the parts before it in its chunk.  Calls are kept by the
\* position of their part in the chunk: a later chunk's call replaces one.
AddPart(f, s, i) ==
    IF script[f].parts[i] = "text"
    THEN [s EXCEPT !.item = TRUE, !.part = TRUE,
                   !.text = Append(@, <<f, i>>),
                   !.events = @
                      \o (IF s.item THEN <<>> ELSE <<Event("item")>>)
                      \o (IF s.part THEN <<>> ELSE <<Event("part")>>)
                      \o <<Delta(<<f, i>>)>>]
    ELSE [s EXCEPT !.calls = [j \in DOMAIN @ \cup {i} |->
                                IF j = i THEN <<<<f, i>>>> ELSE @[j]],
                   !.events = Append(@, Args(i, <<f, i>>))]

\* What the parts of a chunk come to.
AddParts(f) ==
    LET after[i \in 0 .. Len(script[f].parts)] ==
          IF i = 0
          THEN [item |-> item, part |-> part, text |-> text, calls |-> calls,
                events |-> <<>>]
          ELSE AddPart(f, after[i - 1], i)
    IN after[Len(script[f].parts)]

\* Mutant of HandleParts: every finish reason completes the response.
HandlePartsAgain ==
    /\ adapter.family = "parts"
    /\ \E f \in DOMAIN script :
        /\ TakeLine(f)
        /\ LET s == AddParts(f)
           IN /\ item' = s.item /\ part' = s.part /\ text' = s.text
              /\ calls' = s.calls /\ usage' = TRUE
              /\ finished' = (finished \/ script[f].finish)
              /\ Hand(s.events \o (IF script[f].finish
                                   THEN <<Completed(s.text, s.calls, TRUE)>>
                                   ELSE <<>>))

\* Content first, then the final response, once.
HandleParts ==
    /\ adapter.family = "parts"
    /\ \E f \in DOMAIN script :
        /\ TakeLine(f)
        /\ LET s == AddParts(f)
           IN /\ item' = s.item /\ part' = s.part /\ text' = s.text
              /\ calls' = s.calls /\ usage' = TRUE
              /\ finished' = (finished \/ script[f].finish)
              /\ Hand(s.events \o (IF script[f].finish /\ ~finished
                                   THEN <<Completed(s.text, s.calls, TRUE)>>
                                   ELSE <<>>))

-----------------------------------------------------------------------------
(* Waiting for bytes.                                                      *)

Waits == Ready /\ pending = <<>> /\ LineEnd = 0 /\ ~(adapter.sdk /\ finished)

Sent == Bytes(Len(script), damaged)

\* A chunk: any number of bytes, or the next frame from an SDK.
Receive ==
    /\ Waits /\ ~broken
    /\ \E n \in 1 .. Len(Sent) - got :
        /\ adapter.sdk => /\ Sent[got + n] = Newline
                          /\ \A i \in 1 .. n - 1 : Sent[got + i] # Newline
        /\ got' = got + n
        /\ buffer' = PushUtf8(buffer, SubSeq(Sent, got + 1, got + n))
    /\ UNCHANGED <<wire, broken, handled, pending, acc, out, closed>>

\* The connection breaks before the provider has closed it.
Break ==
    /\ Waits /\ ~broken
    /\ broken' = TRUE
    /\ out' = Append(out, Event("error"))
    /\ UNCHANGED <<wire, got, buffer, handled, pending, acc, closed>>

\* The byte stream ends.  Gemini's adapter completes a response with content
\* that no finish reason completed; the others just end.
StreamEnds ==
    /\ Waits /\ (broken \/ got = Len(Sent))
    /\ IF adapter.family = "parts" /\ ~finished /\ (text # <<>> \/ calls # <<>>)
       THEN /\ finished' = TRUE
            /\ Hand(<<Completed(text, calls, usage)>>)
            /\ UNCHANGED closed
       ELSE closed' = TRUE /\ UNCHANGED <<finished, out, pending>>
    /\ UNCHANGED <<wire, got, broken, buffer, handled, item, part, text, calls,
                   usage>>

\* Bedrock's adapter stops by itself once the response is complete.
StopsWhenDone ==
    /\ Ready /\ adapter.sdk /\ finished
    /\ closed' = TRUE
    /\ UNCHANGED <<wire, got, broken, buffer, handled, pending, acc, out>>

Poll ==
    \/ Announce \/ PopPending \/ HandleChunk \/ HandleDone \/ HandleBlock
    \/ HandleParts \/ Receive \/ StreamEnds \/ StopsWhenDone

Next == Poll \/ Break

\* The server polls the adapter until it ends; bytes that were sent arrive
\* unless the connection breaks.
Spec == Init /\ [][Next]_vars /\ WF_vars(Poll)

-----------------------------------------------------------------------------
(* Properties.                                                             *)

\* No response is completed twice and none changes after its completion; the
\* client that shows the deltas and the next turn that replays the stored
\* response see the same text and tool calls, from every adapter (Gemini's
\* keeps the last of the calls at a position: README).
Client == INSTANCE EventStream WITH
    events <- out, strict <- adapter.family # "parts"
ImplementsEventStream == Client!Spec

\* Each line reaches the handler once, in order and with its own text,
\* however the network cuts the bytes; an invalid byte costs one character
\* of one line (push_utf8).
DecodedAsSent ==
    LET decoded == PushUtf8(NothingYet, SubSeq(Sent, 1, got))
        LinesIn(chars) == Cardinality({i \in DOMAIN chars : chars[i] = Newline})
    IN /\ IsSuffix(buffer.text, decoded.text)
       /\ buffer.pending = decoded.pending
       /\ handled + LinesIn(buffer.text) = LinesIn(decoded.text)

\* The pieces of text among the parts of a frame, which is the f-th of its
\* script, and in any frame.
TextOf(parts, f) ==
    LET texts[i \in 0 .. Len(parts)] ==
          IF i = 0 THEN <<>>
          ELSE IF parts[i] = "text" THEN Append(texts[i - 1], <<f, i>>)
          ELSE texts[i - 1]
    IN texts[Len(parts)]

TextIn(frame, f) ==
    CASE frame.kind = "chunk" -> IF frame.content THEN <<<<f, 1>>>> ELSE <<>>
      [] frame.kind = "text"  -> <<<<f, 1>>>>
      [] frame.kind = "parts" -> TextOf(frame.parts, f)
      [] OTHER -> <<>>

\* The pieces of text in the first n frames of a script.
TextSent(frames, n) ==
    LET sent[f \in 0 .. n] ==
          IF f = 0 THEN <<>> ELSE sent[f - 1] \o TextIn(frames[f], f)
    IN sent[n]

Completion ==
    IF \E i \in DOMAIN out : out[i].type = "completed"
    THEN out[CHOOSE i \in DOMAIN out : out[i].type = "completed"].text
    ELSE <<>>

\* An adapter with a queue passes on all the text the provider sent, the
\* first delta included, and stores it (together.rs, fireworks.rs, gemini.rs).
QueuesLoseNoText ==
    adapter.queues /\ closed /\ finished /\ ~broken
        => Completion = TextSent(script, Len(script))

\* Whatever the network does, a stream in which the provider ended its answer
\* is completed for the client, unless the connection breaks first: the
\* finish reason is never lost in the middle of a chunk (sse.rs).
FinishedIsCompleted ==
    (/\ script # <<>>
     /\ LET last == Last(script)
        IN \/ last.kind = "done"
           \/ last.kind = "stop" /\ last.ends
           \/ last.kind = "parts" /\ last.finish)
        ~> (finished \/ broken)
=============================================================================

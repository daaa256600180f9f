---------------------------- MODULE EventStream ----------------------------
(***************************************************************************)
(* What a client of a streamed response may rely on, whichever provider    *)
(* answers: the events come in the order of the Open Responses protocol,   *)
(* the response ends at most once, and the response.completed event says   *)
(* what the deltas before it said.  The adapters of ProviderStreams        *)
(* implement this module.                                                  *)
(***************************************************************************)
EXTENDS Sequences, SequencesExt, Integers

VARIABLES
    events,     \* the events handed to the client so far
    closed,     \* no event follows
    strict      \* the calls of the final response are the streamed ones

Types == {"created", "in_progress", "item", "part", "delta", "args",
          "text_done", "completed", "error"}

\* The pieces that the events at some places bring, in their order.
Pieces(es, places) ==
    LET pieces[i \in 0 .. Len(es)] ==
          IF i = 0 THEN <<>>
          ELSE IF i \in places THEN Append(pieces[i - 1], es[i].piece)
          ELSE pieces[i - 1]
    IN pieces[Len(es)]

\* The pieces of text, and of one call's arguments, a client has been shown.
Shown(es) == Pieces(es, {i \in DOMAIN es : es[i].type = "delta"})

ShownArgs(es, index) ==
    Pieces(es, {i \in DOMAIN es : es[i].type = "args" /\ es[i].index = index})

Has(es, type) == \E i \in DOMAIN es : es[i].type = type

\* The final response repeats what was streamed; its calls may lack pieces
\* unless it is exact.
Repeats(es, response, exact) ==
    /\ response.text = Shown(es)
    /\ \A i \in DOMAIN response.calls :
        /\ IsSuffix(response.calls[i], ShownArgs(es, i))
        /\ exact => response.calls[i] = ShownArgs(es, i)

\* Event e may follow the events es.
MayFollow(es, e, exact) ==
    CASE e.type = "created"     -> es = <<>>
      [] e.type = "in_progress" -> Has(es, "created")
      [] e.type = "item"        -> Has(es, "in_progress") /\ ~Has(es, "item")
      [] e.type = "part"        -> Has(es, "item") /\ ~Has(es, "part")
      [] e.type = "delta"       -> Has(es, "part")
      [] e.type = "args"        -> Has(es, "in_progress")
      [] e.type = "text_done"   -> Shown(es) # <<>> /\ ~Has(es, "text_done")
      [] e.type = "completed"   -> Has(es, "in_progress") /\ Repeats(es, e, exact)
      [] e.type = "error"       -> Has(es, "in_progress")

Init == events = <<>> /\ closed = FALSE /\ strict \in BOOLEAN

\* After the completion only a failing connection is reported.
Emit ==
    /\ ~closed
    /\ events' # events
    /\ Front(events') = events
    /\ MayFollow(events, Last(events'), strict)
    /\ Has(events, "completed") => Last(events').type = "error"
    /\ UNCHANGED <<closed, strict>>

Close ==
    /\ ~closed
    /\ closed' = TRUE
    /\ UNCHANGED <<events, strict>>

Next == Emit \/ Close

Spec == Init /\ [][Next]_<<events, closed, strict>>
=============================================================================

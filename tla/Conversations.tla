--------------------------- MODULE Conversations ---------------------------
(***************************************************************************)
(* What a request leaves behind: the conversation it joins, the row a      *)
(* later turn finds under previous_response_id, the cache entry, and the   *)
(* usage record, written by tasks that outlive the request.                *)
(*                                                                         *)
(* A request goes through the awaits of create_response in order; between  *)
(* two of them other requests run, the client leaves, a statement fails,   *)
(* a conversation is deleted or the process stops.  An answer's id is the  *)
(* request that obtained it from a provider; a conversation's id is the    *)
(* request that created it.  The database and its tables are external:     *)
(* one statement is one step, rows go with their conversation, and an      *)
(* insert that names a missing conversation fails.                         *)
(***************************************************************************)
EXTENDS Integers

CONSTANTS
    MaxRequests,    \* bound: requests, in the order they arrive
    Inputs,         \* prompts, as the cache key sees them
    Messages,       \* first user messages: [len |-> bytes, starts |-> the
                    \* offsets at which a character begins]
    MaxTroubles     \* bound: errors, panics, departures, deletions, stops

ASSUME ConversationsAssumption ==
    /\ MaxRequests \in Nat /\ MaxTroubles \in Nat
    /\ \A m \in Messages : m.len \in Nat /\ m.starts \subseteq Nat

Requests == 1 .. MaxRequests
None == 0
TitleMax == 100
TitleKeep == 97

VARIABLES
    pc,         \* where each request is
    turn,       \* what it asked: the request whose answer it follows, whether
                \* it returns tool results, how it is served, its prompt
    replayed,   \* requests that got the earlier turn's tool calls prepended
    conv,       \* the conversation of each request, or None
    answer,     \* the id each request was answered with, or None
    calls,      \* answers that ask for tool calls
    billable,   \* answers with usage, obtained for an authenticated key
    late,       \* answers streamed as response.failed or response.incomplete
    rows,       \* answers in the responses table
    alive,      \* conversations in the conversations table
    cache,      \* entries [key, id] of the response cache
    tasks,      \* writes a request's spawned task still has to make
    usage,      \* usage records per answer
    failed,     \* requests that lost a write or a read to an error or a stop
    troubles    \* troubles left

vars == <<pc, turn, replayed, conv, answer, calls, billable, late, rows, alive,
          cache, tasks, usage, failed, troubles>>

asked == <<turn, replayed>>
obtained == <<calls, billable, late>>
tables == <<rows, alive, usage>>

InFlight == {"replay", "cache", "lookup", "call", "store", "save", "saved"}
Turns == [follow : {None} \cup Requests, tool : BOOLEAN,
          mode : {"stream", "sync", "cached"}, input : Inputs]
NoTurn == [follow |-> None, tool |-> FALSE, mode |-> "sync", input |-> "none"]
Keys == [input : Inputs, prev : {None} \cup Requests, replayed : BOOLEAN]

\* What a spawned task writes.  "records" are the request log, the routing
\* decision and the message rows.
Writes == {"usage", "records", "save"}

ConvTypeOK ==
    /\ pc \in [Requests -> {"new", "answered", "refused", "panicked", "gone"}
                             \cup InFlight]
    /\ turn \in [Requests -> {NoTurn} \cup Turns]
    /\ \A r \in Requests : pc[r] # "new" => turn[r] \in Turns
    /\ replayed \subseteq Requests /\ calls \subseteq Requests
    /\ conv \in [Requests -> {None} \cup Requests]
    /\ answer \in [Requests -> {None} \cup Requests]
    /\ billable \subseteq Requests /\ late \subseteq Requests
    /\ rows \subseteq Requests /\ alive \subseteq Requests
    /\ cache \subseteq [key : Keys, id : Requests]
    /\ tasks \in [Requests -> SUBSET Writes]
    /\ usage \in [Requests -> Nat]
    /\ failed \subseteq Requests
    /\ troubles \in 0 .. MaxTroubles

Init ==
    /\ pc = [r \in Requests |-> "new"]
    /\ turn = [r \in Requests |-> NoTurn]
    /\ replayed = {}
    /\ conv = [r \in Requests |-> None]
    /\ answer = [r \in Requests |-> None]
    /\ calls = {} /\ billable = {} /\ late = {}
    /\ rows = {} /\ alive = {} /\ cache = {}
    /\ tasks = [r \in Requests |-> {}]
    /\ usage = [r \in Requests |-> 0]
    /\ failed = {}
    /\ troubles = MaxTroubles

Trouble == troubles > 0 /\ troubles' = troubles - 1
Goto(r, label) == pc' = [pc EXCEPT ![r] = label]

\* The answer whose id request r sends as previous_response_id.
Previous(r) ==
    IF turn[r].follow = None THEN None ELSE answer[turn[r].follow]

-----------------------------------------------------------------------------
(* Before the provider.                                                    *)

\* Where a request goes once its tool calls are replayed.
Serve(t) == IF t.mode = "cached" THEN "cache" ELSE "lookup"

\* create_response: a client follows up on an answer it holds, with tool
\* results if that answer asked for them.  "cached" is a request that is not
\* streamed, does not bypass the cache and may be served from it.
Receive(r) ==
    /\ pc[r] = "new"
    /\ r > 1 => pc[r - 1] # "new"
    /\ \E t \in Turns :
        /\ t.follow # None => pc[t.follow] = "answered"
        /\ t.tool => t.follow # None /\ answer[t.follow] \in calls
        /\ turn' = [turn EXCEPT ![r] = t]
        /\ Goto(r, IF t.tool THEN "replay" ELSE Serve(t))
    /\ UNCHANGED <<replayed, conv, answer, obtained, tables, cache, tasks,
                   failed, troubles>>

\* replay_prior_tool_calls: the stored function calls, if the row is there.
Replay(r) ==
    /\ pc[r] = "replay"
    /\ \/ /\ replayed' = IF Previous(r) \in rows THEN replayed \cup {r}
                                                 ELSE replayed
          /\ UNCHANGED <<failed, troubles>>
       \/ /\ Trouble
          /\ failed' = failed \cup {r}
          /\ UNCHANGED replayed
    /\ Goto(r, Serve(turn[r]))
    /\ UNCHANGED <<turn, conv, answer, obtained, tables, cache, tasks>>

\* generate_cache_key: the prompt, with the call ids of tool results and the
\* replayed calls in it, and not previous_response_id.
CacheKey(r) ==
    [input    |-> turn[r].input,
     prev     |-> IF turn[r].tool THEN Previous(r) ELSE None,
     replayed |-> r \in replayed]

\* Mutant of CacheHit: a hit is billed like an answer.
CacheHitBilled(r) ==
    /\ pc[r] = "cache"
    /\ \E e \in cache :
        /\ e.key = CacheKey(r)
        /\ answer' = [answer EXCEPT ![r] = e.id]
    /\ Goto(r, "answered")
    /\ tasks' = [tasks EXCEPT ![r] = {"usage", "records"}]
    /\ UNCHANGED <<asked, conv, obtained, tables, cache, failed, troubles>>

\* ResponseCache::get finds an entry: its id goes out, and nothing is saved,
\* billed or looked up.
CacheHit(r) ==
    /\ pc[r] = "cache"
    /\ \E e \in cache :
        /\ e.key = CacheKey(r)
        /\ answer' = [answer EXCEPT ![r] = e.id]
    /\ Goto(r, "answered")
    /\ UNCHANGED <<asked, conv, obtained, tables, cache, tasks, failed,
                   troubles>>

\* No entry, or an error of the cache, which only costs the hit.
CacheMiss(r) ==
    /\ pc[r] = "cache"
    /\ \/ /\ \A e \in cache : e.key # CacheKey(r)
          /\ UNCHANGED troubles
       \/ Trouble
    /\ Goto(r, "lookup")
    /\ UNCHANGED <<asked, conv, answer, obtained, tables, cache, tasks, failed>>

\* create_with_auto_title cuts a long message at a byte; a byte inside a
\* character is no place to cut, and slicing there panics.
TitlePanics(m) == m.len > TitleMax /\ TitleKeep \notin m.starts

\* get_or_create_conversation.  An error leaves the request without one.
Lookup(r) ==
    /\ pc[r] = "lookup"
    /\ \/ /\ Previous(r) \in rows
          /\ conv' = [conv EXCEPT ![r] = conv[Previous(r)]]
          /\ Goto(r, "call")
          /\ UNCHANGED <<alive, failed, troubles>>
       \/ /\ Previous(r) \notin rows
          /\ \E m \in Messages :
                IF TitlePanics(m)
                THEN Goto(r, "panicked") /\ UNCHANGED <<conv, alive>>
                ELSE /\ conv' = [conv EXCEPT ![r] = r]
                     /\ alive' = alive \cup {r}
                     /\ Goto(r, "call")
          /\ UNCHANGED <<failed, troubles>>
       \/ /\ Trouble
          /\ failed' = failed \cup {r}
          /\ Goto(r, "call")
          /\ UNCHANGED <<conv, alive>>
    /\ UNCHANGED <<asked, answer, obtained, rows, usage, cache, tasks>>

-----------------------------------------------------------------------------
(* The answer and what is written about it.                                *)

\* The spawned writes of a response that is saved, and of one that is not.
AfterAnswer(r) == {"usage", "records"}

AfterLateAnswer(r) ==
    {"usage", "records"} \cup (IF conv[r] = None THEN {} ELSE {"save"})

\* A call that fails for good, or a stream that breaks off without a terminal
\* event.  A stream records its decision before it answers, or nothing.
ProviderFails(r) ==
    /\ pc[r] = "call"
    /\ Goto(r, "refused")
    /\ tasks' = [tasks EXCEPT ![r] = IF turn[r].mode = "stream"
                                     THEN {} ELSE {"records"}]
    /\ UNCHANGED <<asked, conv, answer, obtained, tables, cache, failed,
                   troubles>>

\* The provider's response: with or without tool calls and billable usage.
Obtain(r) ==
    /\ \E b \in BOOLEAN : billable' = IF b THEN billable \cup {r} ELSE billable
    /\ \E c \in BOOLEAN : calls' = IF c THEN calls \cup {r} ELSE calls

\* Mutant of ProviderCompletes: the save is left to the spawned task.
ProviderCompletesUnsaved(r) ==
    /\ pc[r] = "call"
    /\ Obtain(r)
    /\ answer' = [answer EXCEPT ![r] = r]
    /\ Goto(r, "answered")
    /\ tasks' = [tasks EXCEPT ![r] = AfterLateAnswer(r)]
    /\ UNCHANGED <<asked, conv, late, tables, cache, failed, troubles>>

\* response.completed, or a response that was not streamed: it is stored and
\* saved first.  Only a completed response with output goes to the cache.
ProviderCompletes(r) ==
    /\ pc[r] = "call"
    /\ Obtain(r)
    /\ \/ Goto(r, "save")
       \/ turn[r].mode = "cached" /\ Goto(r, "store")
    /\ UNCHANGED <<asked, conv, answer, late, tables, cache, tasks, failed,
                   troubles>>

\* response.failed and response.incomplete: the event goes out at once and
\* the spawned task saves the response last.
StreamEndsLate(r) ==
    /\ pc[r] = "call" /\ turn[r].mode = "stream"
    /\ Obtain(r)
    /\ late' = late \cup {r}
    /\ answer' = [answer EXCEPT ![r] = r]
    /\ Goto(r, "answered")
    /\ tasks' = [tasks EXCEPT ![r] = AfterLateAnswer(r)]
    /\ UNCHANGED <<asked, conv, tables, cache, failed, troubles>>

\* Mutant of StoreInCache: the entry names the conversation.
StoreConversationInCache(r) ==
    /\ pc[r] = "store"
    /\ cache' = cache \cup {[key |-> CacheKey(r), id |-> conv[r]]}
    /\ Goto(r, "save")
    /\ UNCHANGED <<asked, conv, answer, obtained, tables, tasks, failed,
                   troubles>>

\* ResponseCache::set replaces the key's entry; an error is only logged.
StoreInCache(r) ==
    /\ pc[r] = "store"
    /\ \/ /\ cache' = {e \in cache : e.key # CacheKey(r)}
                        \cup {[key |-> CacheKey(r), id |-> r]}
          /\ UNCHANGED troubles
       \/ Trouble /\ UNCHANGED cache
    /\ Goto(r, "save")
    /\ UNCHANGED <<asked, conv, answer, obtained, tables, tasks, failed>>

\* Mutant of SaveRow: a response without usage is not saved.
SaveRowWithUsage(r) ==
    /\ rows' = IF conv[r] \in alive /\ r \in billable
               THEN rows \cup {r} ELSE rows
    /\ UNCHANGED <<failed, troubles>>

\* save_response.  A conversation deleted meanwhile refuses the row, as a
\* failing database does; either is only logged.
SaveRow(r) ==
    \/ /\ rows' = IF conv[r] \in alive THEN rows \cup {r} ELSE rows
       /\ UNCHANGED <<failed, troubles>>
    \/ /\ conv[r] # None
       /\ Trouble
       /\ failed' = failed \cup {r}
       /\ UNCHANGED rows

SaveResponse(r) ==
    /\ pc[r] = "save"
    /\ SaveRow(r)
    /\ Goto(r, "saved")
    /\ UNCHANGED <<asked, conv, answer, obtained, alive, usage, cache, tasks>>

Answer(r) ==
    /\ pc[r] = "saved"
    /\ answer' = [answer EXCEPT ![r] = r]
    /\ Goto(r, "answered")
    /\ tasks' = [tasks EXCEPT ![r] = AfterAnswer(r)]
    /\ UNCHANGED <<asked, conv, obtained, tables, cache, failed, troubles>>

\* record_api_key_usage: nothing without a key or without usage.
RecordUsage(r) ==
    \/ /\ usage' = IF answer[r] \in billable
                   THEN [usage EXCEPT ![answer[r]] = @ + 1] ELSE usage
       /\ UNCHANGED <<failed, troubles>>
    \/ /\ answer[r] \in billable
       /\ Trouble
       /\ failed' = failed \cup {r}
       /\ UNCHANGED usage

\* Mutant of NextWrite: usage after the secondary data.
NextWriteUsageLast(r) ==
    IF "records" \in tasks[r] THEN "records"
    ELSE IF "usage" \in tasks[r] THEN "usage" ELSE "save"

\* The order of a spawned task: usage before everything that could stop it.
NextWrite(r) ==
    IF "usage" \in tasks[r] THEN "usage"
    ELSE IF "records" \in tasks[r] THEN "records" ELSE "save"

\* The next write of a spawned task.  No later turn reads the "records".
Background(r) ==
    /\ tasks[r] # {}
    /\ tasks' = [tasks EXCEPT ![r] = @ \ {NextWrite(r)}]
    /\ \/ NextWrite(r) = "usage" /\ RecordUsage(r) /\ UNCHANGED rows
       \/ NextWrite(r) = "save" /\ SaveRow(r) /\ UNCHANGED usage
       \/ NextWrite(r) = "records"
            /\ UNCHANGED <<rows, usage, failed, troubles>>
    /\ UNCHANGED <<pc, asked, conv, answer, obtained, alive, cache>>

-----------------------------------------------------------------------------
(* Troubles from outside.                                                  *)

\* A write of secondary data panics and takes its task with it.
TaskPanics(r) ==
    /\ tasks[r] # {} /\ NextWrite(r) = "records"
    /\ Trouble
    /\ tasks' = [tasks EXCEPT ![r] = {}]
    /\ UNCHANGED <<pc, asked, conv, answer, obtained, tables, cache, failed>>

\* The client closes the connection: the request stops at its next await.
Disconnect(r) ==
    /\ pc[r] \in InFlight
    /\ Trouble
    /\ Goto(r, "gone")
    /\ UNCHANGED <<asked, conv, answer, obtained, tables, cache, tasks, failed>>

\* DELETE /v1/conversations/{id}: its responses go with it.
DeleteConversation(c) ==
    /\ c \in alive
    /\ Trouble
    /\ alive' = alive \ {c}
    /\ rows' = {i \in rows : conv[i] # c}
    /\ UNCHANGED <<pc, asked, conv, answer, obtained, cache, tasks, usage,
                   failed>>

\* A crash, or the end of a graceful shutdown: nothing waits for the spawned
\* tasks.  Database and cache stay.
Restart ==
    /\ Trouble
    /\ pc' = [r \in Requests |-> IF pc[r] \in InFlight THEN "gone" ELSE pc[r]]
    /\ tasks' = [r \in Requests |-> {}]
    /\ failed' = failed \cup {r \in Requests : tasks[r] # {}}
    /\ UNCHANGED <<asked, conv, answer, obtained, tables, cache>>

CacheExpires ==
    /\ \E e \in cache : cache' = cache \ {e}
    /\ UNCHANGED <<pc, asked, conv, answer, obtained, tables, tasks, failed,
                   troubles>>

Step(r) ==
    \/ Receive(r) \/ Replay(r) \/ CacheHit(r) \/ CacheMiss(r) \/ Lookup(r)
    \/ ProviderFails(r) \/ ProviderCompletes(r) \/ StreamEndsLate(r)
    \/ StoreInCache(r) \/ SaveResponse(r) \/ Answer(r)

Next ==
    \/ \E r \in Requests : Step(r) \/ Background(r) \/ TaskPanics(r)
                             \/ Disconnect(r)
    \/ \E c \in Requests : DeleteConversation(c)
    \/ Restart
    \/ CacheExpires

Spec == Init /\ [][Next]_vars

\* tokio runs every spawned task; nothing makes a client or a provider act.
FairSpec == Spec /\ \A r \in Requests : WF_vars(Background(r))

-----------------------------------------------------------------------------
(* Properties.                                                             *)

\* Request r follows an answer its client got from a provider and that was
\* announced only after its row was due.
FollowsSaved(r) ==
    /\ pc[r] # "new" /\ turn[r].follow # None
    /\ LET q == turn[r].follow IN answer[q] = q /\ q \notin late

\* What excuses r from finding the answer of q: an error of either request,
\* or the deletion of the conversation.
Excused(r, q) == q \in failed \/ r \in failed \/ conv[q] \notin alive

\* A turn that returns tool results reaches the provider with the calls they
\* answer, however soon it follows: responses.rs saves the row first.
ToolTurnsSeeTheirCalls ==
    \A r \in Requests :
        FollowsSaved(r) /\ turn[r].tool /\ pc[r] \in InFlight \ {"replay"}
            => r \in replayed \/ Excused(r, turn[r].follow)

\* A turn stays in the conversation of the turn it follows, whatever runs
\* between the two (get_or_create_conversation).
TurnsShareAConversation ==
    \A r \in Requests :
        FollowsSaved(r) /\ conv[r] # None
            => conv[r] = conv[turn[r].follow] \/ Excused(r, turn[r].follow)

\* No answer is billed twice and none that the provider did not complete, not
\* by a cache hit, a follow-up, a restart or a client that left.
BilledOnce ==
    \A i \in Requests :
        /\ usage[i] <= 1
        /\ usage[i] = 1 => answer[i] = i

\* The usage of every answer a client got is recorded, even if the task's
\* later writes panic, unless the database fails or the process stops.
EveryAnswerIsBilled ==
    \A r \in Requests :
        (pc[r] = "answered" /\ answer[r] = r /\ r \in billable)
            ~> (usage[r] = 1 \/ r \in failed)

-----------------------------------------------------------------------------
(* A statement of the repository that the code does not keep.              *)

\* Any id a client holds of a completed response can be followed up at once.
\* The cache hands ids out before their rows are saved.
HeldIdsAreSaved ==
    \A r \in Requests :
        pc[r] = "answered" /\ answer[r] \notin late
            => answer[r] \in rows \/ answer[r] \in failed
                 \/ conv[answer[r]] \notin alive
=============================================================================

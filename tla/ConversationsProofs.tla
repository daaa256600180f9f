------------------------ MODULE ConversationsProofs ------------------------
(***************************************************************************)
(* Theorems about what requests leave behind, for any number of requests   *)
(* and of troubles.                                                        *)
(***************************************************************************)
EXTENDS Conversations, TLAPS

-----------------------------------------------------------------------------
(* What the theorems rest on, one idea at a time.                          *)

BeforeLookup == {"new", "replay", "cache", "lookup"}

\* A request has no conversation before its lookup, and the conversation it
\* then joins is one that its creator is in: an id is never created twice.
ConversationsOwned ==
    \A r \in Requests :
        /\ pc[r] \in BeforeLookup => conv[r] = None
        /\ conv[r] # None => conv[conv[r]] = conv[r]

\* A row's conversation exists.
RowsBacked ==
    \A i \in rows : conv[i] \in alive /\ pc[i] \notin BeforeLookup

\* Answers, and the ids in the cache, come from requests that got that far.
IdsObtained ==
    /\ \A r \in Requests : answer[r] # None => pc[r] = "answered"
    /\ \A r \in late : pc[r] = "answered"
    /\ \A e \in cache :
        pc[e.id] \in {"save", "saved", "answered", "gone"} /\ e.id \notin late

\* A response that is announced after its save is saved, unless an error or
\* a deletion took the row.
SavedInTime ==
    \A q \in Requests :
        (pc[q] = "saved" \/ answer[q] = q) /\ q \notin late
            => q \in rows \/ q \in failed \/ conv[q] \notin alive

\* Nobody follows an answer that nobody has.
FollowsHeld ==
    \A r \in Requests :
        pc[r] # "new" /\ turn[r].follow # None => pc[turn[r].follow] = "answered"

\* Usage is due once per answer and by the request that obtained it.
UsageDueOnce ==
    \A r \in Requests :
        /\ tasks[r] # {} => pc[r] \in {"answered", "refused"}
        /\ "usage" \in tasks[r] => answer[r] = r /\ usage[r] = 0

ConvInv ==
    /\ ConversationsOwned
    /\ RowsBacked
    /\ IdsObtained
    /\ SavedInTime
    /\ FollowsHeld
    /\ UsageDueOnce
    /\ BilledOnce
    /\ ToolTurnsSeeTheirCalls
    /\ TurnsShareAConversation

\* What a client was answered, and where that request's answer belongs, is
\* settled.
AnswersKept ==
    \A q \in Requests :
        pc[q] = "answered" =>
            /\ pc'[q] = "answered" /\ answer'[q] = answer[q]
            /\ conv'[q] = conv[q] /\ (q \in late' <=> q \in late)

\* A row goes only with its conversation, and a lost row stays excused: no
\* error is forgotten and no conversation comes back, since a new one takes
\* the id of a request that was in none.
LossesKept ==
    /\ failed \subseteq failed'
    /\ \A q \in rows : q \in rows' \/ conv'[q] \notin alive'
    /\ \A q \in Requests :
        pc[q] \notin BeforeLookup /\ conv[q] \notin alive
            => conv'[q] \notin alive'

\* Which action makes which move: a turn is settled when it arrives, leaves
\* "replay" by Replay, joins a conversation by Lookup.
MovesKnown ==
    \A r \in Requests :
        /\ pc'[r] # "new" =>
             (pc[r] # "new" /\ turn'[r] = turn[r]) \/ Receive(r)
        /\ pc'[r] \in InFlight \ {"replay"} =>
             pc[r] \in InFlight \ {"replay"} \/ Receive(r) \/ Replay(r)
        /\ conv'[r] # conv[r] => Lookup(r)
        /\ r \in replayed => r \in replayed'

\* A response becomes due by being saved.
DueBySaving ==
    \A q \in Requests :
        (pc'[q] = "saved" \/ answer'[q] = q) /\ q \notin late' =>
            \/ (pc[q] = "saved" \/ answer[q] = q) /\ q \notin late
            \/ SaveResponse(q)

-----------------------------------------------------------------------------
(* Types.                                                                  *)

\* Where replaying leads.
LEMMA ServeType ==
    ASSUME NEW t \in Turns
    PROVE  Serve(t) \in {"cache", "lookup"}
    BY DEF Serve

\* The id a request sends is an id or None.
LEMMA PreviousType ==
    ASSUME ConvTypeOK, NEW r \in Requests, pc[r] # "new"
    PROVE  Previous(r) \in {None} \cup Requests
    <1>1. turn[r] \in Turns
        BY DEF ConvTypeOK
    <1>2. turn[r].follow \in {None} \cup Requests
        BY <1>1 DEF Turns
    <1>3. QED
        BY <1>2 DEF Previous, ConvTypeOK

\* A cache key is a key.
LEMMA CacheKeyType ==
    ASSUME ConvTypeOK, NEW r \in Requests, pc[r] # "new"
    PROVE  CacheKey(r) \in Keys
    <1>1. turn[r] \in Turns
        BY DEF ConvTypeOK
    <1>2. Previous(r) \in {None} \cup Requests
        BY PreviousType
    <1>3. QED
        BY <1>1, <1>2 DEF CacheKey, Keys, Turns

\* Type correctness of the conversations.
THEOREM ConvTypeCorrect == Spec => []ConvTypeOK
<1>1. Init => ConvTypeOK
    BY ConversationsAssumption DEF Init, ConvTypeOK, Writes, None
<1>2. ConvTypeOK /\ [Next]_vars => ConvTypeOK'
    <2> SUFFICES ASSUME ConvTypeOK, [Next]_vars PROVE ConvTypeOK'
        OBVIOUS
    <2> USE ConversationsAssumption
        DEF ConvTypeOK, asked, obtained, tables, Goto, InFlight
    <2>1. ASSUME NEW r \in Requests, Receive(r) PROVE ConvTypeOK'
        <3>1. PICK t \in Turns : /\ turn' = [turn EXCEPT ![r] = t]
                                 /\ Goto(r, IF t.tool THEN "replay" ELSE Serve(t))
            BY <2>1 DEF Receive
        <3>2. \A q \in Requests : pc'[q] # "new" => turn'[q] \in Turns
            BY <2>1, <3>1 DEF Receive
        <3>3. PICK l \in {"replay", "cache", "lookup"} :
                pc' = [pc EXCEPT ![r] = l]
            <4>1. Serve(t) \in {"cache", "lookup"}
                BY ServeType
            <4>2. QED
                BY <3>1, <4>1
        <3>4. QED
            BY <2>1, <3>2, <3>3 DEF Receive
    <2>2. ASSUME NEW r \in Requests, Replay(r) PROVE ConvTypeOK'
        BY <2>2, ServeType DEF Replay, Trouble
    <2>3. ASSUME NEW r \in Requests, CacheHit(r) PROVE ConvTypeOK'
        BY <2>3 DEF CacheHit
    <2>4. ASSUME NEW r \in Requests, CacheMiss(r) PROVE ConvTypeOK'
        BY <2>4 DEF CacheMiss, Trouble
    <2>5. ASSUME NEW r \in Requests, Lookup(r) PROVE ConvTypeOK'
        BY <2>5, PreviousType DEF Lookup, Trouble
    <2>6. ASSUME NEW r \in Requests, ProviderFails(r) PROVE ConvTypeOK'
        BY <2>6 DEF ProviderFails, Writes
    <2>7. ASSUME NEW r \in Requests, ProviderCompletes(r) PROVE ConvTypeOK'
        BY <2>7 DEF ProviderCompletes, Obtain
    <2>8. ASSUME NEW r \in Requests, StreamEndsLate(r) PROVE ConvTypeOK'
        BY <2>8 DEF StreamEndsLate, Obtain, AfterLateAnswer, Writes
    <2>9. ASSUME NEW r \in Requests, StoreInCache(r) PROVE ConvTypeOK'
        BY <2>9, CacheKeyType DEF StoreInCache, Trouble
    <2>10. ASSUME NEW r \in Requests, SaveResponse(r) PROVE ConvTypeOK'
        BY <2>10 DEF SaveResponse, SaveRow, Trouble
    <2>11. ASSUME NEW r \in Requests, Answer(r) PROVE ConvTypeOK'
        BY <2>11 DEF Answer, AfterAnswer, Writes
    <2>12. ASSUME NEW r \in Requests, Background(r) PROVE ConvTypeOK'
        <3>1. tasks' \in [Requests -> SUBSET Writes]
            BY <2>12 DEF Background
        <3>2. usage' \in [Requests -> Nat]
            <4>1. CASE RecordUsage(r)
                BY <2>12, <4>1 DEF Background, RecordUsage
            <4>2. CASE UNCHANGED usage
                BY <4>2
            <4>3. QED
                BY <2>12, <4>1, <4>2 DEF Background
        <3>3. rows' \subseteq Requests /\ failed' \subseteq Requests
              /\ troubles' \in 0 .. MaxTroubles
            BY <2>12 DEF Background, RecordUsage, SaveRow, Trouble
        <3>4. QED
            BY <2>12, <3>1, <3>2, <3>3 DEF Background
    <2>13. ASSUME NEW r \in Requests, TaskPanics(r) PROVE ConvTypeOK'
        BY <2>13 DEF TaskPanics, Trouble, Writes
    <2>14. ASSUME NEW r \in Requests, Disconnect(r) PROVE ConvTypeOK'
        BY <2>14 DEF Disconnect, Trouble
    <2>15. ASSUME NEW c \in Requests, DeleteConversation(c) PROVE ConvTypeOK'
        BY <2>15 DEF DeleteConversation, Trouble
    <2>16. CASE Restart
        BY <2>16 DEF Restart, Trouble, Writes
    <2>17. CASE CacheExpires
        BY <2>17 DEF CacheExpires
    <2>18. CASE UNCHANGED vars
        BY <2>18 DEF vars
    <2>19. QED
        BY <2>1, <2>2, <2>3, <2>4, <2>5, <2>6, <2>7, <2>8, <2>9, <2>10, <2>11,
           <2>12, <2>13, <2>14, <2>15, <2>16, <2>17, <2>18 DEF Next, Step
<1>3. QED
    BY <1>1, <1>2, PTL DEF Spec

-----------------------------------------------------------------------------
(* What a step may do.                                                     *)

\* None is no request.
LEMMA NoneNoRequest == None \notin Requests
    BY DEF None, Requests

\* No step takes an answer back.
LEMMA AnswersStay ==
    ASSUME ConvTypeOK, ConvTypeOK', ConvInv, [Next]_vars
    PROVE  AnswersKept
<1> USE DEF ConvTypeOK, Goto, InFlight, asked, obtained, tables
<1>1. ASSUME NEW r \in Requests,
             Receive(r) \/ Replay(r) \/ CacheHit(r) \/ CacheMiss(r)
             \/ Lookup(r) \/ ProviderFails(r) \/ ProviderCompletes(r)
             \/ StreamEndsLate(r) \/ StoreInCache(r) \/ SaveResponse(r)
             \/ Answer(r) \/ Background(r) \/ TaskPanics(r) \/ Disconnect(r)
      PROVE  AnswersKept
    BY <1>1 DEF Receive, Replay, Trouble, CacheHit, CacheMiss, Lookup,
       ProviderFails, ProviderCompletes, Obtain, StreamEndsLate,
       StoreInCache, SaveResponse, SaveRow, Answer, Background, RecordUsage,
       TaskPanics, Disconnect, AnswersKept
<1>2. CASE (\E c \in Requests : DeleteConversation(c))
             \/ Restart \/ CacheExpires \/ UNCHANGED vars
    BY <1>2 DEF DeleteConversation, Trouble, Restart, CacheExpires, vars,
       AnswersKept
<1>3. QED
    BY <1>1, <1>2 DEF Next, Step

\* No step loses a row and its excuse.
LEMMA LossesStay ==
    ASSUME ConvTypeOK, ConvTypeOK', ConvInv, [Next]_vars
    PROVE  LossesKept
<1> USE DEF ConvTypeOK, Goto, InFlight, asked, obtained, tables
<1>1. ASSUME NEW r \in Requests, Lookup(r) PROVE LossesKept
    BY <1>1, NoneNoRequest DEF Lookup, Trouble, LossesKept, ConvInv,
       ConversationsOwned, RowsBacked, BeforeLookup
<1>2. ASSUME NEW r \in Requests,
             Receive(r) \/ Replay(r) \/ CacheHit(r) \/ CacheMiss(r)
             \/ ProviderFails(r) \/ ProviderCompletes(r)
             \/ StreamEndsLate(r) \/ StoreInCache(r) \/ SaveResponse(r)
             \/ Answer(r) \/ Background(r) \/ TaskPanics(r) \/ Disconnect(r)
      PROVE  LossesKept
    BY <1>2, NoneNoRequest DEF Receive, Replay, Trouble, CacheHit,
       CacheMiss, ProviderFails, ProviderCompletes, Obtain, StreamEndsLate,
       StoreInCache, SaveResponse, SaveRow, Answer, Background, RecordUsage,
       TaskPanics, Disconnect, LossesKept, ConvInv, ConversationsOwned,
       RowsBacked, BeforeLookup
<1>3. CASE (\E c \in Requests : DeleteConversation(c))
             \/ Restart \/ CacheExpires \/ UNCHANGED vars
    BY <1>3, NoneNoRequest DEF DeleteConversation, Trouble, Restart,
       CacheExpires, vars, LossesKept, ConvInv, ConversationsOwned,
       RowsBacked, BeforeLookup
<1>4. QED
    BY <1>1, <1>2, <1>3 DEF Next, Step

\* Every step makes its own moves only.
LEMMA MovesAreKnown ==
    ASSUME ConvTypeOK, ConvTypeOK', ConvInv, [Next]_vars
    PROVE  MovesKnown
<1> USE DEF ConvTypeOK, Goto, InFlight, asked, obtained, tables
<1>1. ASSUME NEW r \in Requests, Receive(r) PROVE MovesKnown
    <2>1. /\ \A s \in Requests : s # r => pc'[s] = pc[s] /\ turn'[s] = turn[s]
          /\ UNCHANGED <<conv, replayed>>
        BY <1>1 DEF Receive
    <2>2. QED
        BY <1>1, <2>1 DEF MovesKnown
<1>2. ASSUME NEW r \in Requests, Replay(r) PROVE MovesKnown
    <2>1. /\ \A s \in Requests : s # r => pc'[s] = pc[s]
          /\ pc[r] # "new" /\ UNCHANGED <<conv, turn>>
          /\ replayed \subseteq replayed'
        BY <1>2 DEF Replay
    <2>2. QED
        BY <1>2, <2>1 DEF MovesKnown
<1>3. ASSUME NEW r \in Requests, Lookup(r) PROVE MovesKnown
    <2>1. /\ pc[r] = "lookup" /\ UNCHANGED <<turn, replayed>>
          /\ \A s \in Requests : s # r => pc'[s] = pc[s] /\ conv'[s] = conv[s]
        BY <1>3 DEF Lookup
    <2>2. QED
        BY <1>3, <2>1 DEF MovesKnown
<1>4. ASSUME NEW r \in Requests,
             CacheHit(r) \/ CacheMiss(r) \/ ProviderFails(r)
             \/ ProviderCompletes(r) \/ StreamEndsLate(r)
             \/ StoreInCache(r) \/ SaveResponse(r) \/ Answer(r)
             \/ Background(r) \/ TaskPanics(r) \/ Disconnect(r)
      PROVE  MovesKnown
    BY <1>4 DEF CacheHit, CacheMiss, Trouble, ProviderFails,
       ProviderCompletes, Obtain, StreamEndsLate, StoreInCache,
       SaveResponse, SaveRow, Answer, Background, RecordUsage, TaskPanics,
       Disconnect, MovesKnown
<1>5. CASE (\E c \in Requests : DeleteConversation(c))
             \/ Restart \/ CacheExpires \/ UNCHANGED vars
    BY <1>5 DEF DeleteConversation, Trouble, Restart, CacheExpires, vars,
       MovesKnown
<1>6. QED
    BY <1>1, <1>2, <1>3, <1>4, <1>5 DEF Next, Step

\* No step announces a response that was not saved first, but for late ones.
LEMMA DueIsBySaving ==
    ASSUME ConvTypeOK, ConvTypeOK', ConvInv, [Next]_vars
    PROVE  DueBySaving
<1> USE DEF ConvTypeOK, Goto, InFlight, asked, obtained, tables
<1>1. ASSUME NEW r \in Requests, CacheHit(r) PROVE DueBySaving
    BY <1>1, NoneNoRequest DEF CacheHit, DueBySaving, ConvInv, IdsObtained,
       Serve
<1>2. ASSUME NEW r \in Requests, StreamEndsLate(r) PROVE DueBySaving
    <2>1. /\ \A s \in Requests : s # r => pc'[s] = pc[s] /\ answer'[s] = answer[s]
          /\ late' = late \cup {r}
        BY <1>2 DEF StreamEndsLate
    <2>2. QED
        BY <2>1 DEF DueBySaving
<1>3. ASSUME NEW r \in Requests, SaveResponse(r) PROVE DueBySaving
    <2>1. /\ \A s \in Requests : s # r => pc'[s] = pc[s]
          /\ UNCHANGED <<answer, late>>
        BY <1>3 DEF SaveResponse
    <2>2. QED
        BY <1>3, <2>1 DEF DueBySaving
<1>4. ASSUME NEW r \in Requests, Answer(r) PROVE DueBySaving
    <2>1. /\ \A s \in Requests : s # r => pc'[s] = pc[s] /\ answer'[s] = answer[s]
          /\ pc[r] = "saved" /\ UNCHANGED late
        BY <1>4 DEF Answer
    <2>2. QED
        BY <2>1 DEF DueBySaving
<1>5. ASSUME NEW r \in Requests, Background(r) PROVE DueBySaving
    <2>1. UNCHANGED <<pc, answer, late>>
        BY <1>5 DEF Background
    <2>2. QED
        BY <2>1 DEF DueBySaving
<1>6. ASSUME NEW r \in Requests,
             Receive(r) \/ Replay(r) \/ CacheMiss(r) \/ Lookup(r)
             \/ ProviderFails(r) \/ ProviderCompletes(r) \/ StoreInCache(r)
             \/ TaskPanics(r) \/ Disconnect(r)
      PROVE  DueBySaving
    BY <1>6, NoneNoRequest DEF Receive, Replay, Trouble, CacheMiss, Lookup,
       ProviderFails, ProviderCompletes, Obtain, StoreInCache, TaskPanics,
       Disconnect, DueBySaving, ConvInv, IdsObtained, Serve
<1>7. CASE (\E c \in Requests : DeleteConversation(c))
             \/ Restart \/ CacheExpires \/ UNCHANGED vars
    BY <1>7, NoneNoRequest DEF DeleteConversation, Trouble, Restart,
       CacheExpires, vars, DueBySaving, ConvInv, IdsObtained, Serve
<1>8. QED
    BY <1>1, <1>2, <1>3, <1>4, <1>5, <1>6, <1>7 DEF Next, Step

-----------------------------------------------------------------------------
(* Each part of the invariant.                                             *)

\* A conversation is created or joined by a lookup only.
LEMMA ConversationsOwnedStep ==
    ASSUME ConvTypeOK, ConvTypeOK', ConvInv, [Next]_vars
    PROVE  ConversationsOwned'
<1> USE DEF ConvTypeOK, Goto, InFlight, asked, obtained, tables
<1>1. ASSUME NEW r \in Requests, Lookup(r) PROVE ConversationsOwned'
    BY <1>1 DEF Lookup, Trouble, ConvInv, ConversationsOwned, RowsBacked,
       BeforeLookup
<1>2. ASSUME NEW r \in Requests,
             Receive(r) \/ Replay(r) \/ CacheHit(r) \/ CacheMiss(r)
             \/ ProviderFails(r) \/ ProviderCompletes(r)
             \/ StreamEndsLate(r) \/ StoreInCache(r) \/ SaveResponse(r)
             \/ Answer(r) \/ Background(r) \/ TaskPanics(r) \/ Disconnect(r)
      PROVE  ConversationsOwned'
    BY <1>2 DEF Receive, Replay, Trouble, CacheHit, CacheMiss,
       ProviderFails, ProviderCompletes, Obtain, StreamEndsLate,
       AfterLateAnswer, StoreInCache, SaveResponse, SaveRow, Answer,
       AfterAnswer, Background, RecordUsage, TaskPanics, Disconnect,
       ConvInv, ConversationsOwned, RowsBacked, BeforeLookup
<1>3. CASE (\E c \in Requests : DeleteConversation(c))
             \/ Restart \/ CacheExpires \/ UNCHANGED vars
    BY <1>3 DEF DeleteConversation, Trouble, Restart, CacheExpires, vars,
       ConvInv, ConversationsOwned, RowsBacked, BeforeLookup
<1>4. QED
    BY <1>1, <1>2, <1>3 DEF Next, Step

\* A row is written into a conversation that exists and goes with it.
LEMMA RowsBackedStep ==
    ASSUME ConvTypeOK, ConvTypeOK', ConvInv, [Next]_vars
    PROVE  RowsBacked'
<1> USE DEF ConvTypeOK, Goto, InFlight, asked, obtained, tables
<1>1. ASSUME NEW r \in Requests, SaveResponse(r) PROVE RowsBacked'
    BY <1>1 DEF SaveResponse, SaveRow, Trouble, ConvInv, RowsBacked,
       BeforeLookup, UsageDueOnce
<1>2. ASSUME NEW r \in Requests, Background(r) PROVE RowsBacked'
    BY <1>2 DEF Background, RecordUsage, SaveRow, Trouble, ConvInv,
       RowsBacked, BeforeLookup, UsageDueOnce
<1>3. ASSUME NEW r \in Requests,
             Receive(r) \/ Replay(r) \/ CacheHit(r) \/ CacheMiss(r)
             \/ Lookup(r) \/ ProviderFails(r) \/ ProviderCompletes(r)
             \/ StreamEndsLate(r) \/ StoreInCache(r) \/ Answer(r)
             \/ TaskPanics(r) \/ Disconnect(r)
      PROVE  RowsBacked'
    BY <1>3 DEF Receive, Replay, Trouble, CacheHit, CacheMiss, Lookup,
       ProviderFails, ProviderCompletes, Obtain, StreamEndsLate,
       AfterLateAnswer, StoreInCache, Answer, AfterAnswer, TaskPanics,
       Disconnect, ConvInv, RowsBacked, BeforeLookup, UsageDueOnce
<1>4. CASE (\E c \in Requests : DeleteConversation(c))
             \/ Restart \/ CacheExpires \/ UNCHANGED vars
    BY <1>4 DEF DeleteConversation, Trouble, Restart, CacheExpires, vars,
       ConvInv, RowsBacked, BeforeLookup, UsageDueOnce
<1>5. QED
    BY <1>1, <1>2, <1>3, <1>4 DEF Next, Step

\* An id goes out with an answer, and into the cache with a response.
LEMMA IdsObtainedStep ==
    ASSUME ConvTypeOK, ConvTypeOK', ConvInv, [Next]_vars
    PROVE  IdsObtained'
<1> USE DEF ConvTypeOK, Goto, InFlight, asked, obtained, tables
<1>1. ASSUME NEW r \in Requests, StoreInCache(r) PROVE IdsObtained'
    BY <1>1 DEF StoreInCache, Trouble, ConvInv, IdsObtained
<1>2. ASSUME NEW r \in Requests,
             Receive(r) \/ Replay(r) \/ CacheHit(r) \/ CacheMiss(r)
             \/ Lookup(r) \/ ProviderFails(r) \/ ProviderCompletes(r)
             \/ StreamEndsLate(r) \/ SaveResponse(r) \/ Answer(r)
             \/ Background(r) \/ TaskPanics(r) \/ Disconnect(r)
      PROVE  IdsObtained'
    BY <1>2 DEF Receive, Replay, Trouble, CacheHit, CacheMiss, Lookup,
       ProviderFails, ProviderCompletes, Obtain, StreamEndsLate,
       AfterLateAnswer, SaveResponse, SaveRow, Answer, AfterAnswer,
       Background, RecordUsage, TaskPanics, Disconnect, ConvInv, IdsObtained
<1>3. CASE (\E c \in Requests : DeleteConversation(c))
             \/ Restart \/ CacheExpires \/ UNCHANGED vars
    BY <1>3 DEF DeleteConversation, Trouble, Restart, CacheExpires, vars,
       ConvInv, IdsObtained
<1>4. QED
    BY <1>1, <1>2, <1>3 DEF Next, Step

\* Only the request that got the answer is to bill it, once.
LEMMA UsageDueOnceStep ==
    ASSUME ConvTypeOK, ConvTypeOK', ConvInv, [Next]_vars
    PROVE  UsageDueOnce'
<1> USE DEF ConvTypeOK, Goto, InFlight, asked, obtained, tables
<1>1. ASSUME NEW r \in Requests, Answer(r) PROVE UsageDueOnce'
    BY <1>1, NoneNoRequest DEF Answer, AfterAnswer, ConvInv, UsageDueOnce,
       IdsObtained, BilledOnce, NextWrite
<1>2. ASSUME NEW r \in Requests, StreamEndsLate(r) PROVE UsageDueOnce'
    BY <1>2, NoneNoRequest DEF StreamEndsLate, Obtain, AfterLateAnswer,
       ConvInv, UsageDueOnce, IdsObtained, BilledOnce, NextWrite
<1>3. ASSUME NEW r \in Requests, Background(r) PROVE UsageDueOnce'
    BY <1>3, NoneNoRequest DEF Background, RecordUsage, SaveRow, Trouble,
       ConvInv, UsageDueOnce, IdsObtained, BilledOnce, NextWrite
<1>4. ASSUME NEW r \in Requests,
             Receive(r) \/ Replay(r) \/ CacheHit(r) \/ CacheMiss(r)
             \/ Lookup(r) \/ ProviderFails(r) \/ ProviderCompletes(r)
             \/ StoreInCache(r) \/ SaveResponse(r) \/ TaskPanics(r)
             \/ Disconnect(r)
      PROVE  UsageDueOnce'
    BY <1>4, NoneNoRequest DEF Receive, Replay, Trouble, CacheHit,
       CacheMiss, Lookup, ProviderFails, ProviderCompletes, Obtain,
       StoreInCache, SaveResponse, SaveRow, TaskPanics, Disconnect, ConvInv,
       UsageDueOnce, IdsObtained, BilledOnce, NextWrite
<1>5. CASE (\E c \in Requests : DeleteConversation(c))
             \/ Restart \/ CacheExpires \/ UNCHANGED vars
    BY <1>5, NoneNoRequest DEF DeleteConversation, Trouble, Restart,
       CacheExpires, vars, ConvInv, UsageDueOnce, IdsObtained, BilledOnce,
       NextWrite
<1>6. QED
    BY <1>1, <1>2, <1>3, <1>4, <1>5 DEF Next, Step

\* The task that bills an answer does it once, and a hit does not.
LEMMA BilledOnceStep ==
    ASSUME ConvTypeOK, ConvTypeOK', ConvInv, [Next]_vars
    PROVE  BilledOnce'
<1> USE DEF ConvTypeOK, Goto, InFlight, asked, obtained, tables
<1>1. ASSUME NEW r \in Requests, CacheHit(r) PROVE BilledOnce'
    BY <1>1, NoneNoRequest DEF CacheHit, ConvInv, BilledOnce, UsageDueOnce,
       IdsObtained, NextWrite
<1>2. ASSUME NEW r \in Requests, Background(r) PROVE BilledOnce'
    BY <1>2, NoneNoRequest DEF Background, RecordUsage, SaveRow, Trouble,
       ConvInv, BilledOnce, UsageDueOnce, IdsObtained, NextWrite
<1>3. ASSUME NEW r \in Requests,
             Receive(r) \/ Replay(r) \/ CacheMiss(r) \/ Lookup(r)
             \/ ProviderFails(r) \/ ProviderCompletes(r)
             \/ StreamEndsLate(r) \/ StoreInCache(r) \/ SaveResponse(r)
             \/ Answer(r) \/ TaskPanics(r) \/ Disconnect(r)
      PROVE  BilledOnce'
    BY <1>3, NoneNoRequest DEF Receive, Replay, Trouble, CacheMiss, Lookup,
       ProviderFails, ProviderCompletes, Obtain, StreamEndsLate,
       AfterLateAnswer, StoreInCache, SaveResponse, SaveRow, Answer,
       AfterAnswer, TaskPanics, Disconnect, ConvInv, BilledOnce,
       UsageDueOnce, IdsObtained, NextWrite
<1>4. CASE (\E c \in Requests : DeleteConversation(c))
             \/ Restart \/ CacheExpires \/ UNCHANGED vars
    BY <1>4, NoneNoRequest DEF DeleteConversation, Trouble, Restart,
       CacheExpires, vars, ConvInv, BilledOnce, UsageDueOnce, IdsObtained,
       NextWrite
<1>5. QED
    BY <1>1, <1>2, <1>3, <1>4 DEF Next, Step

\* What a request follows is a request or nothing.
LEMMA FollowType ==
    ASSUME ConvTypeOK, NEW r \in Requests, pc[r] # "new"
    PROVE  turn[r].follow \in {None} \cup Requests
<1>1. turn[r] \in Turns
    BY DEF ConvTypeOK
<1>2. QED
    BY <1>1 DEF Turns

\* A client follows what it has, and it keeps what it has.
LEMMA FollowsHeldStep ==
    ASSUME ConvTypeOK, ConvTypeOK', ConvInv, [Next]_vars
    PROVE  FollowsHeld'
<1> SUFFICES ASSUME NEW r \in Requests, pc'[r] # "new", turn'[r].follow # None
             PROVE  pc'[turn'[r].follow] = "answered"
    BY DEF FollowsHeld
<1>1. CASE pc[r] # "new" /\ turn'[r] = turn[r]
    <2>1. pc[turn[r].follow] = "answered"
        BY <1>1 DEF ConvInv, FollowsHeld
    <2>2. turn[r].follow \in Requests
        BY <1>1, FollowType
    <2>3. QED
        BY <1>1, <2>1, <2>2, AnswersStay DEF AnswersKept
<1>2. CASE Receive(r)
    <2>1. PICK t \in Turns : /\ t.follow # None => pc[t.follow] = "answered"
                             /\ turn' = [turn EXCEPT ![r] = t]
        BY <1>2 DEF Receive
    <2>2. turn'[r] = t
        BY <2>1 DEF ConvTypeOK
    <2>3. t.follow \in Requests /\ pc[t.follow] = "answered"
        BY <2>1, <2>2 DEF Turns
    <2>4. QED
        BY <2>2, <2>3, AnswersStay DEF AnswersKept
<1>3. QED
    BY <1>1, <1>2, MovesAreKnown DEF MovesKnown

\* A response is announced after it was saved, and what excuses a lost row
\* lasts.
LEMMA SavedInTimeStep ==
    ASSUME ConvTypeOK, ConvTypeOK', ConvInv, [Next]_vars
    PROVE  SavedInTime'
<1> SUFFICES ASSUME NEW q \in Requests,
                    pc'[q] = "saved" \/ answer'[q] = q, q \notin late'
             PROVE  q \in rows' \/ q \in failed' \/ conv'[q] \notin alive'
    BY DEF SavedInTime
<1>1. CASE (pc[q] = "saved" \/ answer[q] = q) /\ q \notin late
    <2>1. q \in rows \/ q \in failed \/ conv[q] \notin alive
        BY <1>1 DEF ConvInv, SavedInTime
    <2>2. pc[q] \notin BeforeLookup
        BY <1>1, NoneNoRequest DEF ConvInv, IdsObtained, BeforeLookup
    <2>3. QED
        BY <2>1, <2>2, LossesStay DEF LossesKept
<1>2. CASE SaveResponse(q)
    BY <1>2 DEF SaveResponse, SaveRow
<1>3. QED
    BY <1>1, <1>2, DueIsBySaving DEF DueBySaving

\* A turn that was there before the step followed a saved answer before it.
LEMMA FollowedBefore ==
    ASSUME ConvTypeOK, ConvTypeOK', ConvInv, [Next]_vars, NEW r \in Requests,
           pc[r] # "new", turn'[r] = turn[r], FollowsSaved(r)'
    PROVE  /\ FollowsSaved(r)
           /\ turn[r].follow \in Requests /\ pc[turn[r].follow] = "answered"
<1>1. turn[r].follow # None
    BY DEF FollowsSaved
<1>2. turn[r].follow \in Requests
    BY <1>1, FollowType
<1>3. pc[turn[r].follow] = "answered"
    BY <1>1 DEF ConvInv, FollowsHeld
<1>4. QED
    BY <1>1, <1>2, <1>3, AnswersStay DEF FollowsSaved, AnswersKept

\* An excuse lasts.
LEMMA ExcuseStays ==
    ASSUME ConvTypeOK, ConvTypeOK', ConvInv, [Next]_vars,
           NEW r \in Requests, NEW q \in Requests, pc[q] = "answered",
           q \in failed \/ r \in failed \/ conv[q] \notin alive
    PROVE  q \in failed' \/ r \in failed' \/ conv'[q] \notin alive'
<1>1. pc[q] \notin BeforeLookup
    BY DEF BeforeLookup
<1>2. QED
    BY <1>1, LossesStay DEF LossesKept

\* Replay finds the row of a saved answer, or the excuse for its absence.
LEMMA ToolTurnsSeeTheirCallsStep ==
    ASSUME ConvTypeOK, ConvTypeOK', ConvInv, [Next]_vars
    PROVE  ToolTurnsSeeTheirCalls'
<1> SUFFICES ASSUME NEW r \in Requests, FollowsSaved(r)', turn'[r].tool,
                    pc'[r] \in InFlight \ {"replay"}
             PROVE  \/ r \in replayed'
                    \/ turn'[r].follow \in failed' \/ r \in failed'
                    \/ conv'[turn'[r].follow] \notin alive'
    BY DEF ToolTurnsSeeTheirCalls, Excused
<1>1. CASE Receive(r)
    <2>1. PICK t \in Turns :
            /\ turn' = [turn EXCEPT ![r] = t]
            /\ pc' = [pc EXCEPT ![r] = IF t.tool THEN "replay" ELSE Serve(t)]
        BY <1>1 DEF Receive, Goto
    <2>2. turn'[r] = t /\ pc'[r] = IF t.tool THEN "replay" ELSE Serve(t)
        BY <2>1 DEF ConvTypeOK
    <2>3. QED
        BY <2>2
<1>2. CASE Replay(r)
    <2>1. pc[r] = "replay" /\ turn' = turn /\ UNCHANGED <<rows, late, alive, conv>>
        BY <1>2 DEF Replay, asked, obtained, tables
    <2> DEFINE q == turn[r].follow
    <2>2. FollowsSaved(r) /\ q \in Requests /\ pc[q] = "answered"
        BY <2>1, FollowedBefore
    <2>3. Previous(r) = q /\ q \notin late /\ answer[q] = q
        BY <2>2 DEF FollowsSaved, Previous
    <2>4. q \in rows \/ q \in failed \/ conv[q] \notin alive
        BY <2>2, <2>3 DEF ConvInv, SavedInTime
    <2>5. CASE q \in rows
        BY <1>2, <2>3, <2>5 DEF Replay
    <2>6. CASE q \in failed \/ conv[q] \notin alive
        BY <2>1, <2>2, <2>6, ExcuseStays
    <2>7. QED
        BY <2>4, <2>5, <2>6
<1>3. CASE pc[r] \in InFlight \ {"replay"}
    <2>1. pc[r] # "new" /\ turn'[r] = turn[r]
        BY <1>1, <1>3, MovesAreKnown DEF MovesKnown, InFlight, Receive
    <2> DEFINE q == turn[r].follow
    <2>2. FollowsSaved(r) /\ q \in Requests /\ pc[q] = "answered"
        BY <2>1, FollowedBefore
    <2>3. r \in replayed \/ q \in failed \/ r \in failed \/ conv[q] \notin alive
        BY <1>3, <2>1, <2>2 DEF ConvInv, ToolTurnsSeeTheirCalls, Excused
    <2>4. CASE r \in replayed
        BY <2>4, MovesAreKnown DEF MovesKnown
    <2>5. CASE q \in failed \/ r \in failed \/ conv[q] \notin alive
        BY <2>1, <2>2, <2>5, ExcuseStays
    <2>6. QED
        BY <2>3, <2>4, <2>5
<1>4. QED
    BY <1>1, <1>2, <1>3, MovesAreKnown DEF MovesKnown

\* A lookup finds the row of a saved answer, or the excuse for its absence.
LEMMA TurnsShareAConversationStep ==
    ASSUME ConvTypeOK, ConvTypeOK', ConvInv, [Next]_vars
    PROVE  TurnsShareAConversation'
<1> SUFFICES ASSUME NEW r \in Requests, FollowsSaved(r)', conv'[r] # None
             PROVE  \/ conv'[r] = conv'[turn'[r].follow]
                    \/ turn'[r].follow \in failed' \/ r \in failed'
                    \/ conv'[turn'[r].follow] \notin alive'
    BY DEF TurnsShareAConversation, Excused
<1>1. CASE Lookup(r)
    <2>1. pc[r] = "lookup" /\ turn' = turn
        BY <1>1 DEF Lookup, asked
    <2> DEFINE q == turn[r].follow
    <2>2. FollowsSaved(r) /\ q \in Requests /\ pc[q] = "answered"
        BY <2>1, FollowedBefore
    <2>3. Previous(r) = q /\ q \notin late /\ answer[q] = q
        BY <2>2 DEF FollowsSaved, Previous
    <2>4. q \in rows \/ q \in failed \/ conv[q] \notin alive
        BY <2>2, <2>3 DEF ConvInv, SavedInTime
    <2>5. CASE q \in rows
        <3>1. conv'[q] = conv[q]
            BY <2>2, AnswersStay DEF AnswersKept
        <3>2. conv'[r] = conv[q] \/ r \in failed'
            BY <1>1, <2>3, <2>5 DEF Lookup, ConvTypeOK
        <3>3. QED
            BY <2>1, <3>1, <3>2
    <2>6. CASE q \in failed \/ conv[q] \notin alive
        BY <2>1, <2>2, <2>6, ExcuseStays
    <2>7. QED
        BY <2>4, <2>5, <2>6
<1>2. CASE conv'[r] = conv[r]
    <2>1. pc[r] # "new"
        BY <1>2 DEF ConvInv, ConversationsOwned, BeforeLookup
    <2>2. turn'[r] = turn[r]
        BY <2>1, MovesAreKnown DEF MovesKnown, Receive, FollowsSaved
    <2> DEFINE q == turn[r].follow
    <2>3. FollowsSaved(r) /\ q \in Requests /\ pc[q] = "answered"
        BY <2>1, <2>2, FollowedBefore
    <2>4. conv[r] = conv[q] \/ q \in failed \/ r \in failed \/ conv[q] \notin alive
        BY <1>2, <2>3 DEF ConvInv, TurnsShareAConversation, Excused
    <2>5. CASE conv[r] = conv[q]
        BY <1>2, <2>2, <2>3, <2>5, AnswersStay DEF AnswersKept
    <2>6. CASE q \in failed \/ r \in failed \/ conv[q] \notin alive
        BY <2>2, <2>3, <2>6, ExcuseStays
    <2>7. QED
        BY <2>4, <2>5, <2>6
<1>3. QED
    BY <1>1, <1>2, MovesAreKnown DEF MovesKnown

-----------------------------------------------------------------------------
(* The theorems.                                                           *)

\* No request has asked for anything yet.
LEMMA ConvInvInit ==
    ASSUME Init
    PROVE  ConvInv
<1>1. ConversationsOwned /\ RowsBacked /\ IdsObtained /\ SavedInTime
    BY NoneNoRequest DEF Init, ConversationsOwned, RowsBacked, IdsObtained,
       SavedInTime
<1>2. FollowsHeld /\ UsageDueOnce /\ BilledOnce
    BY DEF Init, FollowsHeld, UsageDueOnce, BilledOnce
<1>3. ToolTurnsSeeTheirCalls /\ TurnsShareAConversation
    BY DEF Init, ToolTurnsSeeTheirCalls, TurnsShareAConversation, FollowsSaved
<1>4. QED
    BY <1>1, <1>2, <1>3 DEF ConvInv

\* The invariant the properties rest on.
THEOREM ConvInvariant == Spec => []ConvInv
<1>1. Init => ConvInv
    BY ConvInvInit
<1>2. ConvTypeOK /\ ConvTypeOK' /\ ConvInv /\ [Next]_vars => ConvInv'
    BY ConversationsOwnedStep, RowsBackedStep, IdsObtainedStep,
       SavedInTimeStep, FollowsHeldStep, UsageDueOnceStep, BilledOnceStep,
       ToolTurnsSeeTheirCallsStep, TurnsShareAConversationStep DEF ConvInv
<1>3. QED
    BY <1>1, <1>2, ConvTypeCorrect, PTL DEF Spec

\* record_api_key_usage bills each completed answer at most once, and nothing
\* else, through cache hits, follow-ups, restarts and clients that leave.
THEOREM BillsOnce == Spec => []BilledOnce
<1>1. ConvInv => BilledOnce
    BY DEF ConvInv
<1>2. QED
    BY <1>1, ConvInvariant, PTL

\* replay_prior_tool_calls finds the calls that tool results answer.
THEOREM ToolCallsAreSeen == Spec => []ToolTurnsSeeTheirCalls
<1>1. ConvInv => ToolTurnsSeeTheirCalls
    BY DEF ConvInv
<1>2. QED
    BY <1>1, ConvInvariant, PTL

\* get_or_create_conversation keeps a turn with the turn it follows.
THEOREM ConversationsHold == Spec => []TurnsShareAConversation
<1>1. ConvInv => TurnsShareAConversation
    BY DEF ConvInv
<1>2. QED
    BY <1>1, ConvInvariant, PTL
====

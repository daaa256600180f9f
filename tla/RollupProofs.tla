---------------------------- MODULE RollupProofs ----------------------------
(***************************************************************************)
(* A theorem about rollups that overlap with feedback, with each other and *)
(* with restarts, for any number of decisions and of workers, any size of  *)
(* batch and whatever statements fail.                                     *)
(***************************************************************************)
EXTENDS Rollup, FiniteSetTheorems, SequenceTheorems, TLAPS

-----------------------------------------------------------------------------
(* What the theorem rests on.                                              *)

Signals == {"approved", "rejected"}
Turns == {"none", "escalation", "correction", "retry", "move_on"}
Asked == UNION {Requests[d] : d \in Decisions}

\* A recorded decision.
Rows == [arm : {q.arm : q \in Asked}, kind : {q.kind : q \in Asked},
         linked : {q.linked : q \in Asked}, status : {q.status : q \in Asked},
         says : {q.says : q \in Asked},
         age : {2, 3, 4}, feedback : Signals \cup {"none"}, next : NextTurns \cup {NoTurn}]

Entries == [d : Decisions, scored : [reward : -2 .. 2, turn : Turns]]

Places == {"idle", "pending", "scoring", "summing", "writing", "pruning", "loading",
           "installing"}

WorkerWith(arms) ==
    [pc : Places, batch : Seq(Entries), read : Nat, batches : Nat, arms : arms]

RollupTypeOK ==
    /\ decision \in [Decisions -> {Absent} \cup Rows]
    /\ outcome \in [Decisions -> {Unscored} \cup [reward : -2 .. 2, turn : Turns]]
    /\ \E arms : worker \in [Workers -> WorkerWith(arms)]
    /\ early \in [Decisions -> Signals \cup {"none"}]

\* A decision past the grace period, which no step makes younger.
Past(d) == decision[d] \in Rows /\ decision[d].age >= 3

Deserved(signal) == IF signal = "approved" THEN 2 ELSE -2

\* A score read from a decision that was due: should its user have spoken
\* before, and not since, the score says so.
Honest(d, scored) == Past(d) /\ (early[d] # "none" => scored.reward = Deserved(early[d]))

\* Early feedback is still the newest one.
EarlyIsNewest ==
    \A d \in Decisions : early[d] # "none" => Past(d) /\ decision[d].feedback = early[d]

ScoresHonest == \A d \in Decisions : outcome[d] # Unscored => Honest(d, outcome[d])

\* What the workers hold, however old it is, is honest too.
BatchesHonest ==
    \A w \in Workers :
      /\ worker[w].pc = "scoring" => worker[w].batch # <<>>
      /\ \A i \in 1 .. Len(worker[w].batch) :
            Honest(worker[w].batch[i].d, worker[w].batch[i].scored)

RollupInv == RollupTypeOK /\ EarlyIsNewest /\ ScoresHonest /\ BatchesHonest

-----------------------------------------------------------------------------
(* The batch.                                                              *)

\* A finite set of numbers has an element of every rank.
LEMMA EveryRank ==
    ASSUME NEW S, IsFiniteSet(S), S \subseteq Nat, NEW i \in 1 .. Cardinality(S)
    PROVE  \E d \in S : Cardinality({e \in S : e < d}) = i - 1
    <1> DEFINE below(d) == {e \in S : e < d}
    <1>1. Cardinality(S) \in Nat
        BY FS_CardinalityType
    <1>2. ASSUME NEW d \in S
          PROVE  /\ IsFiniteSet(below(d)) /\ Cardinality(below(d)) \in Nat
                 /\ Cardinality(below(d)) < Cardinality(S)
        <2>1. below(d) \subseteq S \ {d} /\ below(d) \subseteq S
            BY <1>2
        <2>2. IsFiniteSet(S \ {d}) /\ Cardinality(S \ {d}) = Cardinality(S) - 1
            BY FS_RemoveElement
        <2> HIDE DEF below
        <2>3. IsFiniteSet(below(d)) /\ Cardinality(below(d)) <= Cardinality(S \ {d})
            BY <2>1, <2>2, FS_Subset
        <2>4. Cardinality(below(d)) \in Nat
            BY <2>3, FS_CardinalityType
        <2>5. QED
            BY <1>1, <2>2, <2>3, <2>4
    <1>3. ASSUME NEW c \in S, NEW d \in S, c < d
          PROVE  Cardinality(below(c)) < Cardinality(below(d))
        <2>1. below(c) \cup {c} \subseteq below(d) /\ c \notin below(c)
            <3>1. c \in Nat /\ d \in Nat /\ \A e \in S : e \in Nat
                OBVIOUS
            <3>2. \A e \in S : e < c => e < d
                BY <1>3, <3>1
            <3>3. ~(c < c)
                BY <3>1
            <3>4. QED
                BY <1>3, <3>2, <3>3
        <2>2. /\ IsFiniteSet(below(c)) /\ Cardinality(below(c)) \in Nat
              /\ IsFiniteSet(below(d)) /\ Cardinality(below(d)) \in Nat
            BY <1>2
        <2> HIDE DEF below
        <2>3. Cardinality(below(c) \cup {c}) = Cardinality(below(c)) + 1
            BY <2>1, <2>2, FS_AddElement
        <2>4. Cardinality(below(c) \cup {c}) <= Cardinality(below(d))
            BY <2>1, <2>2, FS_Subset
        <2>5. QED
            BY <2>2, <2>3, <2>4
    <1> DEFINE rank == [d \in S |-> Cardinality(below(d)) + 1]
    <1>4. rank \in [S -> 1 .. Cardinality(S)]
        <2> HIDE DEF below
        <2>1. QED
            BY <1>1, <1>2
    <1>5. rank \in Injection(S, 1 .. Cardinality(S))
        <2>1. ASSUME NEW c \in S, NEW d \in S, c # d PROVE rank[c] # rank[d]
            <3>1. c < d \/ d < c
                BY <2>1
            <3>2. Cardinality(below(c)) \in Nat /\ Cardinality(below(d)) \in Nat
                BY <1>2
            <3>3. Cardinality(below(c)) # Cardinality(below(d))
                <4> HIDE DEF below
                <4>1. QED
                    BY <1>3, <3>1, <3>2
            <3> HIDE DEF below
            <3>4. QED
                BY <3>2, <3>3
        <2> HIDE DEF rank
        <2>2. QED
            BY <1>4, <2>1 DEF Injection, IsInjective
    <1>6. rank \in Surjection(S, 1 .. Cardinality(S))
        <2>1. IsFiniteSet(1 .. Cardinality(S)) /\ Cardinality(1 .. Cardinality(S)) = Cardinality(S)
            BY <1>1, FS_Interval
        <2> HIDE DEF rank
        <2>2. QED
            BY <1>5, <2>1, FS_Injection
    <1>7. PICK d \in S : rank[d] = i
        <2> HIDE DEF rank
        <2>1. QED
            BY <1>6 DEF Surjection
    <1>8. Cardinality(below(d)) = i - 1
        <2>1. Cardinality(below(d)) \in Nat
            BY <1>2
        <2> HIDE DEF below
        <2>2. QED
            BY <1>7, <2>1
    <1>9. QED
        BY <1>8

\* The score a decision gets for what is known of it now.
ScoreNow(d) == [reward |-> RewardFor(decision[d]), turn |-> ClassifyNextTurn(decision[d])]

\* A reward lies between -1 and 1, in halves, whatever the row says.
LEMMA ScoreType == ASSUME NEW d PROVE ScoreNow(d) \in [reward : -2 .. 2, turn : Turns]
    <1>1. ClassifyNextTurn(decision[d]) \in Turns
        BY DEF ClassifyNextTurn, Turns
    <1>2. RewardOfTurn(decision[d]) \in -2 .. 2
        BY DEF RewardOfTurn
    <1>3. RewardOfStatus(decision[d]) \in -2 .. 2
        BY <1>2 DEF RewardOfStatus
    <1>4. RewardFor(decision[d]) \in -2 .. 2
        BY <1>3 DEF RewardFor
    <1>5. QED
        BY <1>1, <1>4 DEF ScoreNow

\* Every entry of a batch is a pending decision with the score it has earned.
LEMMA BatchHoldsPending ==
    /\ PendingBatch \in Seq(Entries)
    /\ \A i \in 1 .. Len(PendingBatch) :
          /\ IsPending(PendingBatch[i].d)
          /\ PendingBatch[i].scored = ScoreNow(PendingBatch[i].d)
    <1>1. PICK oldest :
            oldest = {d \in Decisions : IsPending(d) /\
                        Cardinality({e \in Decisions : e < d /\ IsPending(e)}) < Batch}
        OBVIOUS
    <1> DEFINE nth(i) == CHOOSE d \in oldest : Cardinality({e \in oldest : e < d}) = i - 1
    <1>2. PendingBatch = [i \in 1 .. Cardinality(oldest) |->
                            [d |-> nth(i), scored |-> ScoreNow(nth(i))]]
        BY <1>1 DEF PendingBatch, ScoreNow
    <1>3. oldest \subseteq Decisions /\ \A d \in oldest : IsPending(d)
        BY <1>1
    <1>4. IsFiniteSet(oldest) /\ oldest \subseteq Nat /\ Cardinality(oldest) \in Nat
        <2>1. IsFiniteSet(Decisions) /\ Decisions \subseteq Nat
            BY RollupAssumption, FS_Interval DEF Decisions
        <2>2. IsFiniteSet(oldest)
            BY <1>3, <2>1, FS_Subset
        <2>3. QED
            BY <1>3, <2>1, <2>2, FS_CardinalityType
    <1>5. ASSUME NEW i \in 1 .. Cardinality(oldest) PROVE nth(i) \in oldest
        BY <1>4, EveryRank
    <1> HIDE DEF nth
    <1>6. ASSUME NEW i \in 1 .. Cardinality(oldest)
          PROVE  [d |-> nth(i), scored |-> ScoreNow(nth(i))] \in Entries
        <2>1. nth(i) \in Decisions
            BY <1>3, <1>5
        <2>2. ScoreNow(nth(i)) \in [reward : -2 .. 2, turn : Turns]
            BY ScoreType
        <2>3. QED
            BY <2>1, <2>2 DEF Entries
    <1>7. PendingBatch \in Seq(Entries) /\ Len(PendingBatch) = Cardinality(oldest)
        <2>1. PendingBatch \in [1 .. Cardinality(oldest) -> Entries]
            BY <1>2, <1>6
        <2>2. QED
            BY <1>4, <2>1, SeqDef, LenProperties
    <1>8. ASSUME NEW i \in 1 .. Cardinality(oldest)
          PROVE  /\ IsPending(PendingBatch[i].d)
                 /\ PendingBatch[i].scored = ScoreNow(PendingBatch[i].d)
        BY <1>2, <1>3, <1>5
    <1>9. QED
        BY <1>7, <1>8

-----------------------------------------------------------------------------
(* What steps leave true.                                                  *)

\* Honesty lasts while the past stays past and only later feedback is news.
LEMMA HonestyLasts ==
    ASSUME \A d \in Decisions : Past(d) => /\ Past(d)'
                                           /\ early'[d] \in {early[d], "none"}
    PROVE  \A d \in Decisions : \A scored : Honest(d, scored) => Honest(d, scored)'
    BY DEF Honest

\* Requests and users touch no score and no worker.
LEMMA WorldKeeps ==
    ASSUME RollupInv, UNCHANGED <<outcome, worker>>,
           decision' \in [Decisions -> {Absent} \cup Rows],
           early' \in [Decisions -> Signals \cup {"none"}],
           EarlyIsNewest',
           \A d \in Decisions : Past(d) => /\ Past(d)'
                                           /\ early'[d] \in {early[d], "none"}
    PROVE  RollupInv'
    <1>1. \A d \in Decisions : \A scored : Honest(d, scored) => Honest(d, scored)'
        BY HonestyLasts
    <1>2. RollupTypeOK'
        BY DEF RollupInv, RollupTypeOK
    <1>3. ScoresHonest'
        BY <1>1 DEF RollupInv, ScoresHonest
    <1>4. ASSUME NEW w \in Workers, NEW i \in 1 .. Len(worker[w].batch)
          PROVE  Honest(worker[w].batch[i].d, worker[w].batch[i].scored)'
        <2>1. worker[w].batch \in Seq(Entries)
            BY DEF RollupInv, RollupTypeOK, WorkerWith
        <2>2. worker[w].batch[i] \in Entries
            BY <2>1, ElementOfSeq
        <2>3. PICK e \in Entries : e = worker[w].batch[i] /\ e = worker'[w].batch[i]
            BY <2>2
        <2>4. Honest(e.d, e.scored) /\ e.d \in Decisions
            BY <2>3 DEF RollupInv, BatchesHonest, Entries
        <2>5. Honest(e.d, e.scored)'
            BY <1>1, <2>4
        <2>6. QED
            BY <2>3, <2>5
    <1>5. BatchesHonest'
        BY <1>4 DEF RollupInv, BatchesHonest
    <1>6. QED
        BY <1>2, <1>3, <1>5 DEF RollupInv

\* What a worker may become.
Sound(new) ==
    /\ \E arms : new \in WorkerWith(arms)
    /\ new.pc = "scoring" => new.batch # <<>>
    /\ \A i \in 1 .. Len(new.batch) : Honest(new.batch[i].d, new.batch[i].scored)

\* A worker's step changes no decision and no feedback.
LEMMA WorkerKeeps ==
    ASSUME RollupInv, NEW w \in Workers, NEW new, Sound(new),
           worker' = [worker EXCEPT ![w] = new], UNCHANGED <<decision, early>>,
           outcome' \in [Decisions -> {Unscored} \cup [reward : -2 .. 2, turn : Turns]],
           ScoresHonest'
    PROVE  RollupInv'
    <1>1. \A d, scored : Honest(d, scored)' = Honest(d, scored)
        BY DEF Honest, Past
    <1>2. /\ worker'[w] = new
          /\ \A v \in Workers \ {w} : worker'[v] = worker[v]
        BY DEF RollupInv, RollupTypeOK
    <1>3. \E arms : worker' \in [Workers -> WorkerWith(arms)]
        <2>1. PICK A : worker \in [Workers -> WorkerWith(A)]
            BY DEF RollupInv, RollupTypeOK
        <2>2. PICK B : new \in WorkerWith(B)
            BY DEF Sound
        <2>3. WorkerWith(A) \subseteq WorkerWith(A \cup B) /\ new \in WorkerWith(A \cup B)
            BY <2>2 DEF WorkerWith
        <2>4. worker' \in [Workers -> WorkerWith(A \cup B)]
            BY <2>1, <2>3
        <2>5. QED
            BY <2>4
    <1>4. RollupTypeOK'
        BY <1>3 DEF RollupInv, RollupTypeOK
    <1>5. EarlyIsNewest'
        BY DEF RollupInv, EarlyIsNewest, Past
    <1>6. ASSUME NEW v \in Workers
          PROVE  /\ worker'[v].pc = "scoring" => worker'[v].batch # <<>>
                 /\ \A i \in 1 .. Len(worker'[v].batch) :
                       Honest(worker[v].batch[i].d, worker[v].batch[i].scored)'
        <2>1. \A i \in 1 .. Len(worker'[v].batch) :
                 Honest(worker'[v].batch[i].d, worker'[v].batch[i].scored)
            BY <1>2 DEF RollupInv, BatchesHonest, Sound
        <2>2. \A i \in 1 .. Len(worker'[v].batch) :
                 Honest(worker[v].batch[i].d, worker[v].batch[i].scored)'
            BY <2>1 DEF Honest, Past
        <2>3. QED
            BY <1>2, <2>2 DEF RollupInv, BatchesHonest, Sound
    <1>7. BatchesHonest'
        BY <1>6 DEF BatchesHonest
    <1>8. QED
        BY <1>4, <1>5, <1>7 DEF RollupInv

\* A worker that goes on with an empty batch is sound.
LEMMA EmptyHanded ==
    ASSUME NEW A, NEW new \in WorkerWith(A), new.batch = <<>>, new.pc # "scoring"
    PROVE  Sound(new)
    BY EmptySeq DEF Sound

\* So is one that is idle, or starts over with a place and arms.
LEMMA IdleType ==
    Idle \in WorkerWith({NoArms}) /\ Idle.batch = <<>> /\ Idle.pc = "idle"
    <1>1. <<>> \in Seq(Entries)
        BY EmptySeq
    <1>2. QED
        BY <1>1 DEF Idle, WorkerWith, Places

\* A worker record with another place: its fields.
LEMMA OtherPlace ==
    ASSUME NEW A, NEW old \in WorkerWith(A), NEW place \in Places
    PROVE  /\ [old EXCEPT !.pc = place] \in WorkerWith(A)
           /\ [old EXCEPT !.pc = place].pc = place
           /\ [old EXCEPT !.pc = place].batch = old.batch
    BY DEF WorkerWith

\* A worker that starts over at some place, empty-handed.
LEMMA StartsOver ==
    ASSUME NEW place \in Places \ {"scoring"}, NEW arms
    PROVE  /\ Sound([Idle EXCEPT !.pc = place])
           /\ Sound([Idle EXCEPT !.pc = place, !.arms = arms])
           /\ Sound(Idle)
    <1>1. PICK idle \in WorkerWith({NoArms}) :
            idle = Idle /\ idle.batch = <<>> /\ idle.pc = "idle"
        BY IdleType
    <1>2. Sound(idle)
        BY <1>1, EmptyHanded
    <1>3. Sound([idle EXCEPT !.pc = place])
        <2>1. PICK new : new = [idle EXCEPT !.pc = place]
            OBVIOUS
        <2>2. new \in WorkerWith({NoArms}) /\ new.pc = place /\ new.batch = <<>>
            BY <1>1, <2>1, OtherPlace
        <2>3. QED
            BY <2>1, <2>2, EmptyHanded
    <1>4. Sound([idle EXCEPT !.pc = place, !.arms = arms])
        <2>1. PICK new : new = [idle EXCEPT !.pc = place, !.arms = arms]
            OBVIOUS
        <2>2. new \in WorkerWith({arms}) /\ new.pc = place /\ new.batch = <<>>
            BY <1>1, <2>1 DEF WorkerWith
        <2>3. QED
            BY <2>1, <2>2, EmptyHanded
    <1>5. QED
        BY <1>1, <1>2, <1>3, <1>4

\* The workers of a new process.
Fresh == [w \in Workers |-> IF w = Loop THEN [Idle EXCEPT !.pc = "loading"] ELSE Idle]

\* They are idle but for the loop, which loads, and hold nothing.
LEMMA FreshType ==
    /\ Fresh \in [Workers -> WorkerWith({NoArms})]
    /\ \A w \in Workers : Fresh[w].batch = <<>> /\ Fresh[w].pc # "scoring"
    <1>1. PICK idle \in WorkerWith({NoArms}) :
            idle = Idle /\ idle.batch = <<>> /\ idle.pc = "idle"
        BY IdleType
    <1>2. PICK loading : loading = [idle EXCEPT !.pc = "loading"]
        OBVIOUS
    <1>3. /\ loading \in WorkerWith({NoArms})
          /\ loading.pc = "loading" /\ loading.batch = <<>>
        <2>1. PICK place \in Places : place = "loading"
            BY DEF Places
        <2>2. QED
            BY <1>1, <1>2, <2>1, OtherPlace
    <1>4. Fresh = [w \in Workers |-> IF w = Loop THEN loading ELSE idle]
        BY <1>1, <1>2 DEF Fresh
    <1>5. QED
        BY <1>1, <1>3, <1>4

-----------------------------------------------------------------------------
(* The steps.                                                              *)

\* At the start there is nothing to be dishonest about.
LEMMA RollupStart == Init => RollupInv
<1> SUFFICES ASSUME Init PROVE RollupInv
    OBVIOUS
<1>1. worker = Fresh
    BY DEF Init, Fresh
<1>2. /\ \A d \in Decisions : outcome[d] = Unscored /\ early[d] = "none"
      /\ early \in [Decisions -> Signals \cup {"none"}]
      /\ decision \in [Decisions -> {Absent} \cup Rows]
      /\ outcome \in [Decisions -> {Unscored} \cup [reward : -2 .. 2, turn : Turns]]
    BY DEF Init
<1>3. RollupTypeOK
    BY <1>1, <1>2, FreshType DEF RollupTypeOK
<1>4. EarlyIsNewest /\ ScoresHonest
    BY <1>2 DEF EarlyIsNewest, ScoresHonest
<1>5. BatchesHonest
    <2>1. Len(<<>>) = 0
        BY EmptySeq
    <2>2. \A w \in Workers : worker[w].batch = <<>> /\ worker[w].pc # "scoring"
        BY <1>1, FreshType
    <2>3. QED
        BY <2>1, <2>2 DEF BatchesHonest
<1>6. QED
    BY <1>3, <1>4, <1>5 DEF RollupInv

\* A process that starts anew holds no batch.
LEMMA RestartKeeps == ASSUME RollupInv, Restart PROVE RollupInv'
<1>1. worker' = Fresh /\ UNCHANGED <<decision, outcome, early>>
    BY DEF Restart, Fresh
<1>2. RollupTypeOK'
    BY <1>1, FreshType DEF RollupInv, RollupTypeOK
<1>3. EarlyIsNewest' /\ ScoresHonest'
    BY <1>1 DEF RollupInv, EarlyIsNewest, ScoresHonest, Honest, Past
<1>4. BatchesHonest'
    <2>1. Len(<<>>) = 0
        BY EmptySeq
    <2>2. \A w \in Workers : worker'[w].batch = <<>> /\ worker'[w].pc # "scoring"
        BY <1>1, FreshType
    <2>3. QED
        BY <2>1, <2>2 DEF BatchesHonest
<1>5. QED
    BY <1>2, <1>3, <1>4 DEF RollupInv

\* A decision is recorded: it is young.
LEMMA RecordKeeps ==
    ASSUME RollupInv, NEW d \in Decisions, NEW request \in Requests[d],
           RecordDecision(d, request)
    PROVE  RollupInv'
    <1>1. Row(request) \in Rows /\ Row(request).age = 2
        BY DEF Row, Rows, Asked
    <1>2. /\ decision' = [decision EXCEPT ![d] = Row(request)]
          /\ decision \in [Decisions -> {Absent} \cup Rows]
          /\ UNCHANGED <<outcome, worker, early>>
          /\ Ages[decision[d].age] = "absent"
        BY DEF RollupInv, RollupTypeOK, RecordDecision, Happened
    <1>3. decision' \in [Decisions -> {Absent} \cup Rows]
        BY <1>1, <1>2
    <1>4. ~Past(d)
        BY <1>2 DEF Past, Ages, Rows
    <1>5. \A e \in Decisions : Past(e) => Past(e)' /\ decision'[e] = decision[e]
        BY <1>2, <1>4 DEF Past
    <1>6. early' \in [Decisions -> Signals \cup {"none"}]
        BY <1>2 DEF RollupInv, RollupTypeOK
    <1>7. EarlyIsNewest'
        BY <1>2, <1>5 DEF RollupInv, EarlyIsNewest
    <1>8. QED
        BY <1>2, <1>3, <1>5, <1>6, <1>7, WorldKeeps

\* A decision comes due with the feedback it has, or leaves the window.
LEMMA GrowKeeps ==
    ASSUME RollupInv, NEW d \in Decisions, Grow(d)
    PROVE  RollupInv'
    <1>1. /\ decision \in [Decisions -> {Absent} \cup Rows]
          /\ early \in [Decisions -> Signals \cup {"none"}]
          /\ UNCHANGED <<outcome, worker>>
          /\ Ages[decision[d].age] \in {"young", "due"}
        BY DEF RollupInv, RollupTypeOK, Grow, Happened
    <1>2. decision[d] \in Rows /\ decision[d].age \in {2, 3}
        <2>1. decision[d] # Absent
            BY <1>1 DEF Absent, Ages
        <2>2. decision[d] \in Rows
            BY <1>1, <2>1
        <2>3. decision[d].age \in {2, 3, 4}
            BY <2>2 DEF Rows
        <2>4. QED
            BY <1>1, <2>2, <2>3 DEF Ages
    <1>3. PICK older : older = [decision[d] EXCEPT !.age = @ + 1]
        OBVIOUS
    <1>4. older \in Rows /\ older.age >= 3 /\ older.feedback = decision[d].feedback
        BY <1>2, <1>3 DEF Rows
    <1>5. decision' = [decision EXCEPT ![d] = older]
        BY <1>3 DEF Grow
    <1>6. decision' \in [Decisions -> {Absent} \cup Rows] /\ decision'[d] = older
          /\ \A e \in Decisions \ {d} : decision'[e] = decision[e]
        BY <1>1, <1>4, <1>5
    <1>7. PICK heard : heard = IF Ages[decision[d].age] = "young"
                               THEN decision[d].feedback ELSE early[d]
        OBVIOUS
    <1>8. early' = [early EXCEPT ![d] = heard]
        BY <1>7 DEF Grow
    <1>9. decision[d].feedback \in Signals \cup {"none"}
        BY <1>2 DEF Rows
    <1>10. heard \in Signals \cup {"none"}
        BY <1>1, <1>7, <1>9
    <1>11. /\ early' \in [Decisions -> Signals \cup {"none"}] /\ early'[d] = heard
           /\ \A e \in Decisions \ {d} : early'[e] = early[e]
        BY <1>1, <1>8, <1>10
    <1>12. Past(d)' /\ (heard # "none" => older.feedback = heard)
        <2>1. early[d] # "none" => decision[d].feedback = early[d]
            BY DEF RollupInv, EarlyIsNewest
        <2>2. heard # "none" => older.feedback = heard
            BY <1>4, <1>7, <2>1
        <2>3. QED
            BY <1>4, <1>6, <2>2 DEF Past
    <1>13. Past(d) => heard = early[d]
        BY <1>2, <1>7 DEF Past, Ages
    <1>14. EarlyIsNewest'
        <2>1. ASSUME NEW e \in Decisions \ {d}
              PROVE  (early[e] # "none" => Past(e) /\ decision[e].feedback = early[e])'
            BY <1>6, <1>11 DEF RollupInv, EarlyIsNewest, Past
        <2>2. QED
            BY <1>6, <1>11, <1>12, <2>1 DEF EarlyIsNewest
    <1>15. \A e \in Decisions : Past(e) => Past(e)' /\ early'[e] \in {early[e], "none"}
        BY <1>6, <1>11, <1>12, <1>13 DEF Past
    <1>16. QED
        BY <1>1, <1>6, <1>11, <1>14, <1>15, WorldKeeps

\* A new sample is the newest: no earlier feedback is left.
LEMMA SubmitKeeps ==
    ASSUME RollupInv, NEW d \in Decisions, NEW signal \in Signals, SubmitFeedback(d, signal)
    PROVE  RollupInv'
    <1>1. /\ decision \in [Decisions -> {Absent} \cup Rows]
          /\ early \in [Decisions -> Signals \cup {"none"}]
          /\ UNCHANGED <<outcome, worker>>
          /\ Ages[decision[d].age] \in {"young", "due"}
          /\ decision' = [decision EXCEPT ![d].feedback = signal]
          /\ early' = [early EXCEPT ![d] = "none"]
        BY DEF RollupInv, RollupTypeOK, SubmitFeedback, StillRead, Happened
    <1>2. decision[d] # Absent
        BY <1>1 DEF Absent, Ages
    <1>3. PICK new : new = [decision[d] EXCEPT !.feedback = signal]
        OBVIOUS
    <1>4. new \in Rows /\ new.age = decision[d].age
        BY <1>1, <1>2, <1>3 DEF Rows
    <1>5. /\ decision' \in [Decisions -> {Absent} \cup Rows] /\ decision'[d] = new
          /\ \A e \in Decisions \ {d} : decision'[e] = decision[e]
        BY <1>1, <1>3, <1>4
    <1>6. /\ early' \in [Decisions -> Signals \cup {"none"}] /\ early'[d] = "none"
          /\ \A e \in Decisions \ {d} : early'[e] = early[e]
        BY <1>1
    <1>7. \A e \in Decisions : Past(e) => Past(e)' /\ early'[e] \in {early[e], "none"}
        BY <1>4, <1>5, <1>6 DEF Past
    <1>8. EarlyIsNewest'
        BY <1>5, <1>6, <1>7 DEF RollupInv, EarlyIsNewest
    <1>9. QED
        BY <1>1, <1>5, <1>6, <1>7, <1>8, WorldKeeps

\* A next turn changes neither the age nor the feedback of a decision.
LEMMA TakeTurnKeeps ==
    ASSUME RollupInv, NEW d \in Decisions, NEW turn \in NextTurns, TakeNextTurn(d, turn)
    PROVE  RollupInv'
    <1>1. /\ decision \in [Decisions -> {Absent} \cup Rows]
          /\ early \in [Decisions -> Signals \cup {"none"}]
          /\ UNCHANGED <<outcome, worker, early>>
          /\ Ages[decision[d].age] \in {"young", "due"}
          /\ decision' = [decision EXCEPT ![d].next = turn]
        BY DEF RollupInv, RollupTypeOK, TakeNextTurn, StillRead, Happened
    <1>2. decision[d] # Absent
        BY <1>1 DEF Absent, Ages
    <1>3. PICK new : new = [decision[d] EXCEPT !.next = turn]
        OBVIOUS
    <1>4. new \in Rows /\ new.age = decision[d].age /\ new.feedback = decision[d].feedback
        BY <1>1, <1>2, <1>3 DEF Rows
    <1>5. /\ decision' \in [Decisions -> {Absent} \cup Rows] /\ decision'[d] = new
          /\ \A e \in Decisions \ {d} : decision'[e] = decision[e]
        BY <1>1, <1>3, <1>4
    <1>6. \A e \in Decisions : Past(e) => /\ Past(e)'
                                          /\ early'[e] \in {early[e], "none"}
                                          /\ decision'[e].feedback = decision[e].feedback
        BY <1>1, <1>4, <1>5 DEF Past
    <1>7. EarlyIsNewest'
        BY <1>1, <1>6 DEF RollupInv, EarlyIsNewest
    <1>8. QED
        BY <1>1, <1>5, <1>6, <1>7, WorldKeeps

\* A worker that scores nothing.
LEMMA NoScoreKeeps ==
    ASSUME RollupInv, NEW w \in Workers, NEW new, Sound(new),
           worker' = [worker EXCEPT ![w] = new], UNCHANGED <<decision, early, outcome>>
    PROVE  RollupInv'
    <1>1. /\ outcome' \in [Decisions -> {Unscored} \cup [reward : -2 .. 2, turn : Turns]]
          /\ ScoresHonest'
        BY DEF RollupInv, RollupTypeOK, ScoresHonest, Honest, Past
    <1>2. QED
        BY <1>1, WorkerKeeps

\* A worker that only changes its place keeps what it holds.
LEMMA PlaceKeeps ==
    ASSUME RollupInv, NEW w \in Workers, NEW place \in Places \ {"scoring"},
           worker' = [worker EXCEPT ![w].pc = place], UNCHANGED <<decision, early, outcome>>
    PROVE  RollupInv'
    <1>1. PICK A : worker \in [Workers -> WorkerWith(A)]
        BY DEF RollupInv, RollupTypeOK
    <1>2. PICK new : new = [worker[w] EXCEPT !.pc = place]
        OBVIOUS
    <1>3. new \in WorkerWith(A) /\ new.pc = place /\ new.batch = worker[w].batch
        BY <1>1, <1>2, OtherPlace
    <1>4. Sound(new)
        BY <1>3 DEF Sound, RollupInv, BatchesHonest
    <1>5. worker' = [worker EXCEPT ![w] = new]
        BY <1>2
    <1>6. QED
        BY <1>4, <1>5, NoScoreKeeps

\* A worker that holds honest entries is sound.
LEMMA FullHanded ==
    ASSUME NEW A, NEW new \in WorkerWith(A), new.batch # <<>>,
           \A i \in 1 .. Len(new.batch) : Honest(new.batch[i].d, new.batch[i].scored)
    PROVE  Sound(new)
    BY DEF Sound

\* A rollup begins with, or goes on to, decisions that are due now.
LEMMA ReadPendingKeeps ==
    ASSUME RollupInv, NEW w \in Workers, ReadPending(w)
    PROVE  RollupInv'
    <1>1. UNCHANGED <<decision, early, outcome>>
        BY DEF ReadPending, Elsewhere
    <1>2. CASE PendingBatch = <<>>
        <2>1. worker' = [worker EXCEPT ![w] = [Idle EXCEPT !.pc = "summing"]]
            BY <1>2 DEF ReadPending
        <2>2. PICK place \in Places \ {"scoring"} : place = "summing"
            BY DEF Places
        <2>3. Sound([Idle EXCEPT !.pc = "summing"])
            BY <2>2, StartsOver
        <2>4. QED
            BY <1>1, <2>1, <2>3, NoScoreKeeps
    <1>3. CASE PendingBatch # <<>>
        <2>1. PICK A : worker \in [Workers -> WorkerWith(A)]
            BY DEF RollupInv, RollupTypeOK
        <2>2. PICK batch \in Seq(Entries) : batch = PendingBatch
            BY BatchHoldsPending
        <2>3. Len(batch) \in Nat
            BY LenProperties
        <2>4. PICK new : new = [worker[w] EXCEPT !.pc = "scoring", !.batch = batch,
                                                 !.read = Len(batch), !.batches = @ + 1]
            OBVIOUS
        <2>5. new \in WorkerWith(A) /\ new.pc = "scoring" /\ new.batch = batch
            <3>1. PICK me \in WorkerWith(A) : me = worker[w]
                BY <2>1
            <3>2. PICK more \in Nat : more = me.batches + 1
                BY DEF WorkerWith
            <3>3. PICK read \in Nat : read = Len(batch)
                BY <2>3
            <3>4. new = [me EXCEPT !.pc = "scoring", !.batch = batch, !.read = read,
                                   !.batches = more]
                BY <2>4, <3>1, <3>2, <3>3
            <3>5. "scoring" \in Places
                BY DEF Places
            <3>6. QED
                BY <3>4, <3>5 DEF WorkerWith
        <2>6. ASSUME NEW i \in 1 .. Len(batch) PROVE Honest(batch[i].d, batch[i].scored)
            <3>1. batch[i] \in Entries
                BY ElementOfSeq
            <3>2. PICK d \in Decisions : d = batch[i].d
                BY <3>1 DEF Entries
            <3>3. IsPending(d) /\ batch[i].scored = ScoreNow(d)
                BY <2>2, <3>2, BatchHoldsPending
            <3>4. Ages[decision[d].age] = "due" /\ decision[d] \in {Absent} \cup Rows
                BY <3>3 DEF IsPending, RollupInv, RollupTypeOK
            <3>5. Past(d)
                BY <3>4 DEF Past, Absent, Ages, Rows
            <3>6. ASSUME early[d] # "none"
                  PROVE  RewardFor(decision[d]) = Deserved(early[d])
                <4>1. decision[d].feedback = early[d] /\ early[d] \in Signals
                    BY <3>6 DEF RollupInv, RollupTypeOK, EarlyIsNewest
                <4>2. QED
                    BY <4>1 DEF RewardFor, Deserved, Signals
            <3>7. QED
                BY <3>2, <3>3, <3>5, <3>6 DEF Honest, ScoreNow
        <2>7. Sound(new)
            <3>1. \A i \in 1 .. Len(new.batch) : Honest(new.batch[i].d, new.batch[i].scored)
                BY <2>5, <2>6
            <3>2. QED
                BY <1>3, <2>2, <2>5, <3>1, FullHanded
        <2>8. worker' = [worker EXCEPT ![w] = new]
            BY <1>3, <2>2, <2>4 DEF ReadPending
        <2>9. QED
            BY <1>1, <2>7, <2>8, NoScoreKeeps
    <1>4. QED
        BY <1>2, <1>3

\* A row is scored as it was read, however much has happened since.
LEMMA ScoreKeeps ==
    ASSUME RollupInv, NEW w \in Workers, Score(w)
    PROVE  RollupInv'
    <1>1. PICK A : worker \in [Workers -> WorkerWith(A)]
        BY DEF RollupInv, RollupTypeOK
    <1>2. PICK me \in WorkerWith(A) : me = worker[w]
        BY <1>1
    <1>3. /\ me.pc = "scoring" /\ me.batch # <<>> /\ me.batch \in Seq(Entries)
          /\ \A i \in 1 .. Len(me.batch) : Honest(me.batch[i].d, me.batch[i].scored)
        BY <1>2 DEF Score, RollupInv, BatchesHonest, WorkerWith
    <1>4. PICK rest \in Seq(Entries) : rest = Tail(me.batch)
        BY <1>3, HeadTailProperties
    <1>5. /\ Len(me.batch) \in Nat \ {0} /\ Len(rest) = Len(me.batch) - 1
          /\ \A i \in 1 .. Len(rest) : rest[i] = me.batch[i + 1]
        BY <1>3, <1>4, HeadTailProperties, EmptySeq
    <1>6. \A i \in 1 .. Len(rest) : Honest(rest[i].d, rest[i].scored)
        BY <1>3, <1>5
    <1>7. PICK first \in Entries : first = Head(me.batch) /\ first = me.batch[1]
        BY <1>3, <1>5, HeadTailProperties
    <1>8. Honest(first.d, first.scored) /\ first.d \in Decisions
        BY <1>3, <1>5, <1>7 DEF Entries
    <1>9. /\ UNCHANGED <<decision, early>>
          /\ outcome' = [outcome EXCEPT ![first.d] = first.scored] \/ UNCHANGED outcome
        BY <1>2, <1>7 DEF Score, Elsewhere
    <1>10. outcome' \in [Decisions -> {Unscored} \cup [reward : -2 .. 2, turn : Turns]]
        BY <1>8, <1>9 DEF RollupInv, RollupTypeOK, Entries
    <1>11. ScoresHonest'
        <2>1. \A d, scored : Honest(d, scored)' = Honest(d, scored)
            BY <1>9 DEF Honest, Past
        <2>2. ASSUME NEW d \in Decisions, outcome'[d] # Unscored
              PROVE  Honest(d, outcome'[d])
            BY <1>8, <1>9, <2>2 DEF RollupInv, RollupTypeOK, ScoresHonest
        <2>3. \A d \in Decisions : outcome'[d] # Unscored =>
                 Past(d)' /\ (early'[d] # "none" => outcome'[d].reward = Deserved(early'[d]))
            BY <1>9, <2>2 DEF Honest, Past
        <2>4. QED
            BY <2>3 DEF ScoresHonest, Honest
    <1>12. CASE rest # <<>>
        <2>1. PICK new : new = [me EXCEPT !.batch = rest]
            OBVIOUS
        <2>2. new \in WorkerWith(A) /\ new.pc = "scoring" /\ new.batch = rest
            BY <1>3, <2>1 DEF WorkerWith
        <2>3. Sound(new)
            <3>1. \A i \in 1 .. Len(new.batch) : Honest(new.batch[i].d, new.batch[i].scored)
                BY <1>6, <2>2
            <3>2. QED
                BY <1>12, <2>2, <3>1, FullHanded
        <2>4. worker' = [worker EXCEPT ![w] = new]
            BY <1>2, <1>4, <1>12, <2>1 DEF Score
        <2>5. QED
            BY <1>9, <1>10, <1>11, <2>3, <2>4, WorkerKeeps
    <1>13. CASE rest = <<>> /\ (me.read < Batch \/ me.batches = MaxBatches)
        <2>1. worker' = [worker EXCEPT ![w] = [Idle EXCEPT !.pc = "summing"]]
            BY <1>2, <1>4, <1>13 DEF Score
        <2>2. PICK place \in Places \ {"scoring"} : place = "summing"
            BY DEF Places
        <2>3. Sound([Idle EXCEPT !.pc = "summing"])
            BY <2>2, StartsOver
        <2>4. QED
            BY <1>9, <1>10, <1>11, <2>1, <2>3, WorkerKeeps
    <1>14. CASE rest = <<>> /\ ~(me.read < Batch \/ me.batches = MaxBatches)
        <2>1. PICK new : new = [me EXCEPT !.batch = <<>>, !.pc = "pending"]
            OBVIOUS
        <2>2. new \in WorkerWith(A) /\ new.pc = "pending" /\ new.batch = <<>>
            BY <1>14, <2>1 DEF WorkerWith, Places
        <2>3. Sound(new)
            BY <2>2, EmptyHanded
        <2>4. worker' = [worker EXCEPT ![w] = new]
            BY <1>2, <1>4, <1>14, <2>1 DEF Score
        <2>5. QED
            BY <1>9, <1>10, <1>11, <2>3, <2>4, WorkerKeeps
    <1>15. QED
        BY <1>12, <1>13, <1>14

\* A row of the statistics is summed, written, pruned, read or put into memory:
\* no decision is scored.
LEMMA SumsKeep ==
    ASSUME RollupInv, NEW w \in Workers,
           \/ SumRewards(w) \/ WriteSums(w) \/ PruneArms(w)
           \/ LoadArms(w) \/ ReplaceArmStats(w) \/ StatementFails(w)
    PROVE  RollupInv'
    <1>1. UNCHANGED <<decision, early, outcome>>
        BY DEF SumRewards, WriteSums, PruneArms, LoadArms, ReplaceArmStats, StatementFails,
               Elsewhere
    <1>2. CASE PruneArms(w)
        <2>1. PICK place \in Places \ {"scoring"} : place = "loading"
            BY DEF Places
        <2>2. worker' = [worker EXCEPT ![w].pc = place]
            BY <1>2, <2>1 DEF PruneArms, Goes
        <2>3. QED
            BY <1>1, <2>2, PlaceKeeps
    <1>3. CASE LoadArms(w)
        <2>1. PICK A : worker \in [Workers -> WorkerWith(A)]
            BY DEF RollupInv, RollupTypeOK
        <2>2. PICK new : new = [worker[w] EXCEPT !.pc = "installing", !.arms = table]
            OBVIOUS
        <2>3. new \in WorkerWith({table}) /\ new.pc = "installing"
              /\ new.batch = worker[w].batch
            BY <2>1, <2>2 DEF WorkerWith, Places
        <2>4. Sound(new)
            BY <2>3 DEF Sound, RollupInv, BatchesHonest
        <2>5. worker' = [worker EXCEPT ![w] = new]
            BY <1>3, <2>2 DEF LoadArms
        <2>6. QED
            BY <1>1, <2>4, <2>5, NoScoreKeeps
    <1>4. CASE SumRewards(w)
        <2>1. PICK sums : sums = ArmStats
            OBVIOUS
        <2>2. worker' = [worker EXCEPT ![w] = [Idle EXCEPT !.pc = "writing", !.arms = sums]]
            BY <1>4, <2>1 DEF SumRewards
        <2>3. PICK place \in Places \ {"scoring"} : place = "writing"
            BY DEF Places
        <2>4. Sound([Idle EXCEPT !.pc = "writing", !.arms = sums])
            BY <2>3, StartsOver
        <2>5. QED
            BY <1>1, <2>2, <2>4, NoScoreKeeps
    <1>5. CASE WriteSums(w)
        <2>1. worker' = [worker EXCEPT ![w] = [Idle EXCEPT !.pc = "pruning"]]
            BY <1>5 DEF WriteSums
        <2>2. PICK place \in Places \ {"scoring"} : place = "pruning"
            BY DEF Places
        <2>3. Sound([Idle EXCEPT !.pc = "pruning"])
            BY <2>2, StartsOver
        <2>4. QED
            BY <1>1, <2>1, <2>3, NoScoreKeeps
    <1>6. CASE ReplaceArmStats(w) \/ StatementFails(w)
        <2>1. worker' = [worker EXCEPT ![w] = Idle]
            BY <1>6 DEF ReplaceArmStats, StatementFails
        <2>2. PICK place \in Places \ {"scoring"} : place = "idle"
            BY DEF Places
        <2>3. Sound(Idle)
            BY <2>2, StartsOver
        <2>4. QED
            BY <1>1, <2>1, <2>3, NoScoreKeeps
    <1>7. QED
        BY <1>2, <1>3, <1>4, <1>5, <1>6

\* Every step keeps the invariant.
LEMMA RollupStepKeeps == RollupInv /\ [Next]_vars => RollupInv'
<1> SUFFICES ASSUME RollupInv, [Next]_vars PROVE RollupInv'
    OBVIOUS
<1>1. CASE UNCHANGED vars
    BY <1>1 DEF vars, RollupInv, RollupTypeOK, EarlyIsNewest, ScoresHonest, BatchesHonest,
                Honest, Past
<1>2. ASSUME NEW d \in Decisions, NEW request \in Requests[d], RecordDecision(d, request)
      PROVE  RollupInv'
    BY <1>2, RecordKeeps
<1>3. ASSUME NEW d \in Decisions, Grow(d) PROVE RollupInv'
    BY <1>3, GrowKeeps
<1>4. ASSUME NEW d \in Decisions, NEW signal \in {"approved", "rejected"},
             SubmitFeedback(d, signal)
      PROVE  RollupInv'
    BY <1>4, SubmitKeeps DEF Signals
<1>5. ASSUME NEW d \in Decisions, NEW turn \in NextTurns, TakeNextTurn(d, turn)
      PROVE  RollupInv'
    BY <1>5, TakeTurnKeeps
<1>6. ASSUME NEW w \in Workers, RollupStep(w) PROVE RollupInv'
    BY <1>6, ReadPendingKeeps, ScoreKeeps, SumsKeep DEF RollupStep
<1>7. QED
    BY <1>1, <1>2, <1>3, <1>4, <1>5, <1>6, RestartKeeps DEF Next

-----------------------------------------------------------------------------
\* However rollups overlap, fail and start again, what they hold and what they
\* have written is honest about the feedback that was in before.
THEOREM RollupInvariant == Spec => []RollupInv
<1>1. QED
    BY RollupStart, RollupStepKeeps, PTL DEF Spec

\* Feedback given before a decision came due, and left as it is, decides its
\* reward, whichever rollup scores it (reward_for).
THEOREM EarlyFeedbackDecides == Spec => []EarlyFeedbackCounts
<1>1. RollupInv => EarlyFeedbackCounts
    BY DEF RollupInv, ScoresHonest, Honest, Deserved, EarlyFeedbackCounts
<1>2. QED
    BY <1>1, RollupInvariant, PTL

=============================================================================

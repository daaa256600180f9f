------------------------------- MODULE Rollup -------------------------------
(***************************************************************************)
(* How what happened to past requests becomes the statistics the Thompson  *)
(* strategy samples from.                                                  *)
(*                                                                         *)
(* A routing decision is recorded when its request ends.  Once it is older *)
(* than the grace period a rollup scores it, from the user's feedback, the *)
(* logged status and the next turn of the conversation; then it sums the   *)
(* rewards per arm (tier and model) into routing_arm_stats and puts a copy *)
(* of that table into memory.  The periodic loop runs rollups and so does  *)
(* POST /admin/routing/rollup; nothing keeps two of them apart, and each   *)
(* statement to the database is a step of its own.                         *)
(***************************************************************************)
EXTENDS Naturals, Integers, Sequences, FiniteSets, FiniteSetsExt

CONSTANTS NumDecisions,  \* decisions 1..NumDecisions, in the order of created_at
          Requests,      \* decision -> what its row and its request's log may say
          NextTurns,     \* what a next turn may look like
          Loop, Admins,  \* who runs rollups
          Batch, MaxBatches,
          MaxFaults,     \* bound: statements that fail and restarts
          MaxSignals,    \* bound: feedback samples
          MaxRuns        \* bound: rollups the admins ask for

ASSUME RollupAssumption == NumDecisions \in Nat

Decisions == 1..NumDecisions
Workers == Admins \cup {Loop}
Ages == <<"absent", "young", "due", "expired">>   \* due: past the grace period, inside the window

VARIABLES decision,  \* routing_decisions with what the joins of pending() add
          outcome,   \* routing_outcomes: the reward in halves and the signal
                     \* of the next turn, or Unscored
          table,     \* routing_arm_stats: arm -> [alpha, beta], in halves
          memory,    \* AppState.arm_stats
          worker,    \* where each rollup is and what it holds
          faults, signals, runs,
          early      \* history: feedback that was in before the decision came
                     \* due and has not been changed since

vars == <<decision, outcome, table, memory, worker, faults, signals, runs, early>>

Unscored == [reward |-> 99, turn |-> "unscored"]
NoTurn == [tool |-> FALSE, stronger |-> FALSE, text |-> "missing", here |-> FALSE]
NoArms == [a \in {} |-> 0]

\* arm: tier and model; kind: applied, shadow or synthetic, or plain when the
\* request was not routed and has a log row only; linked: the row names the
\* provider's response, which it does unless the request ended in an error;
\* status: "none" when the insert of the log row failed; says: a name for what
\* else the two rows say, which no rollup reads.
Row(request) == [arm |-> request.arm, kind |-> request.kind, linked |-> request.linked,
                 status |-> request.status, says |-> request.says,
                 age |-> 2, feedback |-> "none", next |-> NoTurn]
Absent == [age |-> 1]
Idle == [pc |-> "idle", batch |-> <<>>, read |-> 0, batches |-> 0, arms |-> NoArms]

Init ==
  /\ decision = [d \in Decisions |-> Absent]
  /\ outcome = [d \in Decisions |-> Unscored]
  /\ table = NoArms
  /\ memory = NoArms
  /\ worker = [w \in Workers |-> IF w = Loop THEN [Idle EXCEPT !.pc = "loading"] ELSE Idle]
  /\ faults = 0 /\ signals = 0 /\ runs = 0
  /\ early = [d \in Decisions |-> "none"]

-----------------------------------------------------------------------------
(* Scoring *)

ClassifyNextTurn(in) ==
  CASE ~in.next.here \/ in.next.tool     -> "none"
    [] in.next.stronger                  -> "escalation"
    [] in.next.text = "correction"       -> "correction"
    [] in.next.text = "same words"       -> "retry"
    [] OTHER                             -> "move_on"

RewardOfTurn(in) ==
  CASE ClassifyNextTurn(in) \in {"escalation", "correction"} -> -2
    [] ClassifyNextTurn(in) = "retry"                        -> -1
    [] ClassifyNextTurn(in) = "move_on"                      -> 2
    [] OTHER -> IF in.status = "completed" THEN 1 ELSE 0

RewardOfStatus(in) ==
  CASE in.status = "failed"     -> -2
    [] in.status = "incomplete" -> -1
    [] OTHER                    -> RewardOfTurn(in)

\* Mutant: what the request log says is looked at before the feedback.
RewardStatusFirst(in) ==
  CASE in.status = "failed"     -> -2
    [] in.status = "incomplete" -> -1
    [] in.feedback = "approved" -> 2
    [] in.feedback = "rejected" -> -2
    [] OTHER                    -> RewardOfTurn(in)

RewardFor(in) ==
  CASE in.feedback = "approved" -> 2
    [] in.feedback = "rejected" -> -2
    [] OTHER                    -> RewardOfStatus(in)

IsPending(d) == /\ outcome[d] = Unscored
                /\ Ages[decision[d].age] = "due"
                /\ decision[d].kind \notin {"synthetic", "plain"}

\* The oldest pending decisions with the reward their inputs earn now.
PendingBatch ==
  LET oldest == {d \in Decisions : IsPending(d) /\
                   Cardinality({e \in Decisions : e < d /\ IsPending(e)}) < Batch}
      nth(i) == CHOOSE d \in oldest : Cardinality({e \in oldest : e < d}) = i - 1
  IN  [i \in 1..Cardinality(oldest) |->
            [d |-> nth(i),
             scored |-> [reward |-> RewardFor(decision[nth(i)]),
                         turn |-> ClassifyNextTurn(decision[nth(i)])]]]

Counts(d) == /\ outcome[d] # Unscored
             /\ Ages[decision[d].age] = "due"
             /\ decision[d].kind = "applied"

CountedArms == {decision[d].arm : d \in {e \in Decisions : Counts(e)}}

ArmStats ==
  [a \in CountedArms |->
     LET seen == {d \in Decisions : Counts(d) /\ decision[d].arm = a}
     IN  [alpha |-> 2 + MapThenSumSet(LAMBDA d : outcome[d].reward,
                                      {d \in seen : outcome[d].reward > 0}),
          beta  |-> 2 + MapThenSumSet(LAMBDA d : -outcome[d].reward,
                                      {d \in seen : outcome[d].reward < 0})]]

-----------------------------------------------------------------------------
(* Requests and their users *)

Happened == UNCHANGED <<outcome, table, memory, worker, faults, runs>>

\* The request ended.
RecordDecision(d, request) ==
  /\ Ages[decision[d].age] = "absent"
  /\ \A e \in Decisions : e < d => Ages[decision[e].age] # "absent"
  /\ decision' = [decision EXCEPT ![d] = Row(request)]
  /\ Happened /\ UNCHANGED <<signals, early>>

Grow(d) ==
  /\ Ages[decision[d].age] \in {"young", "due"}
  /\ \A e \in Decisions : e < d => decision[e].age > decision[d].age
  /\ decision' = [decision EXCEPT ![d].age = @ + 1]
  /\ early' = [early EXCEPT ![d] = IF Ages[decision[d].age] = "young"
                                   THEN decision[d].feedback ELSE @]
  /\ Happened /\ UNCHANGED signals

\* Feedback and next turns also arrive when the decision has been scored or has
\* left the window, but no rollup reads them any more: those are left out, and
\* so is deleting a sample.
StillRead(d) == /\ Ages[decision[d].age] \in {"young", "due"}
                /\ outcome[d] = Unscored
                /\ decision[d].linked

\* submit_feedback; the newest sample is the one that counts.
SubmitFeedback(d, signal) ==
  /\ StillRead(d)
  /\ signals < MaxSignals /\ signals' = signals + 1
  /\ decision' = [decision EXCEPT ![d].feedback = signal]
  /\ early' = [early EXCEPT ![d] = "none"]
  /\ Happened

\* The first response that names this one as its previous response.
TakeNextTurn(d, turn) ==
  /\ StillRead(d)
  /\ ~decision[d].next.here
  /\ decision' = [decision EXCEPT ![d].next = turn]
  /\ Happened /\ UNCHANGED <<signals, early>>

-----------------------------------------------------------------------------
(* A rollup *)

Elsewhere == UNCHANGED <<decision, signals, early>>
Goes(w, pc) == worker' = [worker EXCEPT ![w].pc = pc]

\* A tick of the loop or a call of the endpoint begins with the first batch.
ReadPending(w) ==
  /\ worker[w].pc \in {"idle", "pending"}
  /\ IF w # Loop /\ worker[w].pc = "idle" THEN runs < MaxRuns /\ runs' = runs + 1
     ELSE UNCHANGED runs
  /\ LET me == worker[w]
     IN  worker' = [worker EXCEPT ![w] =
           IF PendingBatch = <<>> THEN [Idle EXCEPT !.pc = "summing"]
           ELSE [me EXCEPT !.pc = "scoring", !.batch = PendingBatch,
                           !.read = Len(PendingBatch), !.batches = me.batches + 1]]
  /\ UNCHANGED <<outcome, table, memory, faults>> /\ Elsewhere

\* An upsert that fails is logged and skipped.  After the last row the next
\* batch is read, unless this one was short or the run has had its share.
Score(w) ==
  /\ worker[w].pc = "scoring"
  /\ LET me == worker[w]
         row == Head(me.batch)
         last == me.read < Batch \/ me.batches = MaxBatches
     IN  /\ worker' = [worker EXCEPT ![w] =
                  IF Tail(me.batch) # <<>> THEN [me EXCEPT !.batch = Tail(me.batch)]
                  ELSE IF last THEN [Idle EXCEPT !.pc = "summing"]
                  ELSE [me EXCEPT !.batch = <<>>, !.pc = "pending"]]
         /\ \/ outcome' = [outcome EXCEPT ![row.d] = row.scored] /\ UNCHANGED faults
            \/ faults < MaxFaults /\ faults' = faults + 1 /\ UNCHANGED outcome
  /\ UNCHANGED <<table, memory, runs>> /\ Elsewhere

\* INSERT ... SELECT ... ON CONFLICT DO UPDATE sums what it sees when it starts
\* and replaces the rows when it has their locks.
SumRewards(w) ==
  /\ worker[w].pc = "summing"
  /\ worker' = [worker EXCEPT ![w] = [Idle EXCEPT !.pc = "writing", !.arms = ArmStats]]
  /\ UNCHANGED <<outcome, table, memory, faults, runs>> /\ Elsewhere

WriteSums(w) ==
  /\ worker[w].pc = "writing"
  /\ LET sums == worker[w].arms
     IN  table' = [a \in DOMAIN table \cup DOMAIN sums |->
                     IF a \in DOMAIN sums THEN sums[a] ELSE table[a]]
  /\ worker' = [worker EXCEPT ![w] = [Idle EXCEPT !.pc = "pruning"]]
  /\ UNCHANGED <<outcome, memory, faults, runs>> /\ Elsewhere

\* Mutant: arms that fell out of the window keep their statistics.
KeepStaleArms(w) ==
  /\ worker[w].pc = "pruning"
  /\ Goes(w, "loading")
  /\ UNCHANGED <<table, outcome, memory, faults, runs>> /\ Elsewhere

PruneArms(w) ==
  /\ worker[w].pc = "pruning"
  /\ table' = [a \in DOMAIN table \cap CountedArms |-> table[a]]
  /\ Goes(w, "loading")
  /\ UNCHANGED <<outcome, memory, faults, runs>> /\ Elsewhere

\* Also what the loop does first in a new process.
LoadArms(w) ==
  /\ worker[w].pc = "loading"
  /\ worker' = [worker EXCEPT ![w].pc = "installing", ![w].arms = table]
  /\ UNCHANGED <<outcome, table, memory, faults, runs>> /\ Elsewhere

ReplaceArmStats(w) ==
  /\ worker[w].pc = "installing"
  /\ memory' = worker[w].arms
  /\ worker' = [worker EXCEPT ![w] = Idle]
  /\ UNCHANGED <<outcome, table, faults, runs>> /\ Elsewhere

\* Any other statement that fails ends the rollup.
StatementFails(w) ==
  /\ worker[w].pc \in {"pending", "summing", "pruning", "loading"}
  /\ faults < MaxFaults
  /\ faults' = faults + 1
  /\ worker' = [worker EXCEPT ![w] = Idle]
  /\ UNCHANGED <<outcome, table, memory, runs>> /\ Elsewhere

RollupStep(w) ==
  \/ ReadPending(w) \/ Score(w)
  \/ SumRewards(w) \/ WriteSums(w) \/ PruneArms(w)
  \/ LoadArms(w) \/ ReplaceArmStats(w)
  \/ StatementFails(w)

Restart ==
  /\ faults < MaxFaults
  /\ faults' = faults + 1
  /\ memory' = NoArms
  /\ worker' = [w \in Workers |-> IF w = Loop THEN [Idle EXCEPT !.pc = "loading"] ELSE Idle]
  /\ UNCHANGED <<decision, outcome, table, signals, runs, early>>

Next ==
  \/ \E d \in Decisions : \/ \E req \in Requests[d] : RecordDecision(d, req)
                          \/ Grow(d)
                          \/ \E s \in {"approved", "rejected"} : SubmitFeedback(d, s)
                          \/ \E turn \in NextTurns : TakeNextTurn(d, turn)
  \/ \E w \in Workers : RollupStep(w)
  \/ Restart

\* The loop is a task that ticks for as long as the process lives.
Spec == Init /\ [][Next]_vars /\ WF_vars(RollupStep(Loop))

-----------------------------------------------------------------------------
\* Feedback the user gave before the decision came due, and left as it is,
\* decides the reward whatever the log and the next turn say (reward_for:
\* "explicit feedback, hard failures, the next-turn signal"), whichever rollup
\* scores the decision and however rollups overlap.
EarlyFeedbackCounts ==
  \A d \in Decisions :
    outcome[d] # Unscored /\ early[d] # "none" =>
      outcome[d].reward = IF early[d] = "approved" THEN 2 ELSE -2

\* When the database stops failing, the loop ends up with every due decision
\* scored and with the statistics of just the window in memory: what two
\* overlapping rollups wrote over each other, an upsert that failed, a restart
\* and an arm that fell out of the window are all made good by a later tick.
ArmsCatchUp ==
  <>[](/\ \A d \in Decisions : ~IsPending(d)
       /\ memory = ArmStats)
=============================================================================

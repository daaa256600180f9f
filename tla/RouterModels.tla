---------------------------- MODULE RouterModels ----------------------------
(***************************************************************************)
(* The trained models an admin gives the auto router: classifiers and cost *)
(* models, kept in router_models, one row per name and version and at most *)
(* one active row per kind, and the one of each kind the process has in    *)
(* memory.  Uploading, activating, reloading and deactivating each take    *)
(* several steps, and no lock spans the table and the memory.              *)
(*                                                                         *)
(* Weights are a record with their kind and the slot (name and version)    *)
(* they are stored under; loading checks that they fit the kind.           *)
(***************************************************************************)
EXTENDS Naturals, SequencesExt

CONSTANTS Operators,     \* handlers of the four routes
          Slots,
          Weights,       \* what may be uploaded: records with kind and slot
          WeightsFile,   \* kind -> the set of weights its configured file holds
          MaxOps         \* bound: operations begun

Kinds == {"learned_lr", "cost_lr"}
BothKinds == <<"learned_lr", "cost_lr">>   \* the order in which they are loaded

ASSUME ModelsAssumption ==
  /\ \A w \in Weights : w.kind \in Kinds /\ w.slot \in Slots
  /\ DOMAIN WeightsFile = Kinds
  /\ \A k \in Kinds : \A v, w \in WeightsFile[k] : v = w /\ w.kind = k

VARIABLES rows,      \* slot -> its row of router_models: {} or {[kind, weights, active]}
          loaded,    \* kind -> learned_model, cost_model: {} or {weights}
          jobs,      \* operator -> the operation it has in flight
          opsSent,
          settled    \* history: the kinds whose memory was last set by a clean
                     \* operation, and no write has concerned since

modelVars == <<rows, loaded, jobs, opsSent, settled>>

NoJob == [pc |-> "idle", w |-> {}, kinds |-> <<>>, activate |-> FALSE, clean |-> TRUE]

Busy == {a \in Operators : jobs[a].pc # "idle"}

ModelsInit ==
  /\ rows = [s \in Slots |-> {}]
  /\ loaded = WeightsFile
  /\ jobs = [a \in Operators |-> NoJob]
  /\ opsSent = 0
  /\ settled = Kinds

-----------------------------------------------------------------------------
\* The table.
ActiveOf(k) == UNION {{row \in rows[s] : row.active /\ row.kind = k} : s \in Slots}

\* Mutant: the active row of the other kind is switched off as well.
WithActiveAlone(s) ==
  [u \in Slots |-> {[row EXCEPT !.active = (u = s)] : row \in rows[u]}]

\* One transaction: every other row of the kind is switched off.
WithActive(s) ==
  [u \in Slots |-> {IF u = s THEN [row EXCEPT !.active = TRUE]
                    ELSE IF \E r \in rows[s] : r.kind = row.kind
                         THEN [row EXCEPT !.active = FALSE] ELSE row : row \in rows[u]}]

WithoutActive(ks) ==
  [u \in Slots |-> {IF row.kind \in ks THEN [row EXCEPT !.active = FALSE] ELSE row :
                      row \in rows[u]}]

\* A row that is there keeps its kind and stays active or not.
Upserted(w) ==
  [rows EXCEPT ![w.slot] =
     IF @ = {} THEN {[kind |-> w.kind, weights |-> w, active |-> FALSE]}
     ELSE {[row EXCEPT !.weights = w] : row \in @}]

\* What the next load of a kind finds: the active row's weights, else the file.
Stored(k) ==
  IF ActiveOf(k) # {} THEN {row.weights : row \in ActiveOf(k)} ELSE WeightsFile[k]

Fits(found, k) == \A w \in found : w.kind = k

-----------------------------------------------------------------------------
\* Operations begin.  An operation is clean while it is the only one in flight
\* and its row is of the kind of its weights.
BeginJob(a, job) ==
  /\ jobs[a].pc = "idle"
  /\ opsSent < MaxOps
  /\ opsSent' = opsSent + 1
  /\ jobs' = [b \in Operators |->
                IF b = a THEN [job EXCEPT !.clean = (Busy = {})]
                ELSE [jobs[b] EXCEPT !.clean = FALSE]]
  /\ UNCHANGED <<rows, loaded, settled>>

\* upload_router_model; weights of neither kind are answered 400.
Upload(a, w, activate) ==
  BeginJob(a, [NoJob EXCEPT !.pc = "storing", !.w = {w}, !.activate = activate])

Activate(a, w) == BeginJob(a, [NoJob EXCEPT !.pc = "switching", !.w = {w}])

Reload(a) == BeginJob(a, [NoJob EXCEPT !.pc = "reading", !.kinds = BothKinds])

Deactivate(a, ks) == BeginJob(a, [NoJob EXCEPT !.pc = "stopping", !.kinds = ks])

\* A write of the table that concerns some kinds; they are not settled any more.
Write(table, kinds) ==
  /\ rows' = table
  /\ settled' = settled \ kinds

StoreRow(w) == Write(Upserted(w), {row.kind : row \in {r \in rows[w.slot] : r.active}})
SwitchTo(s) == Write(WithActive(s), {row.kind : row \in rows[s]})
SwitchOff(kinds) == Write(WithoutActive(kinds), kinds)

Ends(a) == jobs' = [jobs EXCEPT ![a] = NoJob]

StoreUpload(a) ==
  /\ jobs[a].pc = "storing"
  /\ \E w \in jobs[a].w :
       /\ StoreRow(w)
       /\ IF jobs[a].activate
          THEN jobs' = [jobs EXCEPT ![a].pc = "activating",
                                    ![a].clean = @ /\ \A row \in rows[w.slot] : row.kind = w.kind]
          ELSE Ends(a)
  /\ UNCHANGED <<loaded, opsSent>>

\* The upload activates its row and puts its weights into memory as they came.
ActivateUpload(a) ==
  /\ jobs[a].pc = "activating"
  /\ \E w \in jobs[a].w :
       /\ SwitchTo(w.slot)
       /\ jobs' = [jobs EXCEPT ![a].pc = "installing", ![a].kinds = <<w.kind>>]
  /\ UNCHANGED <<loaded, opsSent>>

\* activate_router_model: 404 without the row, else its kind is loaded anew.
SwitchRow(a) ==
  /\ jobs[a].pc = "switching"
  /\ \E w \in jobs[a].w :
       IF rows[w.slot] = {} THEN Ends(a) /\ UNCHANGED <<rows, settled>>
       ELSE \E row \in rows[w.slot] :
              /\ SwitchTo(w.slot)
              /\ jobs' = [jobs EXCEPT ![a].pc = "reading", ![a].kinds = <<row.kind>>]
  /\ UNCHANGED <<loaded, opsSent>>

StopRows(a) ==
  /\ jobs[a].pc = "stopping"
  /\ SwitchOff(ToSet(jobs[a].kinds))
  /\ jobs' = [jobs EXCEPT ![a].pc = "installing", ![a].w = {}]
  /\ UNCHANGED <<loaded, opsSent>>

ReadStored(a) ==
  /\ jobs[a].pc = "reading"
  /\ jobs' = [jobs EXCEPT ![a].pc = "loading", ![a].w = Stored(Head(jobs[a].kinds))]
  /\ UNCHANGED <<rows, loaded, opsSent, settled>>

\* Memory of one kind is set; a kind is settled when the operation was clean
\* and left in memory what the next load finds.
SetMemory(a, k) ==
  /\ loaded' = [loaded EXCEPT ![k] = jobs[a].w]
  /\ settled' = IF jobs[a].clean /\ (jobs[a].w # {} \/ WeightsFile[k] = {})
                THEN settled \cup {k} ELSE settled \ {k}

\* On to the next kind, or done.
Advance(a, pc) ==
  IF Len(jobs[a].kinds) = 1 THEN Ends(a)
  ELSE jobs' = [jobs EXCEPT ![a].pc = pc, ![a].kinds = Tail(@)]

Install(a) ==
  /\ jobs[a].pc = "installing"
  /\ SetMemory(a, Head(jobs[a].kinds))
  /\ Advance(a, "installing")
  /\ UNCHANGED <<rows, opsSent>>

\* reload_learned_model, reload_cost_model: weights that do not parse end the
\* operation and leave the memory as it was.
LoadModel(a) ==
  /\ jobs[a].pc = "loading"
  /\ LET k == Head(jobs[a].kinds) IN
     IF Fits(jobs[a].w, k)
     THEN SetMemory(a, k) /\ Advance(a, "reading")
     ELSE Ends(a) /\ UNCHANGED <<loaded, settled>>
  /\ UNCHANGED <<rows, opsSent>>

\* The handler ends in an await: the statement failed, or it took effect and
\* its answer was lost.
StatementFails(a) ==
  /\ jobs[a].pc \in {"storing", "activating", "switching", "stopping", "reading"}
  /\ Ends(a)
  /\ \/ UNCHANGED <<rows, settled>>
     \/ jobs[a].pc = "storing" /\ \E w \in jobs[a].w : StoreRow(w)
     \/ jobs[a].pc \in {"activating", "switching"} /\ \E w \in jobs[a].w : SwitchTo(w.slot)
     \/ jobs[a].pc = "stopping"
        /\ SwitchOff(ToSet(jobs[a].kinds))
  /\ UNCHANGED <<loaded, opsSent>>

\* A new process loads both kinds; one it cannot read or parse stays unloaded.
ModelsRestart ==
  /\ \E readable \in SUBSET Kinds :
       LET found == [k \in Kinds |-> IF k \in readable /\ Fits(Stored(k), k) THEN Stored(k) ELSE {}]
       IN  /\ loaded' = found
           /\ settled' = {k \in Kinds : found[k] = Stored(k)}
  /\ jobs' = [a \in Operators |-> NoJob]
  /\ UNCHANGED <<rows, opsSent>>

ModelStep(a) ==
  \/ StoreUpload(a) \/ ActivateUpload(a) \/ SwitchRow(a) \/ StopRows(a)
  \/ ReadStored(a) \/ Install(a) \/ LoadModel(a) \/ StatementFails(a)

BeginOperation(a) ==
  \/ \E w \in Weights : (\E activate \in BOOLEAN : Upload(a, w, activate)) \/ Activate(a, w)
  \/ Reload(a)
  \/ \E ks \in {BothKinds} \cup {<<k>> : k \in Kinds} : Deactivate(a, ks)

-----------------------------------------------------------------------------
\* Between operations the memory of a kind is what the next start would load,
\* provided the operation that last set it ran alone, to its end, after the
\* last change of the active row, and did not store its weights in a row of the
\* other kind.  Failed loads keep what is there, and activating one kind leaves
\* the other alone.
QuietModelsAgree ==
  Busy = {} => \A k \in settled : loaded[k] = Stored(k)
=============================================================================

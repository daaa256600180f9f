--------------------------- MODULE GatewaySettings ---------------------------
(***************************************************************************)
(* The gateway-wide settings an admin edits while the gateway runs.        *)
(*                                                                         *)
(* One document is kept in the one row of gateway_settings.  The process   *)
(* keeps what follows from it in nine places of its own: six atomics, the  *)
(* auto router, the list of dropped tier models and the document itself.   *)
(* PUT /admin/settings saves the row first and then writes the nine places *)
(* one after the other; no lock spans them, so two PUTs interleave.        *)
(*                                                                         *)
(* A document stands for everything that follows from it: a place holds    *)
(* the document its value was computed from.  Boot is the empty document,  *)
(* under which every place has the value of the boot configuration.        *)
(***************************************************************************)
EXTENDS Naturals, Sequences

CONSTANTS Admins,       \* handlers of PUT /admin/settings
          Docs,         \* the documents validate() accepts
          Boot,         \* the empty document
          Places,       \* what apply_gateway_settings writes, in its order
          MaxPuts,      \* bound: how many PUTs are sent
          MaxRestarts   \* bound: how often the process restarts

ASSUME SettingsAssumption ==
  /\ Boot \in Docs
  /\ Places \in Seq(STRING) /\ Places # <<>>

VARIABLES row,        \* gateway_settings.settings
          live,       \* place -> the document its value follows from
          puts,       \* admin -> the PUT it has in flight
          putsSent, restarts,
          stored,     \* history: the documents the row has held
          inStep      \* history: the last writer of live ran alone

settingsVars == <<row, live, puts, putsSent, restarts, stored, inStep>>

Place == {Places[i] : i \in DOMAIN Places}

NoPut == [pc |-> "idle", doc |-> Boot, next |-> 1, alone |-> TRUE]

InFlight == {a \in Admins : puts[a].pc # "idle"}

SettingsInit ==
  /\ row \in Docs
  /\ live = [p \in Place |-> row]
  /\ puts = [a \in Admins |-> NoPut]
  /\ putsSent = 0
  /\ restarts = 0
  /\ stored = {row, Boot}
  /\ inStep = TRUE

-----------------------------------------------------------------------------
\* The body parses and validates; anything else is answered 400 and changes
\* nothing.  From here on every PUT in flight shares the process with this one.
PutSettings(a, doc) ==
  /\ puts[a].pc = "idle"
  /\ putsSent < MaxPuts
  /\ putsSent' = putsSent + 1
  /\ puts' = [b \in Admins |->
                IF b = a THEN [pc |-> "saving", doc |-> doc, next |-> 1,
                               alone |-> InFlight = {}]
                ELSE [puts[b] EXCEPT !.alone = FALSE]]
  /\ UNCHANGED <<row, live, restarts, stored, inStep>>

SetRow(doc) ==
  /\ row' = doc
  /\ stored' = stored \cup {doc}

Saved(a) ==
  /\ puts[a].pc = "saving"
  /\ SetRow(puts[a].doc)
  /\ puts' = [puts EXCEPT ![a].pc = "applying"]
  /\ UNCHANGED <<live, putsSent, restarts, inStep>>

\* Mutant: the error of the save is not looked at.
SaveFailureIgnored(a) ==
  /\ puts[a].pc = "saving"
  /\ puts' = [puts EXCEPT ![a].pc = "applying"]
  /\ UNCHANGED <<row, live, putsSent, restarts, stored, inStep>>

\* The handler ends in the await: the statement failed, or it was committed
\* and its answer (or the client, and the handler with it) was lost.
SaveFails(a) ==
  /\ puts[a].pc = "saving"
  /\ puts' = [puts EXCEPT ![a] = NoPut]
  /\ \/ UNCHANGED <<row, stored, inStep>>
     \/ SetRow(puts[a].doc) /\ inStep' = FALSE
  /\ UNCHANGED <<live, putsSent, restarts>>

\* Mutant: the last place is never written.
ApplyAllButLast(a) ==
  /\ puts[a].pc = "applying"
  /\ IF puts[a].next = Len(Places)
     THEN puts' = [puts EXCEPT ![a] = NoPut] /\ inStep' = puts[a].alone /\ UNCHANGED live
     ELSE /\ live' = [live EXCEPT ![Places[puts[a].next]] = puts[a].doc]
          /\ puts' = [puts EXCEPT ![a].next = @ + 1] /\ UNCHANGED inStep
  /\ UNCHANGED <<row, putsSent, restarts, stored>>

\* apply_gateway_settings has no await: once begun it ends, or the process does.
Apply(a) ==
  /\ puts[a].pc = "applying"
  /\ live' = [live EXCEPT ![Places[puts[a].next]] = puts[a].doc]
  /\ IF puts[a].next = Len(Places)
     THEN puts' = [puts EXCEPT ![a] = NoPut] /\ inStep' = puts[a].alone
     ELSE puts' = [puts EXCEPT ![a].next = @ + 1] /\ UNCHANGED inStep
  /\ UNCHANGED <<row, putsSent, restarts, stored>>

\* A new process starts from the boot configuration and applies the row, unless
\* the row cannot be read.  What the old one had in flight is gone.
Load(doc) == live' = [p \in Place |-> doc]

Restart ==
  /\ restarts < MaxRestarts
  /\ restarts' = restarts + 1
  /\ \/ Load(row) /\ inStep' = TRUE
     \/ Load(Boot) /\ inStep' = (row = Boot)
  /\ puts' = [a \in Admins |-> NoPut]
  /\ UNCHANGED <<row, putsSent, stored>>

Putting == \E a \in Admins : \/ \E doc \in Docs : PutSettings(a, doc)
                             \/ Saved(a)
                             \/ SaveFails(a)
                             \/ Apply(a)

SettingsNext == Putting \/ Restart

SettingsSpec == SettingsInit /\ [][SettingsNext]_settingsVars

-----------------------------------------------------------------------------
\* The running gateway never follows a document that was not stored before:
\* put_settings persists first, so that a database error leaves the gateway as
\* it was, however many PUTs fail, overlap or are cut off by a restart.
RunningSettingsWereStored == \A p \in Place : live[p] \in stored

\* Between two PUTs the nine places and the row follow one document, provided
\* the last PUT ran alone and its answer arrived, or the last start read the
\* row.  One PUT that runs alone repairs whatever overlapping ones left behind.
QuietSettingsAgree ==
  InFlight = {} /\ inStep => \A p \in Place : live[p] = row
==============================================================================

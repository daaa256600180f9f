------------------------ MODULE RunningGatewayProofs ------------------------
(***************************************************************************)
(* Theorems about the gateway while admins change it, for any number of    *)
(* admins, documents, places, readers, requests, slots and weights, and    *)
(* any TTL and delay: the gateway's settings, one organization's, the      *)
(* requests that are captured as both allow; the settings beside the       *)
(* trained models, which keep promises of their own; and, for any requests, *)
(* replies, catalog and tier lists, how the models in memory classify and  *)
(* which tier serves.                                                      *)
(***************************************************************************)
EXTENDS PayloadCapture, RunningGateway, FiniteSetTheorems, SequenceTheorems, TLAPS

-----------------------------------------------------------------------------
(* The gateway-wide settings.                                              *)

Put == [pc : {"idle", "saving", "applying"}, doc : Docs, next : DOMAIN Places,
        alone : BOOLEAN]

SettingsTypeOK ==
    /\ row \in Docs
    /\ live \in [Place -> Docs]
    /\ puts \in [Admins -> Put]
    /\ stored \subseteq Docs
    /\ inStep \in BOOLEAN

\* The row is in its history, and so is what a PUT that got past the save is
\* about to write into the process.
HistoryKept ==
    /\ {row, Boot} \subseteq stored
    /\ \A a \in Admins : puts[a].pc = "applying" => puts[a].doc \in stored

\* A PUT that is alone has no other beside it.
AloneIsAlone ==
    \A a, b \in Admins :
        a # b /\ puts[a].pc # "idle" /\ puts[a].alone => puts[b].pc = "idle"

\* While a PUT that is alone applies its document, the row holds it and so do
\* the places it has come by.
WrittenSoFar ==
    \A a \in Admins :
        /\ puts[a].pc = "saving" => puts[a].next = 1
        /\ puts[a].pc = "applying" /\ puts[a].alone =>
              /\ row = puts[a].doc
              /\ \A i \in DOMAIN Places :
                    i < puts[a].next => live[Places[i]] = puts[a].doc

\* In step, the places follow the row until a PUT begins to apply; those that
\* are still being saved, or fail to be, have touched nothing.
StepKept ==
    inStep /\ (\A a \in Admins : puts[a].pc # "applying") =>
        \A p \in Place : live[p] = row

SettingsInv ==
    /\ SettingsTypeOK
    /\ HistoryKept
    /\ RunningSettingsWereStored
    /\ AloneIsAlone
    /\ WrittenSoFar
    /\ StepKept

-----------------------------------------------------------------------------
\* The places are numbered from 1, at least one of them.
LEMMA PlacesNumbered ==
    /\ Len(Places) \in Nat \ {0}
    /\ DOMAIN Places = 1 .. Len(Places)
    /\ \A i \in DOMAIN Places : Places[i] \in Place
    /\ \A p \in Place : \E i \in DOMAIN Places : p = Places[i]
    BY SettingsAssumption, LenProperties, EmptySeq DEF Place

\* An idle admin's record is one of the records of a PUT.
LEMMA NoPutIsPut == NoPut \in Put
    BY SettingsAssumption, PlacesNumbered DEF NoPut, Put

\* The process starts in step with a row it has read.
LEMMA SettingsStart == SettingsInit => SettingsInv
    <1> SUFFICES ASSUME SettingsInit PROVE SettingsInv
        OBVIOUS
    <1>1. SettingsTypeOK
        BY NoPutIsPut, SettingsAssumption DEF SettingsInit, SettingsTypeOK
    <1>2. \A a \in Admins : puts[a].pc = "idle"
        BY DEF SettingsInit, NoPut
    <1>3. QED
        BY <1>1, <1>2 DEF SettingsInit, SettingsInv, HistoryKept, AloneIsAlone,
           RunningSettingsWereStored, WrittenSoFar, StepKept

\* A PUT that comes in ends the solitude of every other.
LEMMA PutSettingsKeeps ==
    ASSUME SettingsInv, NEW a \in Admins, NEW doc \in Docs, PutSettings(a, doc)
    PROVE  SettingsInv'
    <1>0. /\ UNCHANGED <<row, live, stored, inStep>>
          /\ puts \in [Admins -> Put] /\ puts[a].pc = "idle"
        BY DEF SettingsInv, SettingsTypeOK, PutSettings
    <1>1. PICK solo \in BOOLEAN :
             /\ solo => InFlight = {}
             /\ puts'[a] = [pc |-> "saving", doc |-> doc, next |-> 1, alone |-> solo]
        <2>1. puts'[a] = [pc |-> "saving", doc |-> doc, next |-> 1,
                          alone |-> InFlight = {}]
            BY DEF PutSettings
        <2>2. (InFlight = {}) \in BOOLEAN
            OBVIOUS
        <2>3. QED
            BY <2>1, <2>2, Zenon
    <1>2. \A b \in Admins \ {a} : puts'[b] = [puts[b] EXCEPT !.alone = FALSE]
        BY DEF PutSettings
    <1>3. /\ puts'[a].pc = "saving" /\ puts'[a].next = 1
          /\ puts'[a].alone => \A b \in Admins : puts[b].pc = "idle"
        BY <1>1 DEF InFlight
    <1>4. puts'[a] \in Put
        BY <1>1, PlacesNumbered DEF Put
    <1>5. \A b \in Admins \ {a} :
             /\ puts'[b] \in Put /\ puts'[b].alone = FALSE
             /\ puts'[b].pc = puts[b].pc /\ puts'[b].doc = puts[b].doc
             /\ puts'[b].next = puts[b].next
        <2>1. SUFFICES ASSUME NEW b \in Admins \ {a}
              PROVE  /\ puts'[b] \in Put /\ puts'[b].alone = FALSE
                     /\ puts'[b].pc = puts[b].pc /\ puts'[b].doc = puts[b].doc
                     /\ puts'[b].next = puts[b].next
            BY Zenon
        <2>2. PICK put \in Put : put = puts[b]
            BY <1>0
        <2>3. puts'[b] = [put EXCEPT !.alone = FALSE]
            BY <1>2, <2>2
        <2>4. QED
            BY <2>2, <2>3 DEF Put
    <1>6. SettingsTypeOK'
        <2>1. puts' = [b \in Admins |-> puts'[b]]
            BY DEF PutSettings
        <2>2. \A b \in Admins : puts'[b] \in Put
            BY <1>4, <1>5
        <2>3. puts' \in [Admins -> Put]
            BY <2>1, <2>2
        <2>4. QED
            BY <1>0, <2>3 DEF SettingsInv, SettingsTypeOK
    <1>7. HistoryKept' /\ RunningSettingsWereStored'
        BY <1>0, <1>3, <1>5 DEF SettingsInv, HistoryKept, RunningSettingsWereStored
    <1>8. AloneIsAlone'
        BY <1>3, <1>5 DEF AloneIsAlone
    <1>9. WrittenSoFar' /\ StepKept'
        BY <1>0, <1>3, <1>5 DEF SettingsInv, WrittenSoFar, StepKept
    <1>10. QED
        BY <1>6, <1>7, <1>8, <1>9 DEF SettingsInv

\* A PUT whose save returned may apply what the row now holds.
LEMMA SavedKeeps ==
    ASSUME SettingsInv, NEW a \in Admins, Saved(a)
    PROVE  SettingsInv'
    <1>0. /\ UNCHANGED <<live, inStep>> /\ puts \in [Admins -> Put]
          /\ puts[a].pc = "saving" /\ puts[a].next = 1
          /\ row' = puts[a].doc /\ stored' = stored \cup {puts[a].doc}
        BY DEF SettingsInv, SettingsTypeOK, WrittenSoFar, Saved, SetRow
    <1>1. puts' = [puts EXCEPT ![a].pc = "applying"]
        BY DEF Saved
    <1>2. /\ puts'[a].pc = "applying" /\ puts'[a].doc = puts[a].doc
          /\ puts'[a].alone = puts[a].alone /\ puts'[a].next = 1
          /\ \A b \in Admins \ {a} : puts'[b] = puts[b]
          /\ puts' \in [Admins -> Put]
        BY <1>0, <1>1 DEF Put
    <1>3. SettingsTypeOK'
        BY <1>0, <1>2 DEF SettingsInv, SettingsTypeOK, Put
    <1>4. HistoryKept' /\ RunningSettingsWereStored'
        BY <1>0, <1>2 DEF SettingsInv, HistoryKept, RunningSettingsWereStored
    <1>5. AloneIsAlone' /\ StepKept'
        BY <1>0, <1>2 DEF SettingsInv, AloneIsAlone, StepKept
    <1>6. WrittenSoFar'
        BY <1>0, <1>2, PlacesNumbered DEF SettingsInv, WrittenSoFar, AloneIsAlone
    <1>7. QED
        BY <1>3, <1>4, <1>5, <1>6 DEF SettingsInv

\* A PUT that ends in its save leaves the process alone; if the row may have
\* changed, the process is out of step.
LEMMA SaveFailsKeeps ==
    ASSUME SettingsInv, NEW a \in Admins, SaveFails(a)
    PROVE  SettingsInv'
    <1>0. /\ UNCHANGED live /\ puts \in [Admins -> Put] /\ puts[a].pc = "saving"
          /\ puts[a].doc \in Docs /\ stored \subseteq stored'
          /\ \/ UNCHANGED <<row, stored, inStep>>
             \/ /\ row' = puts[a].doc /\ stored' = stored \cup {puts[a].doc}
                /\ inStep' = FALSE
        BY DEF SettingsInv, SettingsTypeOK, SaveFails, SetRow, Put
    <1>1. puts' = [puts EXCEPT ![a] = NoPut]
        BY DEF SaveFails
    <1>2. /\ puts'[a].pc = "idle"
          /\ \A b \in Admins \ {a} : puts'[b] = puts[b]
          /\ puts' \in [Admins -> Put]
        BY <1>0, <1>1, NoPutIsPut DEF NoPut
    <1>3. SettingsTypeOK'
        BY <1>0, <1>2 DEF SettingsInv, SettingsTypeOK
    <1>4. HistoryKept' /\ RunningSettingsWereStored'
        BY <1>0, <1>2 DEF SettingsInv, HistoryKept, RunningSettingsWereStored
    <1>5. AloneIsAlone' /\ StepKept'
        BY <1>0, <1>2 DEF SettingsInv, AloneIsAlone, StepKept
    <1>6. WrittenSoFar'
        BY <1>0, <1>2 DEF SettingsInv, WrittenSoFar, AloneIsAlone
    <1>7. QED
        BY <1>3, <1>4, <1>5, <1>6 DEF SettingsInv

\* A PUT writes one place; when it was alone and this was the last one, every
\* place follows the row.
LEMMA ApplyKeeps ==
    ASSUME SettingsInv, NEW a \in Admins, Apply(a)
    PROVE  SettingsInv'
    <1> DEFINE here == Places[puts[a].next]
               doc == puts[a].doc
               last == puts[a].next = Len(Places)
    <1>0. /\ UNCHANGED <<row, stored>> /\ puts \in [Admins -> Put]
          /\ puts[a].pc = "applying" /\ doc \in Docs /\ doc \in stored
          /\ puts[a].next \in DOMAIN Places /\ puts[a].alone \in BOOLEAN
          /\ live \in [Place -> Docs] /\ here \in Place
        BY PlacesNumbered DEF SettingsInv, SettingsTypeOK, HistoryKept, Apply, Put
    <1>1. live' = [live EXCEPT ![here] = doc]
        BY DEF Apply
    <1>2. live' \in [Place -> Docs] /\ RunningSettingsWereStored'
        BY <1>0, <1>1 DEF SettingsInv, RunningSettingsWereStored
    <1>3. CASE last
        <2>1. /\ puts' = [puts EXCEPT ![a] = NoPut]
              /\ inStep' = puts[a].alone
            BY <1>3 DEF Apply
        <2>2. /\ puts'[a].pc = "idle"
              /\ \A b \in Admins \ {a} : puts'[b] = puts[b]
              /\ puts' \in [Admins -> Put]
            BY <1>0, <2>1, NoPutIsPut DEF NoPut
        <2>3. SettingsTypeOK' /\ HistoryKept' /\ AloneIsAlone'
            BY <1>0, <1>2, <2>1, <2>2 DEF SettingsInv, SettingsTypeOK,
               HistoryKept, AloneIsAlone
        <2>4. WrittenSoFar'
            BY <1>0, <1>1, <2>2 DEF SettingsInv, WrittenSoFar, AloneIsAlone
        <2>5. StepKept'
            <3>1. SUFFICES ASSUME puts[a].alone PROVE \A p \in Place : live'[p] = row
                BY <1>0, <2>1 DEF StepKept
            <3>2. /\ row = doc
                  /\ \A i \in DOMAIN Places :
                        i < puts[a].next => live[Places[i]] = doc
                BY <1>0, <3>1 DEF SettingsInv, WrittenSoFar
            <3>3. \A i \in DOMAIN Places : i < Len(Places) \/ i = Len(Places)
                BY PlacesNumbered
            <3>4. \A i \in DOMAIN Places : live'[Places[i]] = doc
                BY <1>0, <1>1, <1>3, <3>2, <3>3, PlacesNumbered
            <3>5. QED
                BY <3>2, <3>4, PlacesNumbered
        <2>6. QED
            BY <1>2, <2>3, <2>4, <2>5 DEF SettingsInv
    <1>4. CASE ~last
        <2>1. /\ puts' = [puts EXCEPT ![a].next = @ + 1]
              /\ UNCHANGED inStep
            BY <1>4 DEF Apply
        <2>2. puts[a].next + 1 \in DOMAIN Places
            BY <1>0, <1>4, PlacesNumbered
        <2>3. /\ puts'[a].pc = "applying" /\ puts'[a].doc = doc
              /\ puts'[a].alone = puts[a].alone
              /\ puts'[a].next = puts[a].next + 1
              /\ \A b \in Admins \ {a} : puts'[b] = puts[b]
              /\ puts' \in [Admins -> Put]
            BY <1>0, <2>1, <2>2 DEF Put
        <2>4. SettingsTypeOK' /\ HistoryKept' /\ AloneIsAlone' /\ StepKept'
            BY <1>0, <1>2, <2>1, <2>3 DEF SettingsInv, SettingsTypeOK,
               HistoryKept, AloneIsAlone, StepKept
        <2>5. WrittenSoFar'
            <3>1. ASSUME puts[a].alone, NEW i \in DOMAIN Places, i < puts[a].next + 1
                  PROVE  live'[Places[i]] = doc
                <4>1. i < puts[a].next \/ i = puts[a].next
                    BY <1>0, <3>1, PlacesNumbered
                <4>2. QED
                    BY <1>0, <1>1, <3>1, <4>1, PlacesNumbered
                       DEF SettingsInv, WrittenSoFar
            <3>2. puts[a].alone => row = doc
                BY <1>0 DEF SettingsInv, WrittenSoFar
            <3>3. ASSUME NEW b \in Admins \ {a}, puts[b].pc = "applying"
                  PROVE  ~puts[b].alone
                BY <1>0, <3>3 DEF SettingsInv, AloneIsAlone
            <3>4. QED
                BY <1>0, <2>3, <3>1, <3>2, <3>3 DEF SettingsInv, WrittenSoFar
        <2>6. QED
            BY <1>2, <2>4, <2>5 DEF SettingsInv
    <1>5. QED
        BY <1>3, <1>4

\* A new process follows the row, or the boot configuration when it cannot
\* read it, and has no PUT in flight.
LEMMA RestartKeeps ==
    ASSUME SettingsInv, Restart
    PROVE  SettingsInv'
    <1>1. /\ UNCHANGED <<row, stored>> /\ row \in Docs /\ {row, Boot} \subseteq stored
          /\ stored \subseteq Docs
          /\ puts' = [a \in Admins |-> NoPut]
        BY DEF SettingsInv, SettingsTypeOK, HistoryKept, Restart
    <1>2. \/ live' = [p \in Place |-> row] /\ inStep' = TRUE
          \/ live' = [p \in Place |-> Boot] /\ inStep' = (row = Boot)
        BY DEF Restart, Load
    <1>3. /\ live' \in [Place -> Docs] /\ RunningSettingsWereStored'
          /\ inStep' \in BOOLEAN
          /\ inStep' => \A p \in Place : live'[p] = row
        BY <1>1, <1>2 DEF RunningSettingsWereStored
    <1>4. puts' \in [Admins -> Put] /\ \A a \in Admins : puts'[a].pc = "idle"
        BY <1>1, NoPutIsPut DEF NoPut
    <1>5. QED
        BY <1>1, <1>3, <1>4 DEF SettingsInv, SettingsTypeOK, HistoryKept,
           AloneIsAlone, WrittenSoFar, StepKept

\* Every step of the settings keeps the invariant.
LEMMA SettingsStepKeeps == SettingsInv /\ [SettingsNext]_settingsVars => SettingsInv'
<1> SUFFICES ASSUME SettingsInv, [SettingsNext]_settingsVars PROVE SettingsInv'
    OBVIOUS
<1>1. CASE UNCHANGED settingsVars
    BY <1>1 DEF settingsVars, SettingsInv, SettingsTypeOK, HistoryKept,
       RunningSettingsWereStored, AloneIsAlone, WrittenSoFar, StepKept
<1>2. QED
    BY <1>1, PutSettingsKeeps, SavedKeeps, SaveFailsKeeps, ApplyKeeps, RestartKeeps
       DEF SettingsNext, Putting

-----------------------------------------------------------------------------
\* The inductive invariant of the settings.
THEOREM SettingsInvariant == SettingsSpec => []SettingsInv
    BY SettingsStart, SettingsStepKeeps, PTL DEF SettingsSpec

\* No place of the process ever follows a document that the database did not
\* hold first (put_settings persists before it applies), with any number of
\* PUTs failing, overlapping or cut off by restarts.
THEOREM RunningSettingsStored == SettingsSpec => []RunningSettingsWereStored
    BY SettingsInvariant, PTL DEF SettingsInv

\* A PUT that ran alone leaves every place and the row with one document,
\* whatever overlapping PUTs had left behind.
THEOREM QuietSettingsFollowTheRow == SettingsSpec => []QuietSettingsAgree
<1>1. SettingsInv => QuietSettingsAgree
    BY DEF SettingsInv, StepKept, QuietSettingsAgree, InFlight
<1>2. QED
    BY <1>1, SettingsInvariant, PTL

-----------------------------------------------------------------------------
(* One organization's settings and their cache.                            *)

Version == [capture : BOOLEAN, until : Nat, gone : BOOLEAN]

Read == [pc : {"idle", "missed", "fetched", "served", "none"}, ver : Nat, at : Nat]

CacheEntry == [ver : Nat, at : Nat]

OrgTypeOK ==
    /\ versions \in Seq(Version) /\ versions # <<>>
    /\ cache = <<>> \/ \E e \in CacheEntry : cache = <<e>>
    /\ reads \in [Readers -> Read]
    /\ now \in Nat /\ now <= MaxTime

\* A version that was read in time can be no older than the delay, and an
\* entry was stored at most that long after its version was replaced.
OrgInv ==
    /\ OrgTypeOK
    /\ versions[Row].until = Never
    /\ \A r \in Readers :
          /\ reads[r].at <= now
          /\ reads[r].pc = "fetched" =>
                /\ reads[r].ver \in DOMAIN versions
                /\ reads[r].at <= versions[reads[r].ver].until
                /\ now <= reads[r].at + MaxDelay
    /\ cache # <<>> =>
          /\ cache[1].ver \in DOMAIN versions
          /\ cache[1].at <= now
          /\ cache[1].at <= versions[cache[1].ver].until + MaxDelay

\* The row is the last of at least one version.
LEMMA VersionsNumbered ==
    ASSUME OrgTypeOK
    PROVE  /\ Row \in Nat \ {0}
           /\ DOMAIN versions = 1 .. Row
           /\ \A n \in 1 .. Row : versions[n] \in Version
    BY EmptySeq, LenProperties, ElementOfSeq DEF OrgTypeOK, Row

\* Replacing the row ends the current version now and leaves the others alone.
LEMMA ReplaceGrows ==
    ASSUME OrgInv, NEW allowed \in BOOLEAN, NEW gone \in BOOLEAN,
           Replace(allowed, gone)
    PROVE  /\ versions' \in Seq(Version) /\ versions' # <<>>
           /\ Row' = Row + 1
           /\ versions'[Row + 1].until = Never
           /\ \A n \in 1 .. Row :
                 /\ versions'[n].capture = versions[n].capture
                 /\ versions'[n].until = IF n = Row THEN now ELSE versions[n].until
    <1> DEFINE old == [versions EXCEPT ![Row].until = now]
               new == [capture |-> allowed, until |-> Never, gone |-> gone]
    <1>0. /\ versions \in Seq(Version) /\ now \in Nat
          /\ Row \in Nat \ {0} /\ DOMAIN versions = 1 .. Row
          /\ \A n \in 1 .. Row : versions[n] \in Version
        BY VersionsNumbered DEF OrgInv, OrgTypeOK
    <1>1. Row \in 1 .. Row
        BY <1>0
    <1>2. [versions[Row] EXCEPT !.until = now] \in Version
        BY <1>0, <1>1 DEF Version
    <1>3. old = [versions EXCEPT ![Row] = [versions[Row] EXCEPT !.until = now]]
        BY <1>0, <1>1
    <1>4. /\ old \in Seq(Version) /\ Len(old) = Row
          /\ \A n \in 1 .. Row :
                old[n] = IF n = Row THEN [versions[Row] EXCEPT !.until = now]
                                    ELSE versions[n]
        BY <1>0, <1>1, <1>2, <1>3, ExceptSeq DEF Row
    <1>5. new \in Version
        BY OrgAssumption DEF Version, Never
    <1>6. versions' = Append(old, new)
        BY DEF Replace
    <1> HIDE DEF old, new
    <1>7. /\ versions' \in Seq(Version) /\ versions' # <<>> /\ Len(versions') = Row + 1
          /\ versions'[Row + 1] = new
          /\ \A n \in 1 .. Row : versions'[n] = old[n]
        BY <1>0, <1>4, <1>5, <1>6, AppendProperties
    <1>8. versions'[Row + 1].until = Never
        BY <1>7 DEF new
    <1>9. /\ [versions[Row] EXCEPT !.until = now].capture = versions[Row].capture
          /\ [versions[Row] EXCEPT !.until = now].until = now
        BY <1>0, <1>1 DEF Version
    <1>10. \A n \in 1 .. Row :
             /\ versions'[n].capture = versions[n].capture
             /\ versions'[n].until = IF n = Row THEN now ELSE versions[n].until
        <2>1. TAKE n \in 1 .. Row
        <2>2. CASE n = Row
            BY <1>4, <1>7, <1>9, <2>2
        <2>3. CASE n # Row
            BY <1>4, <1>7, <2>3
        <2>4. QED
            BY <2>2, <2>3
    <1>11. Row' = Row + 1
        BY <1>7 DEF Row
    <1>12. QED
        BY <1>7, <1>8, <1>10, <1>11

\* The first version lasts and nobody has read it.
LEMMA OrgStart == OrgInit => OrgInv
    <1> SUFFICES ASSUME OrgInit PROVE OrgInv
        OBVIOUS
    <1>1. PICK allowed \in BOOLEAN :
            versions = <<[capture |-> allowed, until |-> Never, gone |-> FALSE]>>
        BY DEF OrgInit
    <1>2. [capture |-> allowed, until |-> Never, gone |-> FALSE] \in Version
        BY OrgAssumption DEF Version, Never
    <1>3. /\ versions \in Seq(Version) /\ versions # <<>> /\ Row = 1
          /\ versions[Row].until = Never
        BY <1>1, <1>2 DEF Row
    <1>4. NoRead \in Read /\ NoRead.pc = "idle" /\ NoRead.at = 0
        BY DEF NoRead, Read
    <1>5. QED
        BY <1>3, <1>4, OrgAssumption DEF OrgInit, OrgInv, OrgTypeOK

\* A new version never makes a read or an entry older than it was.
LEMMA ReplaceKeeps ==
    ASSUME OrgInv, NEW allowed \in BOOLEAN, NEW gone \in BOOLEAN,
           Replace(allowed, gone), UNCHANGED <<cache, reads, now>>
    PROVE  OrgInv'
    <1>0. /\ Row \in Nat \ {0} /\ DOMAIN versions = 1 .. Row
          /\ now \in Nat /\ MaxDelay \in Nat
          /\ reads \in [Readers -> Read]
        BY VersionsNumbered, OrgAssumption DEF OrgInv, OrgTypeOK
    <1>1. /\ versions' \in Seq(Version) /\ versions' # <<>>
          /\ Row' = Row + 1
          /\ versions'[Row + 1].until = Never
          /\ \A n \in 1 .. Row :
                versions'[n].until = IF n = Row THEN now ELSE versions[n].until
        BY ReplaceGrows
    <1>2. OrgTypeOK'
        BY <1>1 DEF OrgInv, OrgTypeOK
    <1>3. DOMAIN versions' = 1 .. Row + 1
        BY <1>1, <1>2, LenProperties DEF Row
    <1>4. ASSUME NEW r \in Readers, reads[r].pc = "fetched"
          PROVE  /\ reads[r].ver \in DOMAIN versions'
                 /\ reads[r].at <= versions'[reads[r].ver].until
        <2>1. /\ reads[r].ver \in 1 .. Row /\ reads[r].at <= now
              /\ reads[r].at <= versions[reads[r].ver].until
            BY <1>0, <1>4 DEF OrgInv
        <2>2. QED
            BY <1>0, <1>1, <1>3, <2>1
    <1>5. ASSUME cache # <<>>
          PROVE  /\ cache[1].ver \in DOMAIN versions'
                 /\ cache[1].at <= versions'[cache[1].ver].until + MaxDelay
        <2>1. /\ cache[1].ver \in 1 .. Row /\ cache[1].at <= now
              /\ cache[1].at <= versions[cache[1].ver].until + MaxDelay
            BY <1>0, <1>5 DEF OrgInv
        <2>2. cache[1].at \in Nat
            BY <1>5 DEF OrgInv, OrgTypeOK, CacheEntry
        <2>3. QED
            BY <1>0, <1>1, <1>3, <2>1, <2>2
    <1>6. QED
        BY <1>0, <1>1, <1>2, <1>4, <1>5 DEF OrgInv, Never

\* A call of org_settings goes one step further.
LEMMA ReadingKeeps ==
    ASSUME OrgInv, NEW r \in Readers, Reading(r)
    PROVE  OrgInv'
    <1>0. /\ Row \in Nat \ {0} /\ DOMAIN versions = 1 .. Row
          /\ now \in Nat /\ now <= MaxTime /\ MaxDelay \in Nat /\ MaxTime \in Nat
          /\ reads \in [Readers -> Read]
        BY VersionsNumbered, OrgAssumption DEF OrgInv, OrgTypeOK
    <1>1. /\ reads[r].ver \in Nat /\ reads[r].at \in Nat
          /\ UNCHANGED <<versions, now, Row, Never>>
        BY <1>0 DEF Read, Reading, Lookup, Fetch, FetchFails, Store, Row, Never
    <1>2. CASE Lookup(r)
        <2>1. PICK place \in {"served", "missed"}, ver \in Nat :
                reads' = [reads EXCEPT ![r] = [pc |-> place, ver |-> ver, at |-> now]]
            <3>1. Fresh => cache[1].ver \in Nat
                BY <1>0 DEF Fresh, OrgInv
            <3>2. QED
                BY <1>2, <3>1 DEF Lookup
        <2>2. [pc |-> place, ver |-> ver, at |-> now] \in Read
            BY <1>0 DEF Read
        <2>3. UNCHANGED cache
            BY <1>2 DEF Lookup
        <2>4. QED
            BY <1>0, <1>1, <2>1, <2>2, <2>3 DEF OrgInv, OrgTypeOK
    <1>3. CASE Fetch(r)
        <2>1. /\ reads' = [reads EXCEPT ![r].pc = "fetched", ![r].ver = Row, ![r].at = now]
              /\ UNCHANGED cache
            BY <1>3 DEF Fetch
        <2>2. /\ reads' \in [Readers -> Read]
              /\ reads'[r].ver = Row /\ reads'[r].at = now
              /\ \A q \in Readers \ {r} : reads'[q] = reads[q]
            BY <1>0, <2>1 DEF Read
        <2>3. now <= versions[Row].until /\ now <= now + MaxDelay
            BY <1>0 DEF OrgInv, Never
        <2>4. QED
            BY <1>0, <1>1, <2>1, <2>2, <2>3 DEF OrgInv, OrgTypeOK
    <1>4. CASE FetchFails(r)
        <2>1. reads' = [reads EXCEPT ![r].pc = "none"] /\ UNCHANGED cache
            BY <1>4 DEF FetchFails
        <2>2. /\ reads' \in [Readers -> Read]
              /\ reads'[r].pc = "none" /\ reads'[r].at = reads[r].at
              /\ \A q \in Readers \ {r} : reads'[q] = reads[q]
            BY <1>0, <2>1 DEF Read
        <2>3. QED
            BY <1>1, <2>1, <2>2 DEF OrgInv, OrgTypeOK
    <1>5. CASE Store(r)
        <2>1. /\ reads[r].pc = "fetched"
              /\ cache' = <<[ver |-> reads[r].ver, at |-> now]>>
              /\ reads' = [reads EXCEPT ![r].pc = "served", ![r].at = now]
            BY <1>5 DEF Store
        <2>2. /\ reads' \in [Readers -> Read]
              /\ reads'[r].pc = "served" /\ reads'[r].at = now
              /\ \A q \in Readers \ {r} : reads'[q] = reads[q]
            BY <1>0, <2>1 DEF Read
        <2>3. /\ reads[r].ver \in DOMAIN versions
              /\ reads[r].at <= versions[reads[r].ver].until
              /\ now <= reads[r].at + MaxDelay
              /\ versions[reads[r].ver].until \in Nat
            BY <1>0, <2>1, VersionsNumbered DEF OrgInv, Version
        <2>4. /\ [ver |-> reads[r].ver, at |-> now] \in CacheEntry
              /\ cache'[1].ver = reads[r].ver /\ cache'[1].at = now
            BY <1>0, <1>1, <2>1 DEF CacheEntry
        <2>5. now <= versions[reads[r].ver].until + MaxDelay
            BY <1>0, <1>1, <2>3
        <2>6. OrgTypeOK'
            BY <1>0, <1>1, <2>1, <2>2, <2>4 DEF OrgInv, OrgTypeOK
        <2>7. QED
            BY <1>0, <1>1, <2>2, <2>3, <2>4, <2>5, <2>6 DEF OrgInv
    <1>6. QED
        BY <1>2, <1>3, <1>4, <1>5 DEF Reading

\* Updates, deletions, time and restarts.
LEMMA OrgStepKeeps == OrgInv /\ [OrgNext]_orgVars => OrgInv'
    <1> SUFFICES ASSUME OrgInv, [OrgNext]_orgVars PROVE OrgInv'
        OBVIOUS
    <1>0. /\ now \in Nat /\ MaxDelay \in Nat /\ MaxTime \in Nat
          /\ reads \in [Readers -> Read]
        BY OrgAssumption DEF OrgInv, OrgTypeOK
    <1>1. ASSUME NEW r \in Readers, Reading(r) PROVE OrgInv'
        BY <1>1, ReadingKeeps
    <1>2. ASSUME NEW allowed \in BOOLEAN, WriteOrg(allowed) PROVE OrgInv'
        BY <1>2, ReplaceKeeps DEF WriteOrg
    <1>3. CASE DeleteOrg
        BY <1>3, ReplaceKeeps DEF DeleteOrg
    <1>4. ASSUME NEW n \in updating, InvalidateOrg(n) \/ AbandonUpdate(n) PROVE OrgInv'
        <2>1. UNCHANGED <<versions, reads, now>> /\ (cache' = <<>> \/ UNCHANGED cache)
            BY <1>4 DEF InvalidateOrg, AbandonUpdate
        <2>2. QED
            BY <2>1 DEF OrgInv, OrgTypeOK, Row, Never
    <1>5. CASE Tick
        <2>1. /\ UNCHANGED <<versions, cache, reads>> /\ now' = now + 1
              /\ now < MaxTime
              /\ \A r \in Readers : reads[r].pc = "fetched" => now - reads[r].at < MaxDelay
            BY <1>5 DEF Tick
        <2>2. OrgTypeOK'
            BY <1>0, <2>1 DEF OrgInv, OrgTypeOK
        <2>3. ASSUME NEW r \in Readers
              PROVE  /\ reads[r].at <= now'
                     /\ reads[r].pc = "fetched" => now' <= reads[r].at + MaxDelay
            <3>1. reads[r].at \in Nat /\ reads[r].at <= now
                BY <1>0 DEF OrgInv, Read
            <3>2. QED
                BY <1>0, <2>1, <3>1
        <2>4. cache # <<>> => cache[1].at <= now'
            BY <1>0, <2>1 DEF OrgInv, OrgTypeOK, CacheEntry
        <2>5. QED
            BY <2>1, <2>2, <2>3, <2>4 DEF OrgInv, Row, Never
    <1>6. CASE OrgRestart
        <2>1. /\ UNCHANGED <<versions, now>> /\ cache' = <<>>
              /\ reads' = [r \in Readers |->
                              IF reads[r].pc \in {"missed", "fetched"}
                              THEN [reads[r] EXCEPT !.pc = "none"] ELSE reads[r]]
            BY <1>6 DEF OrgRestart
        <2>2. \A r \in Readers :
                /\ reads'[r] \in Read /\ reads'[r].at = reads[r].at
                /\ reads'[r].pc # "fetched"
            BY <1>0, <2>1 DEF Read
        <2>3. reads' \in [Readers -> Read]
            BY <2>1, <2>2
        <2>4. QED
            BY <2>1, <2>2, <2>3 DEF OrgInv, OrgTypeOK, Row, Never
    <1>7. CASE UNCHANGED orgVars
        BY <1>7 DEF orgVars, OrgInv, OrgTypeOK, Row, Never
    <1>8. QED
        BY <1>1, <1>2, <1>3, <1>4, <1>5, <1>6, <1>7 DEF OrgNext, Changing

\* What is in the cache, or about to be, was the row a delay ago.
THEOREM OrgInvariant == OrgSpec => []OrgInv
    BY OrgStart, OrgStepKeeps, PTL DEF OrgSpec

-----------------------------------------------------------------------------
(* The two components, composed.                                           *)

\* Every step of the composition is a step of the settings, or leaves them.
LEMMA StepIsSettingsStep == [Next]_vars => [SettingsNext]_settingsVars
    BY DEF Next, vars, Begin, CompleteByGateway, CompleteByOrg, FetchOrg,
           FetchOrgFails, StoreOrg, ChangeSettings, ChangeOrg, RestartGateway,
           SettingsNext

\* The same for one organization's settings and their cache.
LEMMA StepIsOrgStep == [Next]_vars => [OrgNext]_orgVars
    BY DEF Next, vars, Begin, CompleteByGateway, CompleteByOrg, FetchOrg,
           FetchOrgFails, StoreOrg, ChangeSettings, ChangeOrg, RestartGateway,
           OrgNext, Reading, Requests

\* Whatever the requests do, the switches behave as their own components say:
\* what is proved of each holds in the composition.
THEOREM SwitchesKeepTheirPromises == Spec => SettingsSpec /\ OrgSpec
<1>1. Init => SettingsInit /\ OrgInit
    BY DEF Init
<1>2. QED
    BY <1>1, StepIsSettingsStep, StepIsOrgStep, PTL DEF Spec, SettingsSpec, OrgSpec

-----------------------------------------------------------------------------
(* What is logged.                                                         *)

Request == [pc : {"new", "running", "asking", "logged", "lost"}, stream : BOOLEAN,
            org : BOOLEAN, copy : {NoBody, Body}, request : {NoBody, Body},
            response : {NoBody, Body}, quiet : BOOLEAN]

\* No document that any part of the gateway holds, or is about to, captures.
NothingCaptures ==
    /\ inStep
    /\ row \notin CapturingDocs
    /\ live["payload_capture"] \notin CapturingDocs
    /\ \A a \in Admins : puts[a].pc = "idle" \/ puts[a].doc \notin CapturingDocs

QuietInv ==
    /\ reqs \in [Requests -> Request]
    /\ \A r \in Requests :
          /\ reqs[r].pc = "new" => ~reqs[r].quiet
          /\ reqs[r].pc \in {"new", "running"} => reads[r].pc = "idle"
          /\ reads[r].pc \in {"missed", "fetched"} => ~reqs[r].quiet
          /\ reqs[r].pc = "running" /\ reqs[r].quiet =>
                NothingCaptures /\ reqs[r].copy = NoBody
    /\ SwitchedOffLogsNothing

\* What LogBodies writes.
LEMMA LogBodiesWrites ==
    ASSUME reqs \in [Requests -> Request], NEW r \in Requests,
           NEW capture \in BOOLEAN, LogBodies(r, capture)
    PROVE  /\ reqs' \in [Requests -> Request]
           /\ reqs'[r].pc = "logged"
           /\ reqs'[r].org = reqs[r].org
           /\ reqs'[r].quiet = reqs[r].quiet
           /\ ~capture => reqs'[r].request = NoBody /\ reqs'[r].response = NoBody
           /\ \A q \in Requests \ {r} : reqs'[q] = reqs[q]
    <1>1. PICK req, resp \in {NoBody, Body} :
             /\ reqs' = [reqs EXCEPT ![r] = [reqs[r] EXCEPT !.pc = "logged",
                                               !.request = req, !.response = resp]]
             /\ ~capture => req = NoBody /\ resp = NoBody
        <2>1. CASE capture
            <3>1. (IF reqs[r].stream THEN reqs[r].copy ELSE Body) \in {NoBody, Body}
                BY DEF Request
            <3>2. QED
                BY <2>1, <3>1 DEF LogBodies
        <2>2. CASE ~capture
            BY <2>2 DEF LogBodies
        <2>3. QED
            BY <2>1, <2>2
    <1>2. [reqs[r] EXCEPT !.pc = "logged", !.request = req, !.response = resp]
             \in Request
        BY DEF Request
    <1>3. QED
        BY <1>1, <1>2 DEF Request

\* Logging bodies keeps a request that began in quiet without any, when the
\* switches say no or the request is not one of those.
LEMMA LoggingStaysQuiet ==
    ASSUME QuietInv, NEW r \in Requests, NEW capture \in BOOLEAN,
           LogBodies(r, capture), capture => ~reqs[r].quiet,
           UNCHANGED settingsVars,
           \A q \in Requests \ {r} : reads'[q] = reads[q],
           reads'[r].pc \notin {"missed", "fetched"}
    PROVE  QuietInv'
    <1>1. /\ reqs' \in [Requests -> Request]
          /\ reqs'[r].pc = "logged" /\ reqs'[r].quiet = reqs[r].quiet
          /\ ~capture => reqs'[r].request = NoBody /\ reqs'[r].response = NoBody
          /\ \A q \in Requests \ {r} : reqs'[q] = reqs[q]
        BY LogBodiesWrites DEF QuietInv
    <1>2. SwitchedOffLogsNothing'
        <2>1. ASSUME NEW q \in Requests, Logged(q)', reqs'[q].quiet
              PROVE  {reqs'[q].request, reqs'[q].response} = {NoBody}
            <3>1. CASE q = r
                <4>1. reqs'[q].request = NoBody /\ reqs'[q].response = NoBody
                    BY <1>1, <2>1, <3>1
                <4>2. QED
                    BY <4>1
            <3>2. CASE q # r
                BY <1>1, <2>1, <3>2 DEF QuietInv, SwitchedOffLogsNothing, Logged
            <3>3. QED
                BY <3>1, <3>2
        <2>2. QED
            BY <2>1 DEF SwitchedOffLogsNothing
    <1>3. NothingCaptures' = NothingCaptures
        BY DEF NothingCaptures, settingsVars
    <1>4. QED
        BY <1>1, <1>2, <1>3 DEF QuietInv

\* A step of the PUTs in flight brings in nothing that captures, unless a PUT
\* that does has just come in or the process is out of step.
LEMMA PuttingCapturesNothing ==
    ASSUME SettingsInv, NothingCaptures, Putting, inStep',
           \A a \in Admins : puts'[a].pc = "idle" \/ puts'[a].doc \notin CapturingDocs
    PROVE  NothingCaptures'
    <1>0. /\ live \in [Place -> Docs] /\ "payload_capture" \in Place
        BY CaptureAssumption DEF SettingsInv, SettingsTypeOK
    <1>1. ASSUME NEW a \in Admins, NEW doc \in Docs, PutSettings(a, doc)
          PROVE  NothingCaptures'
        BY <1>1 DEF PutSettings, NothingCaptures
    <1>2. ASSUME NEW a \in Admins, Saved(a) \/ SaveFails(a) PROVE NothingCaptures'
        <2>1. UNCHANGED live /\ (row' = row \/ row' = puts[a].doc)
            BY <1>2 DEF Saved, SaveFails, SetRow
        <2>2. puts[a].doc \notin CapturingDocs
            BY <1>2 DEF NothingCaptures, Saved, SaveFails
        <2>3. QED
            BY <2>1, <2>2 DEF NothingCaptures
    <1>3. ASSUME NEW a \in Admins, Apply(a) PROVE NothingCaptures'
        <2>1. /\ UNCHANGED row
              /\ live' = [live EXCEPT ![Places[puts[a].next]] = puts[a].doc]
              /\ puts[a].doc \notin CapturingDocs
            BY <1>3 DEF Apply, NothingCaptures
        <2>2. QED
            BY <1>0, <2>1 DEF NothingCaptures
    <1>4. QED
        BY <1>1, <1>2, <1>3 DEF Putting

\* A request begins in quiet only when the switch is off.
LEMMA BeginKeepsQuiet ==
    ASSUME SettingsInv, OrgInv, QuietInv, NEW r \in Requests,
           NEW stream \in BOOLEAN, NEW org \in BOOLEAN, Begin(r, stream, org)
    PROVE  QuietInv'
    <1>0. /\ UNCHANGED <<settingsVars, reads>> /\ reqs \in [Requests -> Request]
          /\ reqs[r].pc = "new" /\ reads[r].pc = "idle"
        BY DEF Begin, orgVars, QuietInv
    <1>1. PICK q \in BOOLEAN, c \in {NoBody, Body} :
             /\ q => SwitchedOff
             /\ ~payload_capture_enabled => c = NoBody
             /\ reqs' = [reqs EXCEPT ![r] = [@ EXCEPT !.pc = "running",
                           !.stream = stream, !.org = org, !.copy = c, !.quiet = q]]
        <2>1. SwitchedOff \in BOOLEAN
            BY DEF SwitchedOff
        <2>2. PICK c \in {NoBody, Body} :
                 /\ ~payload_capture_enabled => c = NoBody
                 /\ c = IF stream /\ payload_capture_enabled THEN Body ELSE NoBody
            OBVIOUS
        <2>3. reqs' = [reqs EXCEPT ![r] = [@ EXCEPT !.pc = "running", !.stream = stream,
                          !.org = org, !.copy = c, !.quiet = SwitchedOff]]
            BY <2>2, Zenon DEF Begin
        <2>4. QED
            BY <2>1, <2>2, <2>3, Zenon
    <1>2. /\ reqs' \in [Requests -> Request]
          /\ reqs'[r].pc = "running" /\ reqs'[r].quiet = q /\ reqs'[r].copy = c
          /\ \A x \in Requests \ {r} : reqs'[x] = reqs[x]
        <2>1. PICK old \in Request : old = reqs[r]
            BY <1>0
        <2>2. PICK new : new = [old EXCEPT !.pc = "running", !.stream = stream,
                                           !.org = org, !.copy = c, !.quiet = q]
            OBVIOUS
        <2>3. new \in Request /\ new.pc = "running" /\ new.quiet = q /\ new.copy = c
            BY <2>1, <2>2 DEF Request
        <2>4. reqs' = [reqs EXCEPT ![r] = new]
            BY <1>1, <2>1, <2>2, Zenon
        <2>5. QED
            BY <1>0, <2>3, <2>4
    <1>3. SwitchedOff => NothingCaptures /\ ~payload_capture_enabled
        <2>1. SwitchedOff => live["payload_capture"] = row
            BY CaptureAssumption DEF SwitchedOff, SettingsInv, StepKept, InFlight
        <2>2. QED
            BY <2>1 DEF SwitchedOff, NothingCaptures, InFlight, payload_capture_enabled
    <1>4. NothingCaptures' = NothingCaptures
        BY <1>0 DEF NothingCaptures, settingsVars
    <1>5. SwitchedOffLogsNothing'
        BY <1>2 DEF QuietInv, SwitchedOffLogsNothing, Logged
    <1>6. QED
        BY <1>0, <1>1, <1>2, <1>3, <1>4, <1>5 DEF QuietInv

\* A request that began in quiet stays without bodies until it is logged.
THEOREM CaptureInvariant == Spec => []QuietInv
<1>1. Init => QuietInv
    <2> SUFFICES ASSUME Init PROVE QuietInv
        OBVIOUS
    <2>1. NewRequest \in Request /\ NewRequest.pc = "new" /\ NewRequest.quiet = FALSE
        BY DEF NewRequest, Request, NoBody
    <2>2. \A r \in Requests : reads[r].pc = "idle"
        BY DEF Init, OrgInit, NoRead, Requests
    <2>3. QED
        BY <2>1, <2>2 DEF Init, QuietInv, SwitchedOffLogsNothing, Logged
<1>2. SettingsInv /\ OrgInv /\ QuietInv /\ [Next]_vars => QuietInv'
    <2> SUFFICES ASSUME SettingsInv, OrgInv, QuietInv, [Next]_vars PROVE QuietInv'
        OBVIOUS
    <2>0. /\ reqs \in [Requests -> Request] /\ reads \in [Requests -> Read]
        BY DEF QuietInv, OrgInv, OrgTypeOK, Requests
    <2>1. ASSUME NEW r \in Requests, NEW stream \in BOOLEAN, NEW org \in BOOLEAN,
                 Begin(r, stream, org)
          PROVE QuietInv'
        BY <2>1, BeginKeepsQuiet
    <2>2. ASSUME NEW r \in Requests, CompleteByGateway(r) PROVE QuietInv'
        <3>1. PICK capture \in BOOLEAN :
                 LogBodies(r, capture) /\ (capture <=> payload_capture_enabled)
            <4>1. payload_capture_enabled \in BOOLEAN
                BY DEF payload_capture_enabled
            <4>2. LogBodies(r, payload_capture_enabled)
                BY <2>2 DEF CompleteByGateway
            <4>3. QED
                BY <4>1, <4>2, Zenon
        <3>2. /\ reqs[r].pc = "running" /\ UNCHANGED <<settingsVars, reads>>
            BY <2>2 DEF CompleteByGateway, orgVars
        <3>3. capture => ~reqs[r].quiet
            BY <3>1, <3>2 DEF QuietInv, NothingCaptures, payload_capture_enabled
        <3>4. reads'[r].pc = "idle"
            BY <3>2 DEF QuietInv
        <3>5. QED
            BY <3>1, <3>2, <3>3, <3>4, LoggingStaysQuiet
    <2>3. ASSUME NEW r \in Requests, CompleteByOrg(r) PROVE QuietInv'
        <3>1. /\ UNCHANGED settingsVars /\ ~reqs[r].quiet /\ reqs[r].pc = "running"
              /\ \A q \in Requests \ {r} : reads'[q] = reads[q]
            BY <2>0, <2>3 DEF CompleteByOrg, QuietInv, NothingCaptures,
               payload_capture_enabled, Lookup
        <3>2. CASE Fresh
            <4>1. PICK capture \in BOOLEAN : LogBodies(r, capture)
                <5>1. versions[cache[1].ver].capture \in BOOLEAN
                    BY <3>2, VersionsNumbered DEF Fresh, OrgInv, Version
                <5>2. QED
                    BY <2>3, <3>2, <5>1 DEF CompleteByOrg
            <4>2. reads'[r].pc = "served"
                BY <2>0, <2>3, <3>2 DEF CompleteByOrg, Lookup
            <4>3. QED
                BY <3>1, <4>1, <4>2, LoggingStaysQuiet
        <3>3. CASE ~Fresh
            <4>1. reqs' = [reqs EXCEPT ![r].pc = "asking"]
                BY <2>3, <3>3 DEF CompleteByOrg
            <4>2. /\ reqs' \in [Requests -> Request]
                  /\ reqs'[r].pc = "asking" /\ reqs'[r].quiet = reqs[r].quiet
                  /\ \A q \in Requests \ {r} : reqs'[q] = reqs[q]
                BY <2>0, <4>1 DEF Request
            <4>3. NothingCaptures' = NothingCaptures
                BY <3>1 DEF NothingCaptures, settingsVars
            <4>4. SwitchedOffLogsNothing'
                BY <4>2 DEF QuietInv, SwitchedOffLogsNothing, Logged
            <4>5. QED
                BY <3>1, <4>2, <4>3, <4>4 DEF QuietInv
        <3>4. QED
            BY <3>2, <3>3
    <2>4. ASSUME NEW r \in Requests, FetchOrg(r) PROVE QuietInv'
        <3>1. /\ UNCHANGED <<settingsVars, reqs>>
              /\ reads[r].pc = "missed"
              /\ \A q \in Requests \ {r} : reads'[q] = reads[q]
            BY <2>0, <2>4 DEF FetchOrg, Fetch
        <3>2. NothingCaptures' = NothingCaptures
            BY <3>1 DEF NothingCaptures, settingsVars
        <3>3. SwitchedOffLogsNothing'
            BY <3>1 DEF QuietInv, SwitchedOffLogsNothing, Logged
        <3>4. QED
            BY <3>1, <3>2, <3>3 DEF QuietInv
    <2>5. ASSUME NEW r \in Requests, FetchOrgFails(r) \/ StoreOrg(r) PROVE QuietInv'
        <3>1. /\ UNCHANGED settingsVars /\ reads[r].pc \in {"missed", "fetched"}
              /\ reads'[r].pc \in {"none", "served"}
              /\ \A q \in Requests \ {r} : reads'[q] = reads[q]
            BY <2>0, <2>5 DEF FetchOrgFails, FetchFails, StoreOrg, Store, Read
        <3>2. PICK capture \in BOOLEAN : LogBodies(r, capture)
            <4>1. StoreOrg(r) => versions[reads[r].ver].capture \in BOOLEAN
                BY VersionsNumbered DEF StoreOrg, Store, OrgInv, Version, Requests
            <4>2. QED
                BY <2>5, <4>1 DEF FetchOrgFails, StoreOrg
        <3>3. ~reqs[r].quiet
            BY <3>1 DEF QuietInv
        <3>4. QED
            BY <3>1, <3>2, <3>3, LoggingStaysQuiet
    <2>6. CASE ChangeSettings
        <3>1. PICK kept \in [Requests -> BOOLEAN] :
                /\ reqs' = [r \in Requests |-> [reqs[r] EXCEPT !.quiet = kept[r]]]
                /\ \A r \in Requests : kept[r] =>
                      /\ reqs[r].quiet /\ inStep'
                      /\ \A a \in Admins :
                            puts'[a].pc = "idle" \/ puts'[a].doc \notin CapturingDocs
            <4> DEFINE off == \A a \in Admins : \/ puts'[a].pc = "idle"
                                                \/ puts'[a].doc \notin CapturingDocs
                       k == [r \in Requests |-> reqs[r].quiet /\ inStep' /\ off]
            <4>1. k \in [Requests -> BOOLEAN]
                OBVIOUS
            <4>2. \A r \in Requests : k[r] = (reqs[r].quiet /\ inStep' /\ off)
                OBVIOUS
            <4>3. reqs' = [r \in Requests |->
                              [reqs[r] EXCEPT !.quiet = reqs[r].quiet /\ inStep' /\ off]]
                BY <2>6, Zenon DEF ChangeSettings
            <4> HIDE DEF k, off
            <4>4. reqs' = [r \in Requests |-> [reqs[r] EXCEPT !.quiet = k[r]]]
                BY <4>2, <4>3, Zenon
            <4>5. \A r \in Requests : k[r] => reqs[r].quiet /\ inStep' /\ off
                BY <4>2, Zenon
            <4>6. QED
                BY <4>1, <4>4, <4>5 DEF off
        <3>2. /\ Putting /\ UNCHANGED reads
            BY <2>6 DEF ChangeSettings, orgVars
        <3>3. \A r \in Requests :
                /\ reqs'[r] \in Request /\ reqs'[r].quiet = kept[r]
                /\ reqs'[r].pc = reqs[r].pc /\ reqs'[r].copy = reqs[r].copy
                /\ reqs'[r].request = reqs[r].request
                /\ reqs'[r].response = reqs[r].response
            BY <2>0, <3>1 DEF Request
        <3>4. reqs' \in [Requests -> Request]
            BY <3>1, <3>3
        <3>5. SwitchedOffLogsNothing'
            <4>1. ASSUME NEW r \in Requests, reqs'[r].pc = "logged", reqs'[r].quiet
                  PROVE  {reqs'[r].request, reqs'[r].response} = {NoBody}
                <5>1. reqs[r].pc = "logged" /\ reqs[r].quiet
                    BY <3>1, <3>3, <4>1
                <5>2. {reqs[r].request, reqs[r].response} = {NoBody}
                    BY <5>1 DEF QuietInv, SwitchedOffLogsNothing, Logged
                <5>3. QED
                    BY <3>3, <5>2
            <4>2. QED
                BY <4>1 DEF SwitchedOffLogsNothing, Logged
        <3>6. ASSUME NEW r \in Requests, reqs[r].pc = "running", kept[r]
              PROVE  NothingCaptures' /\ reqs[r].copy = NoBody
            BY <3>1, <3>2, <3>6, PuttingCapturesNothing DEF QuietInv
        <3>7. QED
            BY <3>1, <3>2, <3>3, <3>4, <3>5, <3>6 DEF QuietInv
    <2>7. CASE ChangeOrg
        <3>1. UNCHANGED <<settingsVars, reqs, reads>>
            BY <2>7 DEF ChangeOrg, Changing, WriteOrg, InvalidateOrg, AbandonUpdate,
               DeleteOrg, Tick
        <3>2. NothingCaptures' = NothingCaptures
            BY <3>1 DEF NothingCaptures, settingsVars
        <3>3. QED
            BY <3>1, <3>2 DEF QuietInv, SwitchedOffLogsNothing, Logged
    <2>8. CASE RestartGateway
        <3>1. /\ reqs' = [r \in Requests |->
                            IF reqs[r].pc \in {"running", "asking"}
                            THEN [reqs[r] EXCEPT !.pc = "lost"] ELSE reqs[r]]
              /\ reads' = [r \in Requests |->
                            IF reads[r].pc \in {"missed", "fetched"}
                            THEN [reads[r] EXCEPT !.pc = "none"] ELSE reads[r]]
            BY <2>8 DEF RestartGateway, OrgRestart, Requests
        <3>2. \A r \in Requests :
                /\ reqs'[r] \in Request /\ reqs'[r].quiet = reqs[r].quiet
                /\ reqs'[r].request = reqs[r].request
                /\ reqs'[r].response = reqs[r].response
                /\ reqs'[r].pc = IF reqs[r].pc \in {"running", "asking"}
                                 THEN "lost" ELSE reqs[r].pc
                /\ reads'[r].pc \notin {"missed", "fetched"}
                /\ reads[r].pc = "idle" => reads'[r].pc = "idle"
            <4>1. SUFFICES ASSUME NEW r \in Requests
                  PROVE  /\ reqs'[r] \in Request /\ reqs'[r].quiet = reqs[r].quiet
                         /\ reqs'[r].request = reqs[r].request
                         /\ reqs'[r].response = reqs[r].response
                         /\ reqs'[r].pc = IF reqs[r].pc \in {"running", "asking"}
                                          THEN "lost" ELSE reqs[r].pc
                         /\ reads'[r].pc \notin {"missed", "fetched"}
                         /\ reads[r].pc = "idle" => reads'[r].pc = "idle"
                OBVIOUS
            <4>2. PICK old \in Request, read \in Read : old = reqs[r] /\ read = reads[r]
                BY <2>0
            <4>3. /\ reqs'[r] = IF old.pc \in {"running", "asking"}
                                THEN [old EXCEPT !.pc = "lost"] ELSE old
                  /\ reads'[r] = IF read.pc \in {"missed", "fetched"}
                                 THEN [read EXCEPT !.pc = "none"] ELSE read
                BY <3>1, <4>2
            <4>4. /\ reads'[r].pc \notin {"missed", "fetched"}
                  /\ read.pc = "idle" => reads'[r].pc = "idle"
                BY <4>2, <4>3 DEF Read
            <4>5. /\ reqs'[r] \in Request /\ reqs'[r].quiet = old.quiet
                  /\ reqs'[r].request = old.request /\ reqs'[r].response = old.response
                  /\ reqs'[r].pc = IF old.pc \in {"running", "asking"}
                                   THEN "lost" ELSE old.pc
                BY <4>2, <4>3 DEF Request
            <4>6. QED
                BY <4>2, <4>4, <4>5
        <3>3. reqs' \in [Requests -> Request]
            BY <3>1, <3>2
        <3>4. SwitchedOffLogsNothing'
            BY <3>2 DEF QuietInv, SwitchedOffLogsNothing, Logged
        <3>5. QED
            BY <3>2, <3>3, <3>4 DEF QuietInv
    <2>9. CASE UNCHANGED vars
        BY <2>9 DEF vars, settingsVars, orgVars, QuietInv, NothingCaptures,
           SwitchedOffLogsNothing, Logged
    <2>10. QED
        BY <2>1, <2>2, <2>3, <2>4, <2>5, <2>6, <2>7, <2>8, <2>9 DEF Next
<1>3. QED
    BY <1>1, <1>2, SwitchesKeepTheirPromises, SettingsInvariant, OrgInvariant, PTL
       DEF Spec

\* A switch that is turned off and left alone for as long as a request lasts
\* keeps both of its bodies out of the log: what is asked when the request ends
\* is what the row holds (should_capture_payload).
THEOREM QuietRequestsLogNothing == Spec => []SwitchedOffLogsNothing
    BY CaptureInvariant, PTL DEF QuietInv

-----------------------------------------------------------------------------
(* The organization's switch.                                              *)

\* The organization's row allowed it less than a TTL and a delay before r was
\* served.
AllowedLately(r) ==
    \E n \in DOMAIN versions :
        versions[n].capture /\ reads[r].at < versions[n].until + TTL + MaxDelay

HasBody(r) == reqs[r].request = Body \/ reqs[r].response = Body

\* Whoever has a body logged under an organization was served by its switch.
HonouredInv ==
    \A r \in Requests :
        Logged(r) /\ reqs[r].org /\ HasBody(r) =>
            reads[r].pc = "served" /\ AllowedLately(r)

\* A version replaced now was in force until now.
LEMMA ReplaceKeepsAllowance ==
    ASSUME OrgInv, NEW allowed \in BOOLEAN, NEW gone \in BOOLEAN,
           Replace(allowed, gone), UNCHANGED reads,
           NEW r \in Readers, AllowedLately(r)
    PROVE  AllowedLately(r)'
    <1>0. /\ Row \in Nat \ {0} /\ DOMAIN versions = 1 .. Row
          /\ now \in Nat /\ MaxDelay \in Nat /\ TTL \in Nat \ {0}
          /\ reads[r].at \in Nat /\ reads[r].at <= now
        BY VersionsNumbered, OrgAssumption DEF OrgInv, OrgTypeOK, Read
    <1>1. PICK n \in 1 .. Row :
            versions[n].capture /\ reads[r].at < versions[n].until + TTL + MaxDelay
        BY <1>0 DEF AllowedLately
    <1>2. /\ versions' \in Seq(Version) /\ Row' = Row + 1
          /\ versions'[n].capture = versions[n].capture
          /\ versions'[n].until = IF n = Row THEN now ELSE versions[n].until
        BY ReplaceGrows
    <1>3. n \in DOMAIN versions'
        <2>1. DOMAIN versions' = 1 .. Row'
            BY <1>2, LenProperties DEF Row
        <2>2. QED
            BY <1>0, <1>2, <2>1
    <1>4. reads[r].at < versions'[n].until + TTL + MaxDelay
        BY <1>0, <1>1, <1>2
    <1>5. QED
        BY <1>1, <1>2, <1>3, <1>4 DEF AllowedLately

\* Logging for r under an organization's switch that said so is all right when
\* that version was in force lately.
LEMMA LoggingHonours ==
    ASSUME HonouredInv, reqs \in [Requests -> Request], NEW r \in Requests,
           NEW capture \in BOOLEAN, LogBodies(r, capture),
           UNCHANGED versions, \A q \in Requests \ {r} : reads'[q] = reads[q],
           capture /\ reqs[r].org => reads'[r].pc = "served" /\ AllowedLately(r)'
    PROVE  HonouredInv'
    <1>1. /\ reqs'[r].pc = "logged" /\ reqs'[r].org = reqs[r].org
          /\ ~capture => reqs'[r].request = NoBody /\ reqs'[r].response = NoBody
          /\ \A q \in Requests \ {r} : reqs'[q] = reqs[q]
        BY LogBodiesWrites
    <1>2. HasBody(r)' => capture
        BY <1>1 DEF HasBody, NoBody, Body
    <1>3. ASSUME NEW q \in Requests, reqs'[q].pc = "logged", reqs'[q].org, HasBody(q)'
          PROVE  reads'[q].pc = "served" /\ AllowedLately(q)'
        <2>1. CASE q = r
            BY <1>1, <1>2, <1>3, <2>1
        <2>2. CASE q # r
            BY <1>1, <1>3, <2>2 DEF HonouredInv, Logged, HasBody, AllowedLately
        <2>3. QED
            BY <2>1, <2>2
    <1>4. QED
        BY <1>3 DEF HonouredInv, Logged

\* Nobody's body is logged under an organization that did not allow it lately:
\* however the cache is filled, dropped, filled again by a slow read of an old
\* row or carried over a deletion (org_settings, should_capture_payload).
THEOREM OrganizationsAreHonoured == Spec => []OrgSwitchHonoured
<1>1. Init => HonouredInv
    BY DEF Init, NewRequest, HonouredInv, Logged
<1>2. OrgInv /\ QuietInv /\ HonouredInv /\ [Next]_vars => HonouredInv'
    <2> SUFFICES ASSUME OrgInv, QuietInv, HonouredInv, [Next]_vars
                 PROVE  HonouredInv'
        OBVIOUS
    <2>0. /\ reqs \in [Requests -> Request] /\ reads \in [Requests -> Read]
          /\ DOMAIN versions = 1 .. Row
          /\ now \in Nat /\ MaxDelay \in Nat /\ TTL \in Nat \ {0}
        BY VersionsNumbered, OrgAssumption DEF QuietInv, OrgInv, OrgTypeOK, Requests
    <2>1. ASSUME NEW r \in Requests, NEW stream \in BOOLEAN, NEW org \in BOOLEAN,
                 Begin(r, stream, org)
          PROVE HonouredInv'
        <3>1. /\ UNCHANGED <<versions, reads>>
              /\ reqs'[r].pc = "running"
              /\ \A q \in Requests \ {r} : reqs'[q] = reqs[q]
            BY <2>0, <2>1 DEF Begin, orgVars, Request
        <3>2. QED
            BY <3>1 DEF HonouredInv, Logged, HasBody, AllowedLately
    <2>2. ASSUME NEW r \in Requests, CompleteByGateway(r) PROVE HonouredInv'
        <3>1. PICK capture \in BOOLEAN :
                 LogBodies(r, capture) /\ (capture <=> payload_capture_enabled)
            <4>1. payload_capture_enabled \in BOOLEAN
                BY DEF payload_capture_enabled
            <4>2. LogBodies(r, payload_capture_enabled)
                BY <2>2 DEF CompleteByGateway
            <4>3. QED
                BY <4>1, <4>2, Zenon
        <3>2. UNCHANGED <<versions, reads>> /\ ~(capture /\ reqs[r].org)
            BY <2>2, <3>1 DEF CompleteByGateway, orgVars
        <3>3. QED
            BY <2>0, <3>1, <3>2, LoggingHonours
    <2>3. ASSUME NEW r \in Requests, CompleteByOrg(r), Fresh PROVE HonouredInv'
        <3>1. /\ UNCHANGED versions
              /\ reads'[r].pc = "served" /\ reads'[r].at = now
              /\ \A q \in Requests \ {r} : reads'[q] = reads[q]
            BY <2>0, <2>3 DEF CompleteByOrg, Lookup
        <3>2. PICK n \in 1 .. Row : n = cache[1].ver
            BY <2>0, <2>3 DEF OrgInv, Fresh
        <3>3. /\ versions[n].capture \in BOOLEAN /\ versions[n].until \in Nat
              /\ LogBodies(r, versions[n].capture)
            BY <2>3, <3>2, VersionsNumbered DEF OrgInv, Version, CompleteByOrg
        <3>4. now < versions[n].until + TTL + MaxDelay
            <4>1. /\ cache[1].at \in Nat /\ now - cache[1].at < TTL
                  /\ cache[1].at <= versions[n].until + MaxDelay
                BY <2>3, <3>2 DEF Fresh, OrgInv, OrgTypeOK, CacheEntry
            <4>2. QED
                BY <2>0, <3>3, <4>1
        <3>5. versions[n].capture => AllowedLately(r)'
            BY <2>0, <3>1, <3>2, <3>4 DEF AllowedLately
        <3>6. QED
            BY <2>0, <3>1, <3>3, <3>5, LoggingHonours
    <2>4. ASSUME NEW r \in Requests, CompleteByOrg(r), ~Fresh PROVE HonouredInv'
        <3>1. /\ UNCHANGED versions
              /\ \A q \in Requests \ {r} : reads'[q] = reads[q]
              /\ reqs'[r].pc = "asking"
              /\ \A q \in Requests \ {r} : reqs'[q] = reqs[q]
            BY <2>0, <2>4 DEF CompleteByOrg, Lookup, Request
        <3>2. QED
            BY <3>1 DEF HonouredInv, Logged, HasBody, AllowedLately
    <2>5. ASSUME NEW r \in Requests, FetchOrg(r) PROVE HonouredInv'
        <3>1. /\ UNCHANGED <<versions, reqs>> /\ reads[r].pc = "missed"
              /\ \A q \in Requests \ {r} : reads'[q] = reads[q]
            BY <2>0, <2>5 DEF FetchOrg, Fetch
        <3>2. QED
            BY <3>1 DEF HonouredInv, Logged, HasBody, AllowedLately
    <2>6. ASSUME NEW r \in Requests, FetchOrgFails(r) PROVE HonouredInv'
        <3>1. /\ UNCHANGED versions /\ LogBodies(r, FALSE)
              /\ \A q \in Requests \ {r} : reads'[q] = reads[q]
            BY <2>0, <2>6 DEF FetchOrgFails, FetchFails
        <3>2. QED
            BY <2>0, <3>1, LoggingHonours
    <2>7. ASSUME NEW r \in Requests, StoreOrg(r) PROVE HonouredInv'
        <3>1. /\ UNCHANGED versions /\ reads[r].pc = "fetched"
              /\ reads'[r].pc = "served" /\ reads'[r].at = now
              /\ \A q \in Requests \ {r} : reads'[q] = reads[q]
            BY <2>0, <2>7 DEF StoreOrg, Store, Read
        <3>2. PICK n \in 1 .. Row : n = reads[r].ver
            BY <2>0, <3>1 DEF OrgInv, Requests
        <3>3. /\ versions[n].capture \in BOOLEAN /\ versions[n].until \in Nat
              /\ LogBodies(r, versions[n].capture)
            BY <2>7, <3>2, VersionsNumbered DEF OrgInv, Version, StoreOrg
        <3>4. now < versions[n].until + TTL + MaxDelay
            <4>1. /\ reads[r].at \in Nat /\ now <= reads[r].at + MaxDelay
                  /\ reads[r].at <= versions[n].until
                BY <2>0, <3>1, <3>2 DEF OrgInv, Requests, Read
            <4>2. QED
                BY <2>0, <3>3, <4>1
        <3>5. versions[n].capture => AllowedLately(r)'
            BY <2>0, <3>1, <3>2, <3>4 DEF AllowedLately
        <3>6. QED
            BY <2>0, <3>1, <3>3, <3>5, LoggingHonours
    <2>8. CASE ChangeSettings
        <3>1. /\ UNCHANGED <<versions, reads>>
              /\ \A r \in Requests :
                    /\ reqs'[r].pc = reqs[r].pc /\ reqs'[r].org = reqs[r].org
                    /\ reqs'[r].request = reqs[r].request
                    /\ reqs'[r].response = reqs[r].response
            <4>1. \A r \in Requests : \E kept :
                    reqs'[r] = [reqs[r] EXCEPT !.quiet = kept]
                BY <2>8, Zenon DEF ChangeSettings
            <4>2. QED
                BY <2>0, <2>8, <4>1 DEF ChangeSettings, orgVars, Request
        <3>2. QED
            BY <3>1 DEF HonouredInv, Logged, HasBody, AllowedLately
    <2>9. CASE ChangeOrg
        <3>1. UNCHANGED <<reqs, reads>>
            BY <2>9 DEF ChangeOrg, Changing, WriteOrg, InvalidateOrg, AbandonUpdate,
               DeleteOrg, Tick
        <3>2. \/ UNCHANGED versions
              \/ \E allowed, gone \in BOOLEAN : Replace(allowed, gone)
            BY <2>9 DEF ChangeOrg, Changing, WriteOrg, InvalidateOrg, AbandonUpdate,
               DeleteOrg, Tick
        <3>3. ASSUME NEW r \in Requests, AllowedLately(r) PROVE AllowedLately(r)'
            BY <3>1, <3>2, <3>3, ReplaceKeepsAllowance DEF AllowedLately, Requests
        <3>4. QED
            BY <3>1, <3>3 DEF HonouredInv, Logged, HasBody
    <2>10. CASE RestartGateway
        <3>1. /\ UNCHANGED versions
              /\ reqs' = [r \in Requests |->
                            IF reqs[r].pc \in {"running", "asking"}
                            THEN [reqs[r] EXCEPT !.pc = "lost"] ELSE reqs[r]]
              /\ reads' = [r \in Requests |->
                            IF reads[r].pc \in {"missed", "fetched"}
                            THEN [reads[r] EXCEPT !.pc = "none"] ELSE reads[r]]
            BY <2>10 DEF RestartGateway, OrgRestart, Requests
        <3>2. \A r \in Requests :
                /\ reqs'[r].pc = "logged" => reqs'[r] = reqs[r]
                /\ reads[r].pc = "served" => reads'[r] = reads[r]
            BY <2>0, <3>1 DEF Request
        <3>3. QED
            BY <3>1, <3>2 DEF HonouredInv, Logged, HasBody, AllowedLately
    <2>11. CASE UNCHANGED vars
        BY <2>11 DEF vars, orgVars, HonouredInv, Logged, HasBody, AllowedLately
    <2>12. QED
        BY <2>1, <2>2, <2>3, <2>4, <2>5, <2>6, <2>7, <2>8, <2>9, <2>10, <2>11
           DEF Next
<1>3. HonouredInv => OrgSwitchHonoured
    BY DEF HonouredInv, OrgSwitchHonoured, HasBody, AllowedLately
<1>4. QED
    BY <1>1, <1>2, <1>3, SwitchesKeepTheirPromises, OrgInvariant, CaptureInvariant,
       PTL DEF Spec

-----------------------------------------------------------------------------
(* The settings, composed with the trained models.                         *)

\* Every step of the running gateway is one of the settings, or leaves them.
LEMMA RunningStepIsSettingsStep == [RunningNext]_runningVars => [SettingsNext]_settingsVars
    BY DEF RunningNext, runningVars, NewProcess, ChangeDocument, ChangeModels,
           SettingsNext, Putting

\* The settings of the running gateway are those that GatewaySettings
\* specifies, in whatever order settings and models change: the
\* theorems about SettingsSpec hold of the running gateway.
THEOREM RunningKeepsSettings == RunningSpec => SettingsSpec
<1>1. RunningInit => SettingsInit
    BY DEF RunningInit
<1>2. QED
    BY <1>1, RunningStepIsSettingsStep, PTL DEF RunningSpec, SettingsSpec

\* What runs was in the database first, and between quiet PUTs it is what the
\* row holds, while models are trained and switched and the process restarts
\* (load_and_apply, put_settings).
THEOREM RunningSettingsAgree ==
    RunningSpec => [](RunningSettingsWereStored /\ QuietSettingsAgree)
BY RunningKeepsSettings, RunningSettingsStored, QuietSettingsFollowTheRow, PTL

-----------------------------------------------------------------------------
(* The table of trained models.                                            *)

AnyWeights == Weights \cup UNION {WeightsFile[k] : k \in Kinds}

ModelRow == [kind : Kinds, weights : Weights, active : BOOLEAN]

RowsOK == rows \in [Slots -> SUBSET ModelRow]

\* A row is active for a kind when its slot holds it so.
LEMMA ActiveRows ==
    ASSUME NEW k, NEW r
    PROVE  r \in ActiveOf(k) <=>
             \E s \in Slots : r \in rows[s] /\ r.active /\ r.kind = k
    BY DEF ActiveOf

\* A row that is switched on or off is otherwise the same.
LEMMA RowSwitched ==
    ASSUME NEW r \in ModelRow, NEW on \in BOOLEAN
    PROVE  /\ [r EXCEPT !.active = on] \in ModelRow
           /\ [r EXCEPT !.active = on].kind = r.kind
           /\ [r EXCEPT !.active = on].weights = r.weights
           /\ [r EXCEPT !.active = on].active = on
    BY DEF ModelRow

\* What a load finds is of the right type.
LEMMA StoredType ==
    ASSUME RowsOK, NEW k \in Kinds
    PROVE  Stored(k) \subseteq AnyWeights
    <1>1. \A r \in ActiveOf(k) : r.weights \in Weights
        BY ActiveRows DEF RowsOK, ModelRow
    <1>2. QED
        BY <1>1 DEF Stored, AnyWeights

\* A kind that a write does not concern has the active rows it had.
Untouched(kinds) ==
    /\ settled' = settled \ kinds
    /\ \A k \in Kinds \ kinds : ActiveOf(k)' = ActiveOf(k)

\* Storing weights leaves every kind but those of the slot's active rows alone.
LEMMA StoreWrites ==
    ASSUME RowsOK, NEW w \in Weights, StoreRow(w)
    PROVE  /\ RowsOK'
           /\ \E kinds : Untouched(kinds)
           /\ rows'[w.slot] # {}
           /\ \A r \in rows'[w.slot] : r.weights = w
           /\ (\A r \in rows[w.slot] : r.kind = w.kind) =>
                 \A r \in rows'[w.slot] : r.kind = w.kind
    <1> DEFINE slot == w.slot
               kinds == {r.kind : r \in {one \in rows[slot] : one.active}}
               fresh == [kind |-> w.kind, weights |-> w, active |-> FALSE]
               renewed(r) == [r EXCEPT !.weights = w]
               news == IF rows[slot] = {} THEN {fresh}
                       ELSE {renewed(r) : r \in rows[slot]}
    <1>0. slot \in Slots /\ w.kind \in Kinds /\ rows \in [Slots -> SUBSET ModelRow]
        BY ModelsAssumption DEF RowsOK
    <1>1. /\ rows' = [rows EXCEPT ![slot] = news]
          /\ settled' = settled \ kinds
        BY DEF StoreRow, Write, Upserted
    <1>2. /\ fresh \in ModelRow /\ fresh.weights = w /\ fresh.kind = w.kind
          /\ fresh.active = FALSE
        BY <1>0 DEF ModelRow
    <1>3. ASSUME NEW r \in rows[slot]
          PROVE  /\ renewed(r) \in ModelRow /\ renewed(r).weights = w
                 /\ renewed(r).kind = r.kind
                 /\ renewed(r).active = r.active
        <2>1. r \in ModelRow
            BY <1>0
        <2>2. QED
            BY <2>1 DEF ModelRow
    <1> HIDE DEF fresh, renewed
    <1>4. /\ news \in SUBSET ModelRow /\ news # {}
          /\ \A r \in news : r.weights = w
          /\ (\A r \in rows[slot] : r.kind = w.kind) =>
                \A r \in news : r.kind = w.kind
        <2>1. CASE rows[slot] = {}
            BY <1>2, <2>1
        <2>2. CASE rows[slot] # {}
            BY <1>3, <2>2
        <2>3. QED
            BY <2>1, <2>2
    <1>5. ASSUME NEW k \in Kinds \ kinds PROVE ActiveOf(k)' = ActiveOf(k)
        <2>1. \A r \in rows[slot] : ~(r.active /\ r.kind = k)
            BY <1>5
        <2>2. \A r \in news : ~(r.active /\ r.kind = k)
            BY <1>2, <1>3, <2>1
        <2> HIDE DEF news
        <2>3. \A s \in Slots \ {slot} : rows'[s] = rows[s]
            BY <1>0, <1>1
        <2>4. rows'[slot] = news
            BY <1>0, <1>1
        <2>5. QED
            BY <2>1, <2>2, <2>3, <2>4 DEF ActiveOf
    <1>6. rows'[slot] = news /\ RowsOK'
        BY <1>0, <1>1, <1>4 DEF RowsOK
    <1>7. Untouched(kinds)
        BY <1>1, <1>5 DEF Untouched
    <1>8. QED
        BY <1>4, <1>6, <1>7

\* Activating a row concerns the kinds of its slot alone; when they are one
\* kind with one weights, a load of that kind finds those.
LEMMA SwitchWrites ==
    ASSUME RowsOK, NEW slot \in Slots, SwitchTo(slot)
    PROVE  /\ RowsOK'
           /\ Untouched({r.kind : r \in rows[slot]})
           /\ \A k, w :
                 /\ rows[slot] # {}
                 /\ \A r \in rows[slot] : r.kind = k /\ r.weights = w
                 => Stored(k)' = {w}
    <1> DEFINE kinds == {r.kind : r \in rows[slot]}
               switched(u, r) ==
                   IF u = slot THEN [r EXCEPT !.active = TRUE]
                   ELSE IF \E one \in rows[slot] : one.kind = r.kind
                        THEN [r EXCEPT !.active = FALSE] ELSE r
    <1>0. rows \in [Slots -> SUBSET ModelRow]
        BY DEF RowsOK
    <1>1. /\ rows' = [u \in Slots |-> {switched(u, r) : r \in rows[u]}]
          /\ settled' = settled \ kinds
        BY DEF SwitchTo, Write, WithActive
    <1>2. ASSUME NEW u \in Slots, NEW r \in rows[u]
          PROVE  /\ switched(u, r) \in ModelRow
                 /\ switched(u, r).kind = r.kind
                 /\ switched(u, r).weights = r.weights
                 /\ u = slot => switched(u, r).active
                 /\ u # slot /\ r.kind \in kinds => ~switched(u, r).active
                 /\ r.kind \notin kinds => switched(u, r) = r
        <2>1. r \in ModelRow
            BY <1>0
        <2>2. CASE u = slot
            BY <2>1, <2>2, RowSwitched
        <2>3. CASE u # slot /\ r.kind \in kinds
            <3>1. switched(u, r) = [r EXCEPT !.active = FALSE]
                BY <2>3
            <3>2. QED
                BY <2>1, <2>3, <3>1, RowSwitched
        <2>4. CASE u # slot /\ r.kind \notin kinds
            <3>1. switched(u, r) = r
                BY <2>4
            <3>2. QED
                BY <2>1, <2>4, <3>1
        <2>5. QED
            BY <2>2, <2>3, <2>4
    <1> HIDE DEF switched
    <1>3. RowsOK'
        BY <1>1, <1>2 DEF RowsOK
    <1>4. ASSUME NEW k \in Kinds \ kinds PROVE ActiveOf(k)' = ActiveOf(k)
        <2>1. ASSUME NEW r PROVE r \in ActiveOf(k)' <=> r \in ActiveOf(k)
            <3>1. ASSUME NEW s \in Slots, r \in rows[s], r.kind = k
                  PROVE  r \in rows'[s]
                BY <1>1, <1>2, <3>1
            <3>2. ASSUME NEW s \in Slots, r \in rows'[s], r.kind = k
                  PROVE  r \in rows[s]
                <4>1. PICK old \in rows[s] : r = switched(s, old)
                    BY <1>1, <3>2
                <4>2. QED
                    BY <1>2, <3>2, <4>1
            <3>3. QED
                BY <3>1, <3>2 DEF ActiveOf
        <2>2. QED
            BY <2>1
    <1>5. ASSUME NEW k, NEW w, rows[slot] # {},
                 \A r \in rows[slot] : r.kind = k /\ r.weights = w
          PROVE  Stored(k)' = {w}
        <2>1. ASSUME NEW r \in ActiveOf(k)' PROVE r.weights = w
            <3>1. PICK s \in Slots : r \in rows'[s] /\ r.active /\ r.kind = k
                BY <2>1 DEF ActiveOf
            <3>2. PICK old \in rows[s] : r = switched(s, old)
                BY <1>1, <3>1
            <3>3. s = slot
                BY <1>2, <1>5, <3>1, <3>2
            <3>4. QED
                BY <1>2, <1>5, <3>2, <3>3
        <2>2. PICK old \in rows[slot] : TRUE
            BY <1>5
        <2>3. switched(slot, old) \in ActiveOf(k)'
            BY <1>1, <1>2, <1>5 DEF ActiveOf
        <2>4. QED
            BY <2>1, <2>3 DEF Stored
    <1>6. QED
        BY <1>1, <1>3, <1>4, <1>5 DEF Untouched

\* Switching kinds off leaves the others alone, and their rows inactive.
LEMMA SwitchOffWrites ==
    ASSUME RowsOK, NEW kinds, SwitchOff(kinds)
    PROVE  /\ RowsOK'
           /\ Untouched(kinds)
           /\ \A k \in kinds : ActiveOf(k)' = {}
    <1> DEFINE off(r) == IF r.kind \in kinds THEN [r EXCEPT !.active = FALSE]
                           ELSE r
    <1>0. rows \in [Slots -> SUBSET ModelRow]
        BY DEF RowsOK
    <1>1. /\ rows' = [u \in Slots |-> {off(r) : r \in rows[u]}]
          /\ settled' = settled \ kinds
        BY DEF SwitchOff, Write, WithoutActive
    <1>2. ASSUME NEW u \in Slots, NEW r \in rows[u]
          PROVE  /\ off(r) \in ModelRow /\ off(r).kind = r.kind
                 /\ r.kind \in kinds => ~off(r).active
                 /\ r.kind \notin kinds => off(r) = r
        <2>1. r \in ModelRow
            BY <1>0
        <2>2. QED
            BY <2>1, RowSwitched
    <1> HIDE DEF off
    <1>3. RowsOK'
        BY <1>1, <1>2 DEF RowsOK
    <1>4. ASSUME NEW k \in Kinds \ kinds PROVE ActiveOf(k)' = ActiveOf(k)
        <2>1. ASSUME NEW r PROVE r \in ActiveOf(k)' <=> r \in ActiveOf(k)
            <3>1. ASSUME NEW s \in Slots, r \in rows[s], r.kind = k
                  PROVE  r \in rows'[s]
                BY <1>1, <1>2, <3>1
            <3>2. ASSUME NEW s \in Slots, r \in rows'[s], r.kind = k
                  PROVE  r \in rows[s]
                <4>1. PICK old \in rows[s] : r = off(old)
                    BY <1>1, <3>2
                <4>2. QED
                    BY <1>2, <3>2, <4>1
            <3>3. QED
                BY <3>1, <3>2 DEF ActiveOf
        <2>2. QED
            BY <2>1
    <1>5. ASSUME NEW k \in kinds, NEW r \in ActiveOf(k)' PROVE FALSE
        <2>1. PICK s \in Slots : r \in rows'[s] /\ r.active /\ r.kind = k
            BY <1>5 DEF ActiveOf
        <2>2. PICK old \in rows[s] : r = off(old)
            BY <1>1, <2>1
        <2>3. QED
            BY <1>2, <2>1, <2>2
    <1>6. QED
        BY <1>1, <1>3, <1>4, <1>5 DEF Untouched

-----------------------------------------------------------------------------
(* The operations in flight.                                               *)

Pcs == {"idle", "storing", "activating", "switching", "reading", "loading",
        "installing", "stopping"}

Job == [pc : Pcs, w : SUBSET AnyWeights, kinds : Seq(Kinds),
        activate : BOOLEAN, clean : BOOLEAN]

\* An operation that is to read, load, install or stop knows a kind; one that
\* is to write weights has one that may be uploaded.
JobTyped(job) ==
    /\ job \in Job
    /\ job.pc \in {"reading", "loading", "installing", "stopping"} => job.kinds # <<>>
    /\ job.pc \in {"storing", "activating", "switching"} =>
         \E w \in Weights : job.w = {w}

\* What a clean operation has found out is still so.
CleanJob(a) ==
    jobs[a].clean =>
      /\ jobs[a].pc = "activating" =>
           \E w \in Weights :
             /\ jobs[a].w = {w}
             /\ rows[w.slot] # {}
             /\ \A r \in rows[w.slot] : r.kind = w.kind /\ r.weights = w
      /\ jobs[a].pc = "installing" =>
           \A k \in ToSet(jobs[a].kinds) :
             jobs[a].w = Stored(k) \/ (jobs[a].w = {} /\ ActiveOf(k) = {})
      /\ jobs[a].pc = "loading" => jobs[a].w = Stored(Head(jobs[a].kinds))

ModelsTyped ==
    /\ RowsOK
    /\ DOMAIN loaded = Kinds
    /\ settled \subseteq Kinds
    /\ DOMAIN jobs = Operators /\ jobs = [a \in Operators |-> jobs[a]]
    /\ \A a \in Operators : JobTyped(jobs[a])

CleanIsAlone ==
    \A a, b \in Operators :
      a # b /\ jobs[a].pc # "idle" /\ jobs[a].clean => jobs[b].pc = "idle"

\* At any time, not between operations only.
SettledAgree == \A k \in settled : loaded[k] = Stored(k)

ModelsInv ==
    /\ ModelsTyped
    /\ CleanIsAlone
    /\ \A a \in Operators : CleanJob(a)
    /\ SettledAgree

\* No operation is one of the right type.
LEMMA NoJobTyped == JobTyped(NoJob)
    BY DEF JobTyped, NoJob, Job, Pcs

\* A process that starts with its files and an empty table agrees with it.
LEMMA ModelsStart == ModelsInit => ModelsInv
<1> SUFFICES ASSUME ModelsInit PROVE ModelsInv
    OBVIOUS
<1> USE DEF ModelsInit
<1>1. \A a \in Operators : jobs[a] = NoJob
    OBVIOUS
<1>2. \A k : ActiveOf(k) = {}
    BY DEF ActiveOf
<1>3. SettledAgree
    BY <1>2 DEF SettledAgree, Stored
<1>4. ModelsTyped
    BY <1>1, NoJobTyped, ModelsAssumption DEF ModelsTyped, RowsOK
<1>5. CleanIsAlone /\ \A a \in Operators : CleanJob(a)
    BY <1>1 DEF CleanIsAlone, CleanJob, NoJob
<1>6. QED
    BY <1>3, <1>4, <1>5 DEF ModelsInv

\* A write of the table leaves the kinds it does not concern in agreement.
LEMMA WritesKeepAgreement ==
    ASSUME ModelsInv, NEW kinds, Untouched(kinds), UNCHANGED loaded
    PROVE  SettledAgree' /\ (DOMAIN loaded = Kinds)' /\ (settled \subseteq Kinds)'
    BY DEF ModelsInv, ModelsTyped, SettledAgree, Untouched, Stored

\* While the table stays, so does what a load finds.
LEMMA TableKept ==
    ASSUME UNCHANGED rows
    PROVE  \A k : ActiveOf(k)' = ActiveOf(k) /\ Stored(k)' = Stored(k)
    <1>1. \A k : ActiveOf(k)' = ActiveOf(k)
        BY DEF ActiveOf
    <1>2. QED
        BY <1>1 DEF Stored

\* While one operation takes a step, no other is clean.
LEMMA OneOperationSteps ==
    ASSUME ModelsInv, NEW a \in Operators, jobs[a].pc # "idle",
           NEW job, jobs' = [jobs EXCEPT ![a] = job], JobTyped(job),
           job.pc # "idle" /\ job.clean => jobs[a].clean,
           CleanJob(a)', RowsOK', SettledAgree',
           (DOMAIN loaded = Kinds)', (settled \subseteq Kinds)'
    PROVE  ModelsInv'
    <1> USE DEF ModelsInv
    <1>1. DOMAIN jobs = Operators /\ jobs'[a] = job
          /\ \A b \in Operators \ {a} : jobs'[b] = jobs[b]
        BY DEF ModelsTyped
    <1>2. \A b \in Operators \ {a} : jobs[b].pc = "idle" \/ ~jobs[b].clean
        BY DEF CleanIsAlone
    <1>3. ModelsTyped'
        BY <1>1 DEF ModelsTyped
    <1>4. CleanIsAlone'
        BY <1>1, <1>2 DEF CleanIsAlone
    <1>5. ASSUME NEW b \in Operators \ {a} PROVE CleanJob(b)'
        BY <1>1, <1>2 DEF CleanJob
    <1>6. QED
        BY <1>3, <1>4, <1>5

\* An operation that has ended is clean of everything.
LEMMA Ended ==
    ASSUME ModelsInv, NEW a \in Operators, Ends(a)
    PROVE  jobs' = [jobs EXCEPT ![a] = NoJob] /\ CleanJob(a)'
    <1>1. jobs'[a] = NoJob
        BY DEF Ends, ModelsInv, ModelsTyped
    <1>2. QED
        BY <1>1 DEF Ends, CleanJob, NoJob

\* An operation that ends with memory and table in agreement keeps the invariant.
LEMMA EndKeeps ==
    ASSUME ModelsInv, NEW a \in Operators, jobs[a].pc # "idle", Ends(a),
           RowsOK', SettledAgree', (DOMAIN loaded = Kinds)', (settled \subseteq Kinds)'
    PROVE  ModelsInv'
    <1>1. NoJob.pc = "idle"
        BY DEF NoJob
    <1>2. QED
        BY <1>1, Ended, NoJobTyped, OneOperationSteps

\* An operation begins; it is clean when it is alone, and the others are not.
LEMMA BeginKeeps ==
    ASSUME ModelsInv, NEW a \in Operators, NEW job, BeginJob(a, job),
           JobTyped(job), job.pc \in {"storing", "switching", "reading", "stopping"}
    PROVE  ModelsInv'
    <1> USE DEF ModelsInv
    <1>1. (Busy = {}) \in BOOLEAN
        OBVIOUS
    <1>2. PICK solo \in BOOLEAN : solo = (Busy = {})
        BY <1>1, Zenon
    <1>3. solo => \A b \in Operators : jobs[b].pc = "idle"
        BY <1>2 DEF Busy
    <1> DEFINE first == [job EXCEPT !.clean = solo]
               other(b) == [jobs[b] EXCEPT !.clean = FALSE]
    <1>4. /\ jobs' = [b \in Operators |-> IF b = a THEN first ELSE other(b)]
          /\ UNCHANGED <<rows, loaded, settled>>
        BY <1>2, Zenon DEF BeginJob
    <1>5. JobTyped(first) /\ first.pc = job.pc /\ first.clean = solo
        BY DEF JobTyped, Job
    <1>6. ASSUME NEW b \in Operators
          PROVE  JobTyped(other(b)) /\ other(b).pc = jobs[b].pc /\ other(b).clean = FALSE
        BY DEF JobTyped, Job, ModelsTyped
    <1> HIDE DEF first, other
    <1>7. ModelsTyped'
        BY <1>4, <1>5, <1>6 DEF ModelsTyped, RowsOK
    <1>8. CleanIsAlone'
        <2>1. SUFFICES ASSUME NEW b \in Operators, NEW c \in Operators, b # c,
                              jobs'[b].pc # "idle", jobs'[b].clean
                       PROVE  jobs'[c].pc = "idle"
            BY DEF CleanIsAlone
        <2>2. b = a /\ solo
            BY <1>4, <1>5, <1>6, <2>1
        <2>3. QED
            BY <1>3, <1>4, <1>6, <2>1, <2>2
    <1>9. ASSUME NEW b \in Operators PROVE CleanJob(b)'
        BY <1>4, <1>5, <1>6 DEF CleanJob
    <1>10. SettledAgree'
        BY <1>4, TableKept DEF SettledAgree
    <1>11. QED
        BY <1>7, <1>8, <1>9, <1>10

\* The kinds an operation may begin with.
LEMMA KindsTyped ==
    /\ <<>> \in Seq(Kinds)
    /\ BothKinds \in Seq(Kinds) /\ BothKinds # <<>>
    /\ \A k \in Kinds : <<k>> \in Seq(Kinds) /\ <<k>> # <<>>
    BY DEF BothKinds, Kinds

\* Changing some fields of an operation leaves the others.
IsJob(job, pc, w, kinds, clean) ==
    job \in Job /\ job.pc = pc /\ job.w = w /\ job.kinds = kinds /\ job.clean = clean

\* An operation at another place, with the fields that step writes.
LEMMA ChangedJob ==
    ASSUME NEW job \in Job, NEW pc \in Pcs
    PROVE  /\ \A w \in SUBSET AnyWeights :
                IsJob([job EXCEPT !.pc = pc, !.w = w], pc, w, job.kinds, job.clean)
           /\ \A w \in SUBSET AnyWeights, activate \in BOOLEAN :
                IsJob([job EXCEPT !.pc = pc, !.w = w, !.activate = activate],
                      pc, w, job.kinds, job.clean)
           /\ \A kinds \in Seq(Kinds) :
                IsJob([job EXCEPT !.pc = pc, !.kinds = kinds], pc, job.w, kinds, job.clean)
           /\ \A clean \in BOOLEAN :
                IsJob([job EXCEPT !.pc = pc, !.clean = clean], pc, job.w, job.kinds, clean)
    <1> USE DEF IsJob
    <1>1. ASSUME NEW w \in SUBSET AnyWeights
          PROVE  IsJob([job EXCEPT !.pc = pc, !.w = w], pc, w, job.kinds, job.clean)
        BY DEF Job
    <1>2. ASSUME NEW w \in SUBSET AnyWeights, NEW activate \in BOOLEAN
          PROVE  IsJob([job EXCEPT !.pc = pc, !.w = w, !.activate = activate],
                       pc, w, job.kinds, job.clean)
        BY DEF Job
    <1>3. ASSUME NEW kinds \in Seq(Kinds)
          PROVE  IsJob([job EXCEPT !.pc = pc, !.kinds = kinds], pc, job.w, kinds, job.clean)
        BY DEF Job
    <1>4. ASSUME NEW clean \in BOOLEAN
          PROVE  IsJob([job EXCEPT !.pc = pc, !.clean = clean], pc, job.w, job.kinds, clean)
        BY DEF Job
    <1>5. QED
        BY <1>1, <1>2, <1>3, <1>4

\* upload_router_model, activate_router_model, reload_router_models and
\* deactivate_router_model keep the invariant as they begin.
LEMMA BeginOperationKeeps ==
    ASSUME ModelsInv, NEW a \in Operators, BeginOperation(a) PROVE ModelsInv'
    <1>1. PICK none : none = NoJob
        OBVIOUS
    <1>2. none \in Job /\ none.w = {} /\ none.kinds = <<>>
        BY <1>1 DEF NoJob, Job, Pcs
    <1>3. ASSUME NEW w \in Weights, NEW activate \in BOOLEAN, Upload(a, w, activate)
          PROVE  ModelsInv'
        <2>1. PICK job : job = [none EXCEPT !.pc = "storing", !.w = {w}, !.activate = activate]
            OBVIOUS
        <2>2. {w} \in SUBSET AnyWeights
            BY DEF AnyWeights
        <2>3. IsJob(job, "storing", {w}, <<>>, none.clean)
            BY <1>2, <2>1, <2>2, ChangedJob DEF Pcs
        <2>4. JobTyped(job) /\ job.pc = "storing"
            BY <1>2, <2>2, <2>3 DEF JobTyped, IsJob
        <2>5. BeginJob(a, job)
            BY <1>1, <1>3, <2>1 DEF Upload
        <2>6. QED
            BY <2>4, <2>5, BeginKeeps
    <1>4. ASSUME NEW w \in Weights, Activate(a, w) PROVE ModelsInv'
        <2>1. PICK job : job = [none EXCEPT !.pc = "switching", !.w = {w}]
            OBVIOUS
        <2>2. {w} \in SUBSET AnyWeights
            BY DEF AnyWeights
        <2>3. IsJob(job, "switching", {w}, <<>>, none.clean)
            BY <1>2, <2>1, <2>2, ChangedJob DEF Pcs
        <2>4. JobTyped(job) /\ job.pc = "switching"
            BY <1>2, <2>2, <2>3 DEF JobTyped, IsJob
        <2>5. BeginJob(a, job)
            BY <1>1, <1>4, <2>1 DEF Activate
        <2>6. QED
            BY <2>4, <2>5, BeginKeeps
    <1>5. CASE Reload(a)
        <2>1. PICK job : job = [none EXCEPT !.pc = "reading", !.kinds = BothKinds]
            OBVIOUS
        <2>2. IsJob(job, "reading", {}, BothKinds, none.clean)
            BY <1>2, <2>1, KindsTyped, ChangedJob DEF Pcs
        <2>3. JobTyped(job) /\ job.pc = "reading"
            BY <1>2, <2>2, KindsTyped DEF JobTyped, IsJob
        <2>4. BeginJob(a, job)
            BY <1>1, <1>5, <2>1 DEF Reload
        <2>5. QED
            BY <2>3, <2>4, BeginKeeps
    <1>6. ASSUME NEW ks \in {BothKinds} \cup {<<k>> : k \in Kinds}, Deactivate(a, ks)
          PROVE  ModelsInv'
        <2>1. PICK job : job = [none EXCEPT !.pc = "stopping", !.kinds = ks]
            OBVIOUS
        <2>2. ks \in Seq(Kinds) /\ ks # <<>>
            BY KindsTyped
        <2>3. IsJob(job, "stopping", {}, ks, none.clean)
            BY <1>2, <2>1, <2>2, ChangedJob DEF Pcs
        <2>4. JobTyped(job) /\ job.pc = "stopping"
            BY <1>2, <2>2, <2>3 DEF JobTyped, IsJob
        <2>5. BeginJob(a, job)
            BY <1>1, <1>6, <2>1 DEF Deactivate
        <2>6. QED
            BY <2>4, <2>5, BeginKeeps
    <1>7. QED
        BY <1>3, <1>4, <1>5, <1>6 DEF BeginOperation

\* Changing fields of one operation in place is putting the changed one there.
LEMMA ChangedInPlace ==
    ASSUME ModelsInv, NEW a \in Operators, NEW pc, NEW w, NEW kinds, NEW clean
    PROVE  /\ [jobs EXCEPT ![a].pc = pc, ![a].w = w] =
                [jobs EXCEPT ![a] = [jobs[a] EXCEPT !.pc = pc, !.w = w]]
           /\ [jobs EXCEPT ![a].pc = pc, ![a].kinds = kinds] =
                [jobs EXCEPT ![a] = [jobs[a] EXCEPT !.pc = pc, !.kinds = kinds]]
           /\ [jobs EXCEPT ![a].pc = pc, ![a].clean = @ /\ clean] =
                [jobs EXCEPT ![a] = [jobs[a] EXCEPT !.pc = pc, !.clean = @ /\ clean]]
    BY DEF ModelsInv, ModelsTyped

\* upload_router_model stores the weights; the row of a clean upload that is to
\* be activated holds them under their own kind.
LEMMA StoreUploadKeeps ==
    ASSUME ModelsInv, NEW a \in Operators, StoreUpload(a) PROVE ModelsInv'
    <1>0. /\ RowsOK /\ jobs[a] \in Job /\ jobs[a].pc # "idle"
          /\ \E w \in Weights : jobs[a].w = {w}
        BY DEF StoreUpload, ModelsInv, ModelsTyped, JobTyped
    <1>1. PICK w \in jobs[a].w :
            /\ StoreRow(w)
            /\ IF jobs[a].activate
               THEN jobs' = [jobs EXCEPT ![a].pc = "activating",
                        ![a].clean = @ /\ \A r \in rows[w.slot] : r.kind = w.kind]
               ELSE Ends(a)
        BY Zenon DEF StoreUpload
    <1>2. w \in Weights /\ jobs[a].w = {w} /\ UNCHANGED loaded
        BY <1>0, <1>1 DEF StoreUpload
    <1>3. PICK kinds : Untouched(kinds)
        BY <1>0, <1>1, <1>2, StoreWrites
    <1>4. RowsOK' /\ SettledAgree' /\ (DOMAIN loaded = Kinds)' /\ (settled \subseteq Kinds)'
        BY <1>0, <1>1, <1>2, <1>3, StoreWrites, WritesKeepAgreement
    <1>5. CASE ~jobs[a].activate
        BY <1>0, <1>1, <1>4, <1>5, EndKeeps
    <1>6. CASE jobs[a].activate
        <2>1. (\A r \in rows[w.slot] : r.kind = w.kind) \in BOOLEAN
            OBVIOUS
        <2>2. PICK own \in BOOLEAN : own = (\A r \in rows[w.slot] : r.kind = w.kind)
            BY <2>1, Zenon
        <2>3. PICK clean \in BOOLEAN : clean = (jobs[a].clean /\ own)
            BY <1>0, <2>2 DEF Job
        <2>4. PICK job : job = [jobs[a] EXCEPT !.pc = "activating", !.clean = @ /\ own]
            OBVIOUS
        <2>5. jobs' = [jobs EXCEPT ![a] = job]
            <3>1. jobs' = [jobs EXCEPT ![a].pc = "activating", ![a].clean = @ /\ own]
                BY <1>1, <1>6, <2>2, Zenon
            <3>2. QED
                BY <2>4, <3>1, ChangedInPlace, ZenonT(30)
        <2>6. IsJob(job, "activating", jobs[a].w, jobs[a].kinds, clean)
            <3>1. job = [jobs[a] EXCEPT !.pc = "activating", !.clean = clean]
                BY <1>0, <2>3, <2>4 DEF Job
            <3>2. QED
                BY <1>0, <3>1, ChangedJob DEF Pcs
        <2>7. JobTyped(job) /\ job.pc = "activating" /\ (job.clean => jobs[a].clean /\ own)
            BY <1>0, <2>3, <2>6 DEF JobTyped, IsJob
        <2>8. CleanJob(a)'
            <3>1. jobs'[a] = job
                BY <2>5 DEF ModelsInv, ModelsTyped
            <3>2. SUFFICES ASSUME job.clean
                           PROVE  /\ job.w = {w}
                                  /\ rows'[w.slot] # {}
                                  /\ \A r \in rows'[w.slot] :
                                       r.kind = w.kind /\ r.weights = w
                BY <1>2, <2>7, <3>1 DEF CleanJob
            <3>3. rows'[w.slot] # {} /\ \A r \in rows'[w.slot] :
                                          r.kind = w.kind /\ r.weights = w
                BY <1>0, <1>1, <1>2, <2>2, <2>7, <3>2, StoreWrites
            <3>4. QED
                BY <1>2, <2>6, <3>3 DEF IsJob
        <2>9. QED
            BY <1>0, <1>4, <2>5, <2>7, <2>8, OneOperationSteps
    <1>7. QED
        BY <1>5, <1>6

\* The upload activates its row: when it is clean, a load finds its weights.
LEMMA ActivateUploadKeeps ==
    ASSUME ModelsInv, NEW a \in Operators, ActivateUpload(a) PROVE ModelsInv'
    <1>0. /\ RowsOK /\ jobs[a] \in Job /\ jobs[a].pc # "idle"
          /\ \E w \in Weights : jobs[a].w = {w}
        BY DEF ActivateUpload, ModelsInv, ModelsTyped, JobTyped
    <1>1. PICK w \in jobs[a].w :
            /\ SwitchTo(w.slot)
            /\ jobs' = [jobs EXCEPT ![a].pc = "installing", ![a].kinds = <<w.kind>>]
        BY DEF ActivateUpload
    <1>2. w \in Weights /\ w.slot \in Slots /\ w.kind \in Kinds /\ jobs[a].w = {w}
          /\ UNCHANGED loaded
        BY <1>0, <1>1, ModelsAssumption DEF ActivateUpload
    <1>3. RowsOK' /\ Untouched({r.kind : r \in rows[w.slot]})
        BY <1>0, <1>1, <1>2, SwitchWrites
    <1>4. SettledAgree' /\ (DOMAIN loaded = Kinds)' /\ (settled \subseteq Kinds)'
        BY <1>2, <1>3, WritesKeepAgreement
    <1>5. PICK job : job = [jobs[a] EXCEPT !.pc = "installing", !.kinds = <<w.kind>>]
        OBVIOUS
    <1>6. jobs' = [jobs EXCEPT ![a] = job]
        BY <1>1, <1>5, ChangedInPlace, ZenonT(30)
    <1>7. IsJob(job, "installing", {w}, <<w.kind>>, jobs[a].clean) /\ <<w.kind>> # <<>>
        BY <1>0, <1>2, <1>5, KindsTyped, ChangedJob DEF Pcs
    <1>8. CleanJob(a)'
        <2>1. jobs'[a] = job
            BY <1>6 DEF ModelsInv, ModelsTyped
        <2>2. jobs[a].clean => Stored(w.kind)' = {w}
            <3>1. CASE jobs[a].clean
                <4>1. CleanJob(a) /\ jobs[a].pc = "activating"
                    BY DEF ModelsInv, ActivateUpload
                <4>2. rows[w.slot] # {} /\ \A r \in rows[w.slot] :
                                             r.kind = w.kind /\ r.weights = w
                    <5>1. PICK v \in Weights :
                            /\ jobs[a].w = {v}
                            /\ rows[v.slot] # {}
                            /\ \A r \in rows[v.slot] :
                                 r.kind = v.kind /\ r.weights = v
                        BY <3>1, <4>1 DEF CleanJob
                    <5>2. {v} = {w}
                        BY <1>2, <5>1
                    <5>3. v = w
                        BY <5>2, Zenon
                    <5>4. QED
                        BY <5>1, <5>3
                <4>3. \A k, v :
                        /\ rows[w.slot] # {}
                        /\ \A r \in rows[w.slot] : r.kind = k /\ r.weights = v
                        => Stored(k)' = {v}
                    BY <1>0, <1>1, <1>2, SwitchWrites, Zenon
                <4>4. QED
                    BY <4>2, <4>3
            <3>2. QED
                BY <3>1
        <2>3. \A k \in ToSet(<<w.kind>>) : k = w.kind
            BY DEF ToSet
        <2>4. QED
            BY <1>7, <2>1, <2>2, <2>3 DEF CleanJob, IsJob
    <1>9. QED
        BY <1>0, <1>3, <1>4, <1>6, <1>7, <1>8, OneOperationSteps DEF JobTyped, IsJob

\* activate_router_model switches to the row, if it is there, and will load its kind.
LEMMA SwitchRowKeeps ==
    ASSUME ModelsInv, NEW a \in Operators, SwitchRow(a) PROVE ModelsInv'
    <1>0. /\ RowsOK /\ jobs[a] \in Job /\ jobs[a].pc # "idle" /\ UNCHANGED loaded
          /\ \E w \in Weights : jobs[a].w = {w}
        BY DEF SwitchRow, ModelsInv, ModelsTyped, JobTyped
    <1>1. PICK w \in jobs[a].w :
            IF rows[w.slot] = {} THEN Ends(a) /\ UNCHANGED <<rows, settled>>
            ELSE \E r \in rows[w.slot] :
                   /\ SwitchTo(w.slot)
                   /\ jobs' = [jobs EXCEPT ![a].pc = "reading", ![a].kinds = <<r.kind>>]
        BY DEF SwitchRow
    <1>2. w.slot \in Slots
        BY <1>0, <1>1, ModelsAssumption
    <1>3. CASE rows[w.slot] = {}
        <2>1. Untouched({}) /\ RowsOK'
            BY <1>0, <1>1, <1>3, TableKept DEF Untouched, RowsOK
        <2>2. QED
            BY <1>0, <1>1, <1>3, <2>1, WritesKeepAgreement, EndKeeps
    <1>4. CASE rows[w.slot] # {}
        <2>1. PICK found \in rows[w.slot] :
                /\ SwitchTo(w.slot)
                /\ jobs' = [jobs EXCEPT ![a].pc = "reading", ![a].kinds = <<found.kind>>]
            BY <1>1, <1>4
        <2>2. RowsOK' /\ Untouched({r.kind : r \in rows[w.slot]})
            BY <1>0, <1>2, <2>1, SwitchWrites
        <2>3. SettledAgree' /\ (DOMAIN loaded = Kinds)' /\ (settled \subseteq Kinds)'
            BY <1>0, <2>2, WritesKeepAgreement
        <2>4. found.kind \in Kinds
            BY <1>0, <1>2, <2>1 DEF RowsOK, ModelRow
        <2>5. PICK job : job = [jobs[a] EXCEPT !.pc = "reading", !.kinds = <<found.kind>>]
            OBVIOUS
        <2>6. jobs' = [jobs EXCEPT ![a] = job]
            BY <2>1, <2>5, ChangedInPlace, ZenonT(30)
        <2>7. IsJob(job, "reading", jobs[a].w, <<found.kind>>, jobs[a].clean)
              /\ <<found.kind>> # <<>>
            BY <1>0, <2>4, <2>5, KindsTyped, ChangedJob DEF Pcs
        <2>8. CleanJob(a)'
            BY <2>6, <2>7 DEF CleanJob, IsJob, ModelsInv, ModelsTyped
        <2>9. QED
            BY <1>0, <2>2, <2>3, <2>6, <2>7, <2>8, OneOperationSteps DEF JobTyped, IsJob
    <1>5. QED
        BY <1>3, <1>4

\* deactivate_router_model switches its kinds off before it empties their memory.
LEMMA StopRowsKeeps ==
    ASSUME ModelsInv, NEW a \in Operators, StopRows(a) PROVE ModelsInv'
    <1> DEFINE kinds == jobs[a].kinds
    <1>0. /\ RowsOK /\ jobs[a] \in Job /\ jobs[a].pc # "idle" /\ UNCHANGED loaded
          /\ kinds \in Seq(Kinds) /\ kinds # <<>>
          /\ SwitchOff(ToSet(kinds))
          /\ jobs' = [jobs EXCEPT ![a].pc = "installing", ![a].w = {}]
        BY DEF StopRows, ModelsInv, ModelsTyped, JobTyped, Job
    <1>1. PICK stopped : stopped = ToSet(kinds)
        OBVIOUS
    <1>2. RowsOK' /\ Untouched(stopped) /\ \A k \in stopped : ActiveOf(k)' = {}
        BY <1>0, <1>1, SwitchOffWrites
    <1>3. SettledAgree' /\ (DOMAIN loaded = Kinds)' /\ (settled \subseteq Kinds)'
        BY <1>0, <1>2, WritesKeepAgreement
    <1>4. PICK job : job = [jobs[a] EXCEPT !.pc = "installing", !.w = {}]
        OBVIOUS
    <1>5. jobs' = [jobs EXCEPT ![a] = job]
        BY <1>0, <1>4, ChangedInPlace, ZenonT(30)
    <1>6. IsJob(job, "installing", {}, kinds, jobs[a].clean)
        BY <1>0, <1>4, ChangedJob DEF Pcs
    <1>7. CleanJob(a)'
        <2>1. jobs'[a] = job
            BY <1>5 DEF ModelsInv, ModelsTyped
        <2>2. \A k \in ToSet(job.kinds) : ActiveOf(k)' = {}
            BY <1>1, <1>2, <1>6 DEF IsJob
        <2>3. QED
            BY <1>6, <2>1, <2>2 DEF CleanJob, IsJob
    <1>8. QED
        BY <1>0, <1>2, <1>3, <1>5, <1>6, <1>7, OneOperationSteps DEF JobTyped, IsJob

\* A reload reads what is stored; the memory follows in a step of its own.
LEMMA ReadStoredKeeps ==
    ASSUME ModelsInv, NEW a \in Operators, ReadStored(a) PROVE ModelsInv'
    <1> DEFINE kinds == jobs[a].kinds
    <1>0. /\ RowsOK /\ jobs[a] \in Job /\ jobs[a].pc # "idle"
          /\ UNCHANGED <<rows, loaded, settled>>
          /\ kinds \in Seq(Kinds) /\ kinds # <<>> /\ Head(kinds) \in Kinds
        BY DEF ReadStored, ModelsInv, ModelsTyped, JobTyped, Job
    <1>1. PICK k, found : k \in Kinds /\ k = Head(kinds) /\ found = Stored(k)
        BY <1>0
    <1>2. found \in SUBSET AnyWeights /\ Stored(k)' = found
        BY <1>0, <1>1, StoredType, TableKept
    <1>3. PICK job : job = [jobs[a] EXCEPT !.pc = "loading", !.w = found]
        OBVIOUS
    <1>4. jobs' = [jobs EXCEPT ![a] = job]
        <2>1. jobs' = [jobs EXCEPT ![a].pc = "loading", ![a].w = found]
            BY <1>1 DEF ReadStored
        <2>2. QED
            BY <1>3, <2>1, ChangedInPlace, ZenonT(30)
    <1>5. IsJob(job, "loading", found, kinds, jobs[a].clean)
        BY <1>0, <1>2, <1>3, ChangedJob DEF Pcs
    <1>6. CleanJob(a)'
        <2>1. jobs'[a] = job /\ job.kinds = kinds
            BY <1>4, <1>5 DEF IsJob, ModelsInv, ModelsTyped
        <2>2. Stored(Head(job.kinds))' = job.w
            BY <1>1, <1>2, <1>5, <2>1 DEF IsJob
        <2>3. QED
            BY <1>5, <2>1, <2>2 DEF CleanJob, IsJob
    <1>7. RowsOK' /\ SettledAgree' /\ (DOMAIN loaded = Kinds)' /\ (settled \subseteq Kinds)'
        BY <1>0, TableKept DEF RowsOK, SettledAgree, ModelsInv, ModelsTyped
    <1>8. QED
        BY <1>0, <1>4, <1>5, <1>6, <1>7, OneOperationSteps DEF JobTyped, IsJob

\* Setting the memory of a kind keeps the agreement when a clean operation
\* brings what a load would find.
LEMMA SetMemoryKeepsAgreement ==
    ASSUME ModelsInv, NEW a \in Operators, NEW k \in Kinds, UNCHANGED rows,
           SetMemory(a, k),
           jobs[a].clean =>
             jobs[a].w = Stored(k) \/ (jobs[a].w = {} /\ ActiveOf(k) = {})
    PROVE  /\ RowsOK' /\ SettledAgree'
           /\ (DOMAIN loaded = Kinds)' /\ (settled \subseteq Kinds)'
    <1> DEFINE w == jobs[a].w
               brings == jobs[a].clean /\ (w # {} \/ WeightsFile[k] = {})
    <1>1. RowsOK /\ DOMAIN loaded = Kinds /\ settled \subseteq Kinds /\ SettledAgree
        BY DEF ModelsInv, ModelsTyped
    <1>2. /\ loaded' = [loaded EXCEPT ![k] = w]
          /\ settled' = IF brings THEN settled \cup {k} ELSE settled \ {k}
        BY DEF SetMemory
    <1>3. brings => w = Stored(k)
        BY DEF Stored
    <1>4. loaded'[k] = w /\ \A l \in Kinds \ {k} : loaded'[l] = loaded[l]
        BY <1>1, <1>2
    <1>5. ASSUME NEW l \in settled' PROVE loaded'[l] = Stored(l)'
        <2>1. Stored(l)' = Stored(l)
            BY TableKept
        <2>2. CASE l = k
            BY <1>2, <1>3, <1>4, <2>1, <2>2
        <2>3. CASE l # k
            BY <1>1, <1>2, <1>4, <2>1, <2>3 DEF SettledAgree
        <2>4. QED
            BY <2>2, <2>3
    <1>6. RowsOK' /\ (DOMAIN loaded = Kinds)' /\ (settled \subseteq Kinds)'
        BY <1>1, <1>2 DEF RowsOK
    <1>7. SettledAgree'
        BY <1>5 DEF SettledAgree
    <1>8. QED
        BY <1>6, <1>7

\* The kinds that are left after the first are among those there were.
LEMMA KindsLeft ==
    ASSUME NEW kinds \in Seq(Kinds), kinds # <<>>
    PROVE  /\ Head(kinds) \in Kinds /\ Head(kinds) \in ToSet(kinds)
           /\ Len(kinds) # 1 =>
                /\ Tail(kinds) \in Seq(Kinds) /\ Tail(kinds) # <<>>
                /\ ToSet(Tail(kinds)) \subseteq ToSet(kinds)
    <1>1. Len(kinds) \in Nat \ {0} /\ Head(kinds) = kinds[1] /\ 1 \in DOMAIN kinds
        OBVIOUS
    <1>2. ASSUME Len(kinds) # 1
          PROVE  /\ Tail(kinds) \in Seq(Kinds) /\ Tail(kinds) # <<>>
                 /\ ToSet(Tail(kinds)) \subseteq ToSet(kinds)
        <2>1. Tail(kinds) \in Seq(Kinds) /\ Len(Tail(kinds)) = Len(kinds) - 1
            BY <1>1
        <2>2. \A i \in DOMAIN Tail(kinds) :
                Tail(kinds)[i] = kinds[i + 1] /\ i + 1 \in DOMAIN kinds
            BY <1>1
        <2>3. ToSet(Tail(kinds)) \subseteq ToSet(kinds)
            BY <2>2 DEF ToSet
        <2>4. Tail(kinds) # <<>>
            <3>1. PICK rest : rest = Tail(kinds)
                OBVIOUS
            <3>2. Len(rest) # 0
                BY <1>1, <1>2, <2>1, <3>1
            <3>3. rest # <<>>
                BY <3>2
            <3>4. QED
                BY <3>1, <3>3
        <2>5. QED
            BY <2>1, <2>3, <2>4
    <1>3. Head(kinds) \in Kinds /\ Head(kinds) \in ToSet(kinds)
        BY <1>1 DEF ToSet
    <1>4. QED
        BY <1>2, <1>3

\* An operation that has set the memory of a kind goes on or ends: what is left
\* for it to install is still what it found out.
LEMMA AdvanceKeeps ==
    ASSUME ModelsInv, NEW a \in Operators, NEW pc \in {"installing", "reading"},
           jobs[a].pc \in {"installing", "loading"},
           pc = "installing" => jobs[a].pc = "installing",
           UNCHANGED rows, SetMemory(a, Head(jobs[a].kinds)), Advance(a, pc)
    PROVE  ModelsInv'
    <1> DEFINE kinds == jobs[a].kinds
    <1>1. /\ jobs[a] \in Job /\ jobs[a].pc # "idle"
          /\ kinds \in Seq(Kinds) /\ kinds # <<>>
          /\ CleanJob(a)
        BY DEF ModelsInv, ModelsTyped, JobTyped, Job
    <1>2. PICK k : k = Head(kinds) /\ k \in Kinds /\ k \in ToSet(kinds)
        BY <1>1, KindsLeft
    <1>3. jobs[a].clean =>
            jobs[a].w = Stored(k) \/ (jobs[a].w = {} /\ ActiveOf(k) = {})
        BY <1>1, <1>2 DEF CleanJob
    <1>4. SetMemory(a, k)
        BY <1>2
    <1>5. /\ RowsOK' /\ SettledAgree'
          /\ (DOMAIN loaded = Kinds)' /\ (settled \subseteq Kinds)'
        BY <1>2, <1>3, <1>4, SetMemoryKeepsAgreement
    <1>6. CASE Len(kinds) = 1
        BY <1>1, <1>5, <1>6, EndKeeps DEF Advance
    <1>7. CASE Len(kinds) # 1
        <2>1. PICK rest : rest = Tail(kinds)
            OBVIOUS
        <2>2. rest \in Seq(Kinds) /\ rest # <<>> /\ ToSet(rest) \subseteq ToSet(kinds)
            BY <1>1, <1>7, <2>1, KindsLeft
        <2>3. PICK job : job = [jobs[a] EXCEPT !.pc = pc, !.kinds = rest]
            OBVIOUS
        <2>4. jobs' = [jobs EXCEPT ![a] = job]
            <3>1. jobs' = [jobs EXCEPT ![a].pc = pc, ![a].kinds = Tail(@)]
                BY <1>7 DEF Advance
            <3>2. jobs' = [jobs EXCEPT ![a].pc = pc, ![a].kinds = rest]
                BY <1>1, <2>1, <3>1 DEF ModelsInv, ModelsTyped, Job
            <3>3. QED
                BY <2>3, <3>2, ChangedInPlace, ZenonT(30)
        <2>5. IsJob(job, pc, jobs[a].w, rest, jobs[a].clean)
            BY <1>1, <2>2, <2>3, ChangedJob DEF Pcs
        <2>6. CleanJob(a)'
            <3>1. jobs'[a] = job
                BY <2>4 DEF ModelsInv, ModelsTyped
            <3>2. SUFFICES ASSUME job.clean, pc = "installing", NEW l \in ToSet(rest)
                           PROVE  job.w = Stored(l)' \/ (job.w = {} /\ ActiveOf(l)' = {})
                BY <2>5, <3>1 DEF CleanJob, IsJob
            <3>3. l \in ToSet(kinds) /\ jobs[a].clean /\ jobs[a].pc = "installing"
                  /\ job.w = jobs[a].w
                BY <2>2, <2>5, <3>2 DEF IsJob
            <3>4. job.w = Stored(l) \/ (job.w = {} /\ ActiveOf(l) = {})
                BY <1>1, <3>3 DEF CleanJob
            <3>5. QED
                BY <3>4, TableKept
        <2>7. QED
            BY <1>1, <1>5, <2>2, <2>4, <2>5, <2>6, OneOperationSteps DEF JobTyped, IsJob
    <1>8. QED
        BY <1>6, <1>7

\* An installation sets one kind after the other.
LEMMA InstallKeeps ==
    ASSUME ModelsInv, NEW a \in Operators, Install(a) PROVE ModelsInv'
    BY AdvanceKeeps DEF Install

\* Weights that do not fit their kind end the reload and leave the memory.
LEMMA LoadModelKeeps ==
    ASSUME ModelsInv, NEW a \in Operators, LoadModel(a) PROVE ModelsInv'
    <1>1. CASE Fits(jobs[a].w, Head(jobs[a].kinds))
        BY <1>1, AdvanceKeeps DEF LoadModel
    <1>2. CASE ~Fits(jobs[a].w, Head(jobs[a].kinds))
        <2>1. Ends(a) /\ UNCHANGED <<rows, loaded, settled>> /\ jobs[a].pc # "idle"
            BY <1>2 DEF LoadModel
        <2>2. RowsOK' /\ Untouched({})
            BY <2>1, TableKept DEF Untouched, RowsOK, ModelsInv, ModelsTyped
        <2>3. QED
            BY <2>1, <2>2, WritesKeepAgreement, EndKeeps
    <1>3. QED
        BY <1>1, <1>2

\* A statement that fails, with or without its effect, ends the operation.
LEMMA StatementFailsKeeps ==
    ASSUME ModelsInv, NEW a \in Operators, StatementFails(a) PROVE ModelsInv'
    <1>1. /\ jobs[a].pc # "idle" /\ Ends(a) /\ UNCHANGED loaded
          /\ RowsOK /\ JobTyped(jobs[a])
        BY DEF StatementFails, ModelsInv, ModelsTyped
    <1>2. ASSUME NEW kinds, Untouched(kinds), RowsOK' PROVE ModelsInv'
        BY <1>1, <1>2, WritesKeepAgreement, EndKeeps
    <1>3. CASE UNCHANGED <<rows, settled>>
        <2>1. Untouched({}) /\ RowsOK'
            BY <1>1, <1>3, TableKept DEF Untouched, RowsOK
        <2>2. QED
            BY <1>2, <2>1
    <1>4. ASSUME NEW w \in jobs[a].w, jobs[a].pc = "storing", StoreRow(w) PROVE ModelsInv'
        <2>1. w \in Weights
            BY <1>1, <1>4 DEF JobTyped
        <2>2. QED
            BY <1>1, <1>2, <1>4, <2>1, StoreWrites
    <1>5. ASSUME NEW w \in jobs[a].w, jobs[a].pc \in {"activating", "switching"},
                 SwitchTo(w.slot)
          PROVE  ModelsInv'
        <2>1. w.slot \in Slots
            BY <1>1, <1>5, ModelsAssumption DEF JobTyped
        <2>2. QED
            BY <1>1, <1>2, <1>5, <2>1, SwitchWrites
    <1>6. CASE SwitchOff(ToSet(jobs[a].kinds))
        <2>1. PICK kinds : kinds = ToSet(jobs[a].kinds)
            OBVIOUS
        <2>2. QED
            BY <1>1, <1>2, <1>6, <2>1, SwitchOffWrites
    <1>7. QED
        BY <1>3, <1>4, <1>5, <1>6 DEF StatementFails

\* A new process has nothing in flight; a kind is settled when it was loaded.
LEMMA ModelsRestartKeeps == ASSUME ModelsInv, ModelsRestart PROVE ModelsInv'
    <1>1. PICK readable \in SUBSET Kinds :
            LET found == [k \in Kinds |->
                            IF k \in readable /\ Fits(Stored(k), k) THEN Stored(k) ELSE {}]
            IN  /\ loaded' = found
                /\ settled' = {k \in Kinds : found[k] = Stored(k)}
        BY DEF ModelsRestart
    <1>2. UNCHANGED rows /\ jobs' = [a \in Operators |-> NoJob]
        BY DEF ModelsRestart
    <1>3. SettledAgree' /\ (DOMAIN loaded = Kinds)' /\ (settled \subseteq Kinds)'
        <2>1. DOMAIN loaded' = Kinds /\ settled' = {k \in Kinds : loaded'[k] = Stored(k)}
            BY <1>1
        <2>2. QED
            BY <1>2, <2>1, TableKept DEF SettledAgree
    <1>4. \A a \in Operators : jobs'[a] = NoJob
        BY <1>2
    <1>5. ModelsTyped'
        BY <1>2, <1>3, <1>4, NoJobTyped DEF ModelsTyped, RowsOK, ModelsInv
    <1>6. CleanIsAlone' /\ \A a \in Operators : CleanJob(a)'
        BY <1>4 DEF CleanIsAlone, CleanJob, NoJob
    <1>7. QED
        BY <1>3, <1>5, <1>6 DEF ModelsInv

\* Every step of the running gateway keeps the invariant.
LEMMA RunningStepKeepsModels == ModelsInv /\ [RunningNext]_runningVars => ModelsInv'
    <1> SUFFICES ASSUME ModelsInv, [RunningNext]_runningVars PROVE ModelsInv'
        OBVIOUS
    <1>1. CASE UNCHANGED modelVars
        <2>1. UNCHANGED <<rows, loaded, jobs, settled>>
            BY <1>1 DEF modelVars
        <2>2. SettledAgree' /\ \A a \in Operators : CleanJob(a)'
            BY <2>1, TableKept DEF SettledAgree, CleanJob, ModelsInv
        <2>3. QED
            BY <2>1, <2>2 DEF ModelsInv, ModelsTyped, RowsOK, CleanIsAlone
    <1>2. ASSUME NEW a \in Admins, ChangeModels(a) PROVE ModelsInv'
        <2>1. a \in Operators
            BY RunningAssumption
        <2>2. BeginOperation(a) \/ ModelStep(a)
            BY <1>2 DEF ChangeModels
        <2>3. QED
            BY <2>1, <2>2, BeginOperationKeeps, StoreUploadKeeps, ActivateUploadKeeps,
               SwitchRowKeeps, StopRowsKeeps, ReadStoredKeeps, InstallKeeps,
               LoadModelKeeps, StatementFailsKeeps DEF ModelStep
    <1>3. CASE NewProcess
        BY <1>3, ModelsRestartKeeps DEF NewProcess
    <1>4. QED
        BY <1>1, <1>2, <1>3 DEF RunningNext, ChangeDocument, runningVars

\* The trained models in memory are those a start would load, at every moment
\* and not between operations only, for the kinds that a clean operation set last.
THEOREM ModelsInvariant == RunningSpec => []ModelsInv
<1>1. RunningInit => ModelsInv
    BY ModelsStart DEF RunningInit
<1>2. QED
    BY <1>1, RunningStepKeepsModels, PTL DEF RunningSpec

\* So they agree between operations, whatever overlaps, fails or restarts
\* beside them.
THEOREM TrainedModelsAgree == RunningSpec => []QuietModelsAgree
<1>1. ModelsInv => QuietModelsAgree
    BY DEF ModelsInv, SettledAgree, QuietModelsAgree
<1>2. QED
    BY <1>1, ModelsInvariant, PTL

-----------------------------------------------------------------------------
(* What is in memory: weights that fit their kind, one at most.            *)

\* A slot has one row, and a kind is active in one slot: what a load finds is
\* one model.
OneActive ==
    /\ \A s \in Slots : \A r, q \in rows[s] : r = q
    /\ \A s, t \in Slots : \A r \in rows[s], q \in rows[t] :
         r.active /\ q.active /\ r.kind = q.kind => s = t

\* An operation carries one model, and installs it as what it is.
OneInHand(job) ==
    /\ \A v, w \in job.w : v = w
    /\ job.pc = "installing" =>
         \A w \in job.w, k \in ToSet(job.kinds) : w.kind = k

MemoryInv ==
    /\ OneActive
    /\ \A a \in Operators : OneInHand(jobs[a])
    /\ \A k \in Kinds : loaded[k] \in Loadable(k)

LEMMA LoadableIs ==
    ASSUME NEW k \in Kinds, NEW found \in SUBSET AnyWeights,
           \A v, w \in found : v = w, \A w \in found : w.kind = k
    PROVE  found \in Loadable(k)
    <1>1. CASE found = {}
        BY <1>1 DEF Loadable
    <1>2. CASE found # {}
        <2>1. PICK w \in found : TRUE
            BY <1>2
        <2>2. found = {w}
            BY <2>1
        <2>3. w \in AnyWeights /\ w.kind = k
            BY <2>1
        <2>4. QED
            BY <2>2, <2>3 DEF Loadable, AnyWeights
    <1>3. QED
        BY <1>1, <1>2

LEMMA OneStored ==
    ASSUME RowsOK, OneActive, NEW k \in Kinds
    PROVE  \A v, w \in Stored(k) : v = w
    <1>1. \A r, q \in ActiveOf(k) : r = q
        <2>1. SUFFICES ASSUME NEW r \in ActiveOf(k), NEW q \in ActiveOf(k) PROVE r = q
            OBVIOUS
        <2>2. PICK s \in Slots : r \in rows[s] /\ r.active /\ r.kind = k
            BY <2>1, ActiveRows
        <2>3. PICK t \in Slots : q \in rows[t] /\ q.active /\ q.kind = k
            BY <2>1, ActiveRows
        <2>4. QED
            BY <2>2, <2>3 DEF OneActive
    <1>2. CASE ActiveOf(k) # {}
        BY <1>1, <1>2 DEF Stored
    <1>3. CASE ActiveOf(k) = {}
        BY <1>3, ModelsAssumption DEF Stored
    <1>4. QED
        BY <1>2, <1>3

LEMMA StoreKeepsOne ==
    ASSUME RowsOK, OneActive, NEW w \in Weights, StoreRow(w)
    PROVE  OneActive'
    <1> DEFINE slot == w.slot
               fresh == [kind |-> w.kind, weights |-> w, active |-> FALSE]
               renewed(r) == [r EXCEPT !.weights = w]
               news == IF rows[slot] = {} THEN {fresh}
                       ELSE {renewed(r) : r \in rows[slot]}
    <1>0. slot \in Slots /\ rows \in [Slots -> SUBSET ModelRow]
        BY ModelsAssumption DEF RowsOK
    <1>1. rows' = [rows EXCEPT ![slot] = news]
        BY DEF StoreRow, Write, Upserted
    <1>2. fresh.active = FALSE
        OBVIOUS
    <1>3. \A r \in rows[slot] : renewed(r).kind = r.kind /\ renewed(r).active = r.active
        BY <1>0 DEF ModelRow
    <1> HIDE DEF fresh, renewed
    <1>4. \A x, y \in news : x = y
        <2>1. CASE rows[slot] = {}
            BY <2>1
        <2>2. CASE rows[slot] # {}
            <3>1. \A r, q \in rows[slot] : r = q
                BY <1>0 DEF OneActive
            <3>2. \A r, q \in rows[slot] : renewed(r) = renewed(q)
                BY <3>1
            <3>3. QED
                BY <2>2, <3>2
        <2>3. QED
            BY <2>1, <2>2
    <1>5. \A x \in news : x.active => \E r \in rows[slot] : r.active /\ r.kind = x.kind
        BY <1>2, <1>3
    <1> HIDE DEF news
    <1>6. rows'[slot] = news /\ \A u \in Slots \ {slot} : rows'[u] = rows[u]
        BY <1>0, <1>1
    <1>7. \A u \in Slots : \A x \in rows'[u] :
            x.active => \E r \in rows[u] : r.active /\ r.kind = x.kind
        BY <1>5, <1>6
    <1>8. \A u \in Slots : \A x, y \in rows'[u] : x = y
        BY <1>4, <1>6 DEF OneActive
    <1>9. \A u, v \in Slots : \A x \in rows'[u], y \in rows'[v] :
            x.active /\ y.active /\ x.kind = y.kind => u = v
        <2>1. SUFFICES ASSUME NEW u \in Slots, NEW v \in Slots,
                              NEW x \in rows'[u], NEW y \in rows'[v],
                              x.active, y.active, x.kind = y.kind
                       PROVE  u = v
            OBVIOUS
        <2>2. PICK r \in rows[u] : r.active /\ r.kind = x.kind
            BY <1>7, <2>1
        <2>3. PICK q \in rows[v] : q.active /\ q.kind = y.kind
            BY <1>7, <2>1
        <2>4. QED
            BY <2>1, <2>2, <2>3 DEF OneActive
    <1>10. QED
        BY <1>8, <1>9 DEF OneActive

\* Activating a row switches off what was active of its kind.
LEMMA SwitchKeepsOne ==
    ASSUME RowsOK, OneActive, NEW slot \in Slots, SwitchTo(slot)
    PROVE  OneActive'
    <1> DEFINE kinds == {r.kind : r \in rows[slot]}
               switched(u, r) ==
                   IF u = slot THEN [r EXCEPT !.active = TRUE]
                   ELSE IF \E one \in rows[slot] : one.kind = r.kind
                        THEN [r EXCEPT !.active = FALSE] ELSE r
    <1>0. rows \in [Slots -> SUBSET ModelRow]
        BY DEF RowsOK
    <1>1. rows' = [u \in Slots |-> {switched(u, r) : r \in rows[u]}]
        BY DEF SwitchTo, Write, WithActive
    <1>2. ASSUME NEW u \in Slots, NEW r \in rows[u]
          PROVE  /\ switched(u, r).kind = r.kind
                 /\ u # slot /\ r.kind \in kinds => ~switched(u, r).active
                 /\ u # slot /\ switched(u, r).active => r.active
        <2>1. r \in ModelRow
            BY <1>0
        <2>2. CASE u = slot
            BY <2>1, <2>2, RowSwitched
        <2>3. CASE u # slot /\ r.kind \in kinds
            <3>1. switched(u, r) = [r EXCEPT !.active = FALSE]
                BY <2>3
            <3>2. QED
                BY <2>1, <2>3, <3>1, RowSwitched
        <2>4. CASE u # slot /\ r.kind \notin kinds
            <3>1. switched(u, r) = r
                BY <2>4
            <3>2. QED
                BY <2>1, <2>4, <3>1
        <2>5. QED
            BY <2>2, <2>3, <2>4
    <1> HIDE DEF switched
    <1>3. \A u \in Slots : rows'[u] = {switched(u, r) : r \in rows[u]}
        BY <1>1
    <1>4. \A u \in Slots : \A x, y \in rows'[u] : x = y
        BY <1>3 DEF OneActive
    <1>5. ASSUME NEW u \in Slots, NEW x \in rows'[u], x.active
          PROVE  IF u = slot THEN x.kind \in kinds
                 ELSE x.kind \notin kinds /\ \E r \in rows[u] : r.active /\ r.kind = x.kind
        <2>1. PICK r \in rows[u] : x = switched(u, r)
            BY <1>3, <1>5
        <2>2. QED
            BY <1>2, <1>5, <2>1
    <1>6. ASSUME NEW u \in Slots, NEW v \in Slots, NEW x \in rows'[u], NEW y \in rows'[v],
                 x.active, y.active, x.kind = y.kind
          PROVE  u = v
        <2>1. CASE u = slot \/ v = slot
            BY <1>5, <1>6, <2>1
        <2>2. CASE u # slot /\ v # slot
            <3>1. PICK r \in rows[u] : r.active /\ r.kind = x.kind
                BY <1>5, <1>6, <2>2
            <3>2. PICK q \in rows[v] : q.active /\ q.kind = y.kind
                BY <1>5, <1>6, <2>2
            <3>3. QED
                BY <1>6, <3>1, <3>2 DEF OneActive
        <2>3. QED
            BY <2>1, <2>2
    <1>7. QED
        BY <1>4, <1>6 DEF OneActive

\* Switching kinds off activates nothing.
LEMMA SwitchOffKeepsOne ==
    ASSUME RowsOK, OneActive, NEW ks, SwitchOff(ks)
    PROVE  OneActive'
    <1> DEFINE off(r) == IF r.kind \in ks THEN [r EXCEPT !.active = FALSE] ELSE r
    <1>0. rows \in [Slots -> SUBSET ModelRow]
        BY DEF RowsOK
    <1>1. rows' = [u \in Slots |-> {off(r) : r \in rows[u]}]
        BY DEF SwitchOff, Write, WithoutActive
    <1>2. \A u \in Slots : \A r \in rows[u] :
            off(r).kind = r.kind /\ (off(r).active => r.active)
        BY <1>0, RowSwitched
    <1> HIDE DEF off
    <1>3. \A u \in Slots : rows'[u] = {off(r) : r \in rows[u]}
        BY <1>1
    <1>4. \A u \in Slots : \A x, y \in rows'[u] : x = y
        BY <1>3 DEF OneActive
    <1>5. \A u \in Slots : \A x \in rows'[u] :
            x.active => \E r \in rows[u] : r.active /\ r.kind = x.kind
        BY <1>2, <1>3
    <1>6. ASSUME NEW u \in Slots, NEW v \in Slots, NEW x \in rows'[u], NEW y \in rows'[v],
                 x.active, y.active, x.kind = y.kind
          PROVE  u = v
        <2>1. PICK r \in rows[u] : r.active /\ r.kind = x.kind
            BY <1>5, <1>6
        <2>2. PICK q \in rows[v] : q.active /\ q.kind = y.kind
            BY <1>5, <1>6
        <2>3. QED
            BY <1>6, <2>1, <2>2 DEF OneActive
    <1>7. QED
        BY <1>4, <1>6 DEF OneActive

\* One operation takes a step; the others have in hand what they had.
LEMMA InHand ==
    ASSUME ModelsInv, MemoryInv, NEW a \in Operators, NEW job,
           jobs' = [jobs EXCEPT ![a] = job], OneInHand(job)
    PROVE  \A b \in Operators : OneInHand(jobs'[b])
    BY DEF ModelsInv, ModelsTyped, MemoryInv

LEMMA NothingInHand == OneInHand(NoJob)
    BY DEF OneInHand, NoJob

LEMMA EndInHand ==
    ASSUME ModelsInv, MemoryInv, NEW a \in Operators, Ends(a)
    PROVE  \A b \in Operators : OneInHand(jobs'[b])
    BY InHand, NothingInHand DEF Ends

LEMMA BeginInHand ==
    ASSUME ModelsInv, MemoryInv, NEW a \in Operators, NEW job, BeginJob(a, job),
           JobTyped(job), job.pc # "installing", \A v, w \in job.w : v = w
    PROVE  /\ \A b \in Operators : OneInHand(jobs'[b])
           /\ UNCHANGED <<rows, loaded>>
    <1> USE DEF ModelsInv
    <1>1. PICK solo : solo = (Busy = {})
        OBVIOUS
    <1> DEFINE first == [job EXCEPT !.clean = solo]
               other(b) == [jobs[b] EXCEPT !.clean = FALSE]
    <1>2. /\ jobs' = [b \in Operators |-> IF b = a THEN first ELSE other(b)]
          /\ UNCHANGED <<rows, loaded>>
        BY <1>1, Zenon DEF BeginJob
    <1>3. first.pc = job.pc /\ first.w = job.w
        BY DEF JobTyped, Job
    <1>4. ASSUME NEW b \in Operators
          PROVE  /\ other(b).pc = jobs[b].pc /\ other(b).w = jobs[b].w
                 /\ other(b).kinds = jobs[b].kinds
        BY DEF JobTyped, Job, ModelsTyped
    <1> HIDE DEF first, other
    <1>5. ASSUME NEW b \in Operators PROVE OneInHand(jobs'[b])
        <2>1. CASE b = a
            BY <1>2, <1>3, <2>1 DEF OneInHand
        <2>2. CASE b # a
            <3>1. OneInHand(jobs[b]) /\ jobs'[b] = other(b)
                BY <1>2, <2>2 DEF MemoryInv
            <3>2. QED
                BY <1>4, <3>1 DEF OneInHand
        <2>3. QED
            BY <2>1, <2>2
    <1>6. QED
        BY <1>2, <1>5

LEMMA MemoryIf ==
    ASSUME MemoryInv, OneActive', \A a \in Operators : OneInHand(jobs'[a]),
           UNCHANGED loaded
    PROVE  MemoryInv'
    BY DEF MemoryInv, OneInHand

LEMMA SameRows == ASSUME OneActive, UNCHANGED rows PROVE OneActive'
    BY DEF OneActive

LEMMA BeginMemory ==
    ASSUME ModelsInv, MemoryInv, NEW a \in Operators, BeginOperation(a)
    PROVE  MemoryInv'
    <1>1. PICK none : none = NoJob
        OBVIOUS
    <1>2. none \in Job /\ none.w = {} /\ none.kinds = <<>>
        BY <1>1 DEF NoJob, Job, Pcs
    <1>3. ASSUME NEW job, NEW pc \in {"storing", "switching", "reading", "stopping"},
                 NEW w \in SUBSET AnyWeights, NEW kinds, NEW clean,
                 IsJob(job, pc, w, kinds, clean), JobTyped(job),
                 \A u, v \in w : u = v, BeginJob(a, job)
          PROVE  MemoryInv'
        <2>1. job.pc # "installing" /\ \A u, v \in job.w : u = v
            BY <1>3 DEF IsJob
        <2>2. /\ \A b \in Operators : OneInHand(jobs'[b])
              /\ UNCHANGED <<rows, loaded>>
            BY <1>3, <2>1, BeginInHand
        <2>3. OneActive'
            BY <2>2, SameRows DEF MemoryInv
        <2>4. QED
            BY <2>2, <2>3, MemoryIf
    <1>4. ASSUME NEW w \in Weights, NEW activate \in BOOLEAN, Upload(a, w, activate)
          PROVE  MemoryInv'
        <2>1. PICK job : job = [none EXCEPT !.pc = "storing", !.w = {w}, !.activate = activate]
            OBVIOUS
        <2>2. {w} \in SUBSET AnyWeights /\ \A u, v \in {w} : u = v
            BY DEF AnyWeights
        <2>3. IsJob(job, "storing", {w}, <<>>, none.clean)
            BY <1>2, <2>1, <2>2, ChangedJob DEF Pcs
        <2>4. JobTyped(job)
            BY <1>2, <2>2, <2>3 DEF JobTyped, IsJob
        <2>5. BeginJob(a, job)
            BY <1>1, <1>4, <2>1 DEF Upload
        <2>6. QED
            BY <1>3, <2>2, <2>3, <2>4, <2>5
    <1>5. ASSUME NEW w \in Weights, Activate(a, w) PROVE MemoryInv'
        <2>1. PICK job : job = [none EXCEPT !.pc = "switching", !.w = {w}]
            OBVIOUS
        <2>2. {w} \in SUBSET AnyWeights /\ \A u, v \in {w} : u = v
            BY DEF AnyWeights
        <2>3. IsJob(job, "switching", {w}, <<>>, none.clean)
            BY <1>2, <2>1, <2>2, ChangedJob DEF Pcs
        <2>4. JobTyped(job)
            BY <1>2, <2>2, <2>3 DEF JobTyped, IsJob
        <2>5. BeginJob(a, job)
            BY <1>1, <1>5, <2>1 DEF Activate
        <2>6. QED
            BY <1>3, <2>2, <2>3, <2>4, <2>5
    <1>6. CASE Reload(a)
        <2>1. PICK job : job = [none EXCEPT !.pc = "reading", !.kinds = BothKinds]
            OBVIOUS
        <2>2. IsJob(job, "reading", {}, BothKinds, none.clean)
            BY <1>2, <2>1, KindsTyped, ChangedJob DEF Pcs
        <2>3. JobTyped(job)
            BY <1>2, <2>2, KindsTyped DEF JobTyped, IsJob
        <2>4. BeginJob(a, job)
            BY <1>1, <1>6, <2>1 DEF Reload
        <2>5. QED
            BY <1>3, <2>2, <2>3, <2>4
    <1>7. ASSUME NEW ks \in {BothKinds} \cup {<<k>> : k \in Kinds}, Deactivate(a, ks)
          PROVE  MemoryInv'
        <2>1. PICK job : job = [none EXCEPT !.pc = "stopping", !.kinds = ks]
            OBVIOUS
        <2>2. ks \in Seq(Kinds) /\ ks # <<>>
            BY KindsTyped
        <2>3. IsJob(job, "stopping", {}, ks, none.clean)
            BY <1>2, <2>1, <2>2, ChangedJob DEF Pcs
        <2>4. JobTyped(job)
            BY <1>2, <2>2, <2>3 DEF JobTyped, IsJob
        <2>5. BeginJob(a, job)
            BY <1>1, <1>7, <2>1 DEF Deactivate
        <2>6. QED
            BY <1>3, <2>3, <2>4, <2>5
    <1>8. QED
        BY <1>4, <1>5, <1>6, <1>7 DEF BeginOperation

\* upload_router_model: what is stored is not active yet.
LEMMA StoreUploadMemory ==
    ASSUME ModelsInv, MemoryInv, NEW a \in Operators, StoreUpload(a) PROVE MemoryInv'
    <1>0. /\ RowsOK /\ OneActive /\ jobs[a] \in Job /\ OneInHand(jobs[a])
          /\ \E w \in Weights : jobs[a].w = {w}
        BY DEF StoreUpload, ModelsInv, ModelsTyped, JobTyped, MemoryInv
    <1>1. PICK w \in jobs[a].w :
            /\ StoreRow(w)
            /\ IF jobs[a].activate
               THEN jobs' = [jobs EXCEPT ![a].pc = "activating",
                        ![a].clean = @ /\ \A r \in rows[w.slot] : r.kind = w.kind]
               ELSE Ends(a)
        BY Zenon DEF StoreUpload
    <1>2. w \in Weights /\ UNCHANGED loaded
        BY <1>0, <1>1 DEF StoreUpload
    <1>3. OneActive'
        BY <1>0, <1>1, <1>2, StoreKeepsOne
    <1>4. CASE ~jobs[a].activate
        BY <1>1, <1>2, <1>3, <1>4, EndInHand, MemoryIf
    <1>5. CASE jobs[a].activate
        <2>1. PICK own : own = (\A r \in rows[w.slot] : r.kind = w.kind)
            OBVIOUS
        <2>2. PICK job : job = [jobs[a] EXCEPT !.pc = "activating", !.clean = @ /\ own]
            OBVIOUS
        <2>3. jobs' = [jobs EXCEPT ![a] = job]
            <3>1. jobs' = [jobs EXCEPT ![a].pc = "activating", ![a].clean = @ /\ own]
                BY <1>1, <1>5, <2>1, Zenon
            <3>2. QED
                BY <2>2, <3>1, ChangedInPlace, ZenonT(30)
        <2>4. job.pc = "activating" /\ job.w = jobs[a].w
            BY <1>0, <2>2 DEF Job
        <2>5. OneInHand(job)
            BY <1>0, <2>4 DEF OneInHand
        <2>6. QED
            BY <1>2, <1>3, <2>3, <2>5, InHand, MemoryIf
    <1>6. QED
        BY <1>4, <1>5

\* The upload goes on with its weights and their kind.
LEMMA ActivateUploadMemory ==
    ASSUME ModelsInv, MemoryInv, NEW a \in Operators, ActivateUpload(a) PROVE MemoryInv'
    <1>0. /\ RowsOK /\ OneActive /\ jobs[a] \in Job
          /\ \E w \in Weights : jobs[a].w = {w}
        BY DEF ActivateUpload, ModelsInv, ModelsTyped, JobTyped, MemoryInv
    <1>1. PICK w \in jobs[a].w :
            /\ SwitchTo(w.slot)
            /\ jobs' = [jobs EXCEPT ![a].pc = "installing", ![a].kinds = <<w.kind>>]
        BY DEF ActivateUpload
    <1>2. w \in Weights /\ w.slot \in Slots /\ w.kind \in Kinds /\ jobs[a].w = {w}
          /\ UNCHANGED loaded
        BY <1>0, <1>1, ModelsAssumption DEF ActivateUpload
    <1>3. OneActive'
        BY <1>0, <1>1, <1>2, SwitchKeepsOne
    <1>4. PICK job : job = [jobs[a] EXCEPT !.pc = "installing", !.kinds = <<w.kind>>]
        OBVIOUS
    <1>5. jobs' = [jobs EXCEPT ![a] = job]
        BY <1>1, <1>4, ChangedInPlace, ZenonT(30)
    <1>6. IsJob(job, "installing", {w}, <<w.kind>>, jobs[a].clean)
        BY <1>0, <1>2, <1>4, KindsTyped, ChangedJob DEF Pcs
    <1>7. \A k \in ToSet(<<w.kind>>) : k = w.kind
        BY DEF ToSet
    <1>8. OneInHand(job)
        BY <1>6, <1>7 DEF OneInHand, IsJob
    <1>9. QED
        BY <1>2, <1>3, <1>5, <1>8, InHand, MemoryIf

\* activate_router_model will read what it switched to.
LEMMA SwitchRowMemory ==
    ASSUME ModelsInv, MemoryInv, NEW a \in Operators, SwitchRow(a) PROVE MemoryInv'
    <1>0. /\ RowsOK /\ OneActive /\ jobs[a] \in Job /\ UNCHANGED loaded
          /\ \E w \in Weights : jobs[a].w = {w}
        BY DEF SwitchRow, ModelsInv, ModelsTyped, JobTyped, MemoryInv
    <1>1. PICK w \in jobs[a].w :
            IF rows[w.slot] = {} THEN Ends(a) /\ UNCHANGED <<rows, settled>>
            ELSE \E r \in rows[w.slot] :
                   /\ SwitchTo(w.slot)
                   /\ jobs' = [jobs EXCEPT ![a].pc = "reading", ![a].kinds = <<r.kind>>]
        BY DEF SwitchRow
    <1>2. w.slot \in Slots
        BY <1>0, <1>1, ModelsAssumption
    <1>3. CASE rows[w.slot] = {}
        BY <1>0, <1>1, <1>3, EndInHand, SameRows, MemoryIf
    <1>4. CASE rows[w.slot] # {}
        <2>1. PICK found \in rows[w.slot] :
                /\ SwitchTo(w.slot)
                /\ jobs' = [jobs EXCEPT ![a].pc = "reading", ![a].kinds = <<found.kind>>]
            BY <1>1, <1>4
        <2>2. OneActive'
            BY <1>0, <1>2, <2>1, SwitchKeepsOne
        <2>3. PICK job : job = [jobs[a] EXCEPT !.pc = "reading", !.kinds = <<found.kind>>]
            OBVIOUS
        <2>4. jobs' = [jobs EXCEPT ![a] = job]
            BY <2>1, <2>3, ChangedInPlace, ZenonT(30)
        <2>5. job.pc = "reading" /\ job.w = jobs[a].w
            BY <1>0, <2>3 DEF Job
        <2>6. OneInHand(job)
            BY <1>0, <2>5 DEF OneInHand
        <2>7. QED
            BY <1>0, <2>2, <2>4, <2>6, InHand, MemoryIf
    <1>5. QED
        BY <1>3, <1>4

\* deactivate_router_model carries nothing.
LEMMA StopRowsMemory ==
    ASSUME ModelsInv, MemoryInv, NEW a \in Operators, StopRows(a) PROVE MemoryInv'
    <1>0. /\ RowsOK /\ OneActive /\ jobs[a] \in Job /\ UNCHANGED loaded
          /\ SwitchOff(ToSet(jobs[a].kinds))
          /\ jobs' = [jobs EXCEPT ![a].pc = "installing", ![a].w = {}]
        BY DEF StopRows, ModelsInv, ModelsTyped, JobTyped, MemoryInv
    <1>1. OneActive'
        BY <1>0, SwitchOffKeepsOne
    <1>2. PICK job : job = [jobs[a] EXCEPT !.pc = "installing", !.w = {}]
        OBVIOUS
    <1>3. jobs' = [jobs EXCEPT ![a] = job]
        BY <1>0, <1>2, ChangedInPlace, ZenonT(30)
    <1>4. job.w = {}
        BY <1>0, <1>2 DEF Job
    <1>5. OneInHand(job)
        BY <1>4 DEF OneInHand
    <1>6. QED
        BY <1>0, <1>1, <1>3, <1>5, InHand, MemoryIf

\* A reload reads one model.
LEMMA ReadStoredMemory ==
    ASSUME ModelsInv, MemoryInv, NEW a \in Operators, ReadStored(a) PROVE MemoryInv'
    <1>0. /\ RowsOK /\ OneActive /\ jobs[a] \in Job /\ UNCHANGED <<rows, loaded>>
          /\ Head(jobs[a].kinds) \in Kinds
        BY DEF ReadStored, ModelsInv, ModelsTyped, JobTyped, Job, MemoryInv
    <1>1. PICK found : found = Stored(Head(jobs[a].kinds))
        OBVIOUS
    <1>2. \A v, w \in found : v = w
        BY <1>0, <1>1, OneStored
    <1>3. PICK job : job = [jobs[a] EXCEPT !.pc = "loading", !.w = found]
        OBVIOUS
    <1>4. jobs' = [jobs EXCEPT ![a] = job]
        <2>1. jobs' = [jobs EXCEPT ![a].pc = "loading", ![a].w = found]
            BY <1>1 DEF ReadStored
        <2>2. QED
            BY <1>3, <2>1, ChangedInPlace, ZenonT(30)
    <1>5. job.pc = "loading" /\ job.w = found
        BY <1>0, <1>3 DEF Job
    <1>6. OneInHand(job)
        BY <1>2, <1>5 DEF OneInHand
    <1>7. QED
        BY <1>0, <1>4, <1>6, InHand, SameRows, MemoryIf

\* What is put into memory fits, and the rest is still in hand.
LEMMA AdvanceMemory ==
    ASSUME ModelsInv, MemoryInv, NEW a \in Operators, NEW pc \in {"installing", "reading"},
           jobs[a].pc \in {"installing", "loading"},
           pc = "installing" => jobs[a].pc = "installing",
           \A w \in jobs[a].w : w.kind = Head(jobs[a].kinds),
           UNCHANGED rows, SetMemory(a, Head(jobs[a].kinds)), Advance(a, pc)
    PROVE  MemoryInv'
    <1> DEFINE kinds == jobs[a].kinds
    <1>1. /\ jobs[a] \in Job /\ OneInHand(jobs[a]) /\ OneActive
          /\ kinds \in Seq(Kinds) /\ kinds # <<>> /\ DOMAIN loaded = Kinds
        BY DEF ModelsInv, ModelsTyped, JobTyped, Job, MemoryInv
    <1>2. PICK k, w : k = Head(kinds) /\ k \in Kinds /\ w = jobs[a].w
        BY <1>1, KindsLeft
    <1>3. w \in Loadable(k)
        BY <1>1, <1>2, LoadableIs DEF OneInHand, Job
    <1>4. loaded' = [loaded EXCEPT ![k] = w]
        BY <1>2 DEF SetMemory
    <1>5. \A l \in Kinds : loaded'[l] \in Loadable(l)
        BY <1>1, <1>3, <1>4 DEF MemoryInv
    <1>6. \A b \in Operators : OneInHand(jobs'[b])
        <2>1. CASE Len(kinds) = 1
            BY <2>1, EndInHand DEF Advance
        <2>2. CASE Len(kinds) # 1
            <3>1. PICK rest : rest = Tail(kinds)
                OBVIOUS
            <3>2. ToSet(rest) \subseteq ToSet(kinds)
                BY <1>1, <2>2, <3>1, KindsLeft
            <3>3. PICK job : job = [jobs[a] EXCEPT !.pc = pc, !.kinds = rest]
                OBVIOUS
            <3>4. jobs' = [jobs EXCEPT ![a] = job]
                <4>1. jobs' = [jobs EXCEPT ![a].pc = pc, ![a].kinds = Tail(@)]
                    BY <2>2 DEF Advance
                <4>2. jobs' = [jobs EXCEPT ![a].pc = pc, ![a].kinds = rest]
                    BY <1>1, <3>1, <4>1 DEF ModelsInv, ModelsTyped, Job
                <4>3. QED
                    BY <3>3, <4>2, ChangedInPlace, ZenonT(30)
            <3>5. job.pc = pc /\ job.w = jobs[a].w /\ job.kinds = rest
                BY <1>1, <3>3 DEF Job
            <3>6. OneInHand(job)
                BY <1>1, <3>2, <3>5 DEF OneInHand
            <3>7. QED
                BY <3>4, <3>6, InHand
        <2>3. QED
            BY <2>1, <2>2
    <1>7. OneActive'
        BY <1>1, SameRows
    <1>8. QED
        BY <1>5, <1>6, <1>7 DEF MemoryInv, OneInHand

LEMMA InstallMemory ==
    ASSUME ModelsInv, MemoryInv, NEW a \in Operators, Install(a) PROVE MemoryInv'
    <1>1. jobs[a].kinds \in Seq(Kinds) /\ jobs[a].kinds # <<>> /\ OneInHand(jobs[a])
          /\ jobs[a].pc = "installing"
        BY DEF Install, ModelsInv, ModelsTyped, JobTyped, Job, MemoryInv
    <1>2. \A w \in jobs[a].w : w.kind = Head(jobs[a].kinds)
        BY <1>1, KindsLeft DEF OneInHand
    <1>3. QED
        BY <1>1, <1>2, AdvanceMemory DEF Install

\* LearnedModel::from_json and CostModel::from_json refuse what does not fit.
LEMMA LoadModelMemory ==
    ASSUME ModelsInv, MemoryInv, NEW a \in Operators, LoadModel(a) PROVE MemoryInv'
    <1>1. CASE Fits(jobs[a].w, Head(jobs[a].kinds))
        BY <1>1, AdvanceMemory DEF LoadModel, Fits
    <1>2. CASE ~Fits(jobs[a].w, Head(jobs[a].kinds))
        <2>1. Ends(a) /\ UNCHANGED <<rows, loaded>>
            BY <1>2 DEF LoadModel
        <2>2. QED
            BY <2>1, EndInHand, SameRows, MemoryIf DEF MemoryInv
    <1>3. QED
        BY <1>1, <1>2

LEMMA StatementFailsMemory ==
    ASSUME ModelsInv, MemoryInv, NEW a \in Operators, StatementFails(a) PROVE MemoryInv'
    <1>1. Ends(a) /\ UNCHANGED loaded /\ RowsOK /\ JobTyped(jobs[a]) /\ OneActive
        BY DEF StatementFails, ModelsInv, ModelsTyped, MemoryInv
    <1>2. OneActive'
        <2>1. CASE UNCHANGED <<rows, settled>>
            BY <1>1, <2>1, SameRows
        <2>2. ASSUME NEW w \in jobs[a].w, jobs[a].pc = "storing", StoreRow(w)
              PROVE  OneActive'
            <3>1. w \in Weights
                BY <1>1, <2>2 DEF JobTyped
            <3>2. QED
                BY <1>1, <2>2, <3>1, StoreKeepsOne
        <2>3. ASSUME NEW w \in jobs[a].w, jobs[a].pc \in {"activating", "switching"},
                     SwitchTo(w.slot)
              PROVE  OneActive'
            <3>1. w.slot \in Slots
                BY <1>1, <2>3, ModelsAssumption DEF JobTyped
            <3>2. QED
                BY <1>1, <2>3, <3>1, SwitchKeepsOne
        <2>4. CASE SwitchOff(ToSet(jobs[a].kinds))
            BY <1>1, <2>4, SwitchOffKeepsOne
        <2>5. QED
            BY <2>1, <2>2, <2>3, <2>4 DEF StatementFails
    <1>3. QED
        BY <1>1, <1>2, EndInHand, MemoryIf

LEMMA RestartMemory == ASSUME ModelsInv, MemoryInv, ModelsRestart PROVE MemoryInv'
    <1>1. RowsOK /\ OneActive
        BY DEF ModelsInv, ModelsTyped, MemoryInv
    <1>2. PICK readable \in SUBSET Kinds :
            loaded' = [k \in Kinds |->
                         IF k \in readable /\ Fits(Stored(k), k) THEN Stored(k) ELSE {}]
        BY DEF ModelsRestart
    <1>3. UNCHANGED rows /\ jobs' = [a \in Operators |-> NoJob]
        BY DEF ModelsRestart
    <1>4. ASSUME NEW k \in Kinds PROVE loaded'[k] \in Loadable(k)
        <2>1. CASE k \in readable /\ Fits(Stored(k), k)
            <3>1. PICK found : found = Stored(k)
                OBVIOUS
            <3>2. /\ found \in SUBSET AnyWeights /\ \A v, w \in found : v = w
                  /\ \A w \in found : w.kind = k
                BY <1>1, <2>1, <3>1, StoredType, OneStored DEF Fits
            <3>3. found \in Loadable(k)
                BY <3>2, LoadableIs
            <3>4. QED
                BY <1>2, <2>1, <3>1, <3>3
        <2>2. CASE ~(k \in readable /\ Fits(Stored(k), k))
            <3>1. loaded'[k] = {}
                BY <1>2, <2>2
            <3>2. QED
                BY <3>1 DEF Loadable
        <2>3. QED
            BY <2>1, <2>2
    <1>5. \A a \in Operators : OneInHand(jobs'[a])
        BY <1>3, NothingInHand
    <1>6. OneActive'
        BY <1>1, <1>3, SameRows
    <1>7. QED
        BY <1>4, <1>5, <1>6 DEF MemoryInv, OneInHand

LEMMA StepKeepsMemory ==
    ModelsInv /\ MemoryInv /\ [RunningNext]_runningVars => MemoryInv'
    <1> SUFFICES ASSUME ModelsInv, MemoryInv, [RunningNext]_runningVars PROVE MemoryInv'
        OBVIOUS
    <1>1. CASE UNCHANGED modelVars
        <2>1. UNCHANGED <<rows, loaded, jobs>>
            BY <1>1 DEF modelVars
        <2>2. QED
            BY <2>1, SameRows DEF MemoryInv, OneInHand
    <1>2. ASSUME NEW a \in Admins, ChangeModels(a) PROVE MemoryInv'
        <2>1. a \in Operators
            BY RunningAssumption
        <2>2. BeginOperation(a) \/ ModelStep(a)
            BY <1>2 DEF ChangeModels
        <2>3. QED
            BY <2>1, <2>2, BeginMemory, StoreUploadMemory, ActivateUploadMemory,
               SwitchRowMemory, StopRowsMemory, ReadStoredMemory, InstallMemory,
               LoadModelMemory, StatementFailsMemory DEF ModelStep
    <1>3. CASE NewProcess
        BY <1>3, RestartMemory DEF NewProcess
    <1>4. QED
        BY <1>1, <1>2, <1>3 DEF RunningNext, ChangeDocument, runningVars

\* The table never has two active rows of a kind, and in memory there is at
\* most one model of each kind, which is of that kind, whatever operations
\* overtake each other, fail halfway or are cut off by a restart.
THEOREM MemoryFits == RunningSpec => []MemoryInv
<1>1. RunningInit => MemoryInv
    <2> SUFFICES ASSUME RunningInit PROVE MemoryInv
        OBVIOUS
    <2>1. /\ rows = [s \in Slots |-> {}] /\ loaded = WeightsFile
          /\ jobs = [a \in Operators |-> NoJob]
        BY DEF RunningInit, ModelsInit
    <2>2. OneActive
        BY <2>1 DEF OneActive
    <2>3. \A k \in Kinds : loaded[k] \in Loadable(k)
        <3>1. SUFFICES ASSUME NEW k \in Kinds PROVE WeightsFile[k] \in Loadable(k)
            BY <2>1
        <3>2. WeightsFile[k] \in SUBSET AnyWeights
            BY DEF AnyWeights
        <3>3. QED
            BY <3>2, ModelsAssumption, LoadableIs
    <2>4. QED
        BY <2>1, <2>2, <2>3, NothingInHand DEF MemoryInv
<1>2. QED
    BY <1>1, StepKeepsMemory, ModelsInvariant, PTL DEF RunningSpec

-----------------------------------------------------------------------------
(* The length of a request is a sum over its input, and a sum is defined by *)
(* recursion on its set: induction over sets of numbers and of parts.      *)

\* Any element of a set: the one a fold over a set takes first.
Element(s) == CHOOSE x \in s : TRUE

\* What a sum over subsets of f's domain must satisfy to be one.
SumsUp(f, sum) ==
    sum = [s \in SUBSET DOMAIN f |->
              IF s = {} THEN 0 ELSE f[Element(s)] + sum[s \ {Element(s)}]]

\* A property of sets of natural numbers that zero has and that passes from
\* a number to the next is had by all.
LEMMA EveryNumber ==
    ASSUME NEW G, 0 \in G, \A n \in Nat : n \in G => n + 1 \in G
    PROVE  Nat \subseteq G
    <1> DEFINE R == OpToRel(<, Nat)
               B == Nat \ G
    <1>1. SUFFICES ASSUME B # {} PROVE FALSE
        OBVIOUS
    <1>2. IsWellFoundedOn(R, Nat)
        BY NatLessThanWellFounded
    <1>3. PICK x \in B : \A y \in B : <<y, x>> \notin R
        <2> HIDE DEF R
        <2> B \subseteq Nat
            OBVIOUS
        <2> HIDE DEF B
        <2> QED BY <1>1, <1>2, WFMin
    <1>4. x \in Nat /\ x # 0 /\ x - 1 \in Nat /\ x - 1 < x
        OBVIOUS
    <1>5. <<x - 1, x>> \in R
        BY <1>4 DEF OpToRel
    <1>6. x - 1 \in G
        BY <1>3, <1>4, <1>5
    <1>7. (x - 1) + 1 = x
        BY <1>4
    <1>8. QED
        BY <1>4, <1>6, <1>7

\* What holds of the empty set, and of every set once it holds of what is left
\* without its first element, holds of all subsets of a finite set.
LEMMA EverySubset ==
    ASSUME NEW D, IsFiniteSet(D), NEW G, {} \in G,
           \A s \in SUBSET D : s # {} /\ s \ {Element(s)} \in G => s \in G
    PROVE  SUBSET D \subseteq G
    <1> DEFINE H == {n \in Nat : \A s \in SUBSET D : Cardinality(s) = n => s \in G}
    <1>1. \A s \in SUBSET D : IsFiniteSet(s) /\ Cardinality(s) \in Nat
        BY FS_Subset, FS_CardinalityType
    <1>2. 0 \in H
        BY <1>1, FS_EmptySet
    <1>3. ASSUME NEW n \in Nat, n \in H PROVE n + 1 \in H
        <2>1. SUFFICES ASSUME NEW s \in SUBSET D, Cardinality(s) = n + 1
                       PROVE s \in G
            OBVIOUS
        <2>2. s # {} /\ Element(s) \in s
            BY <2>1, <1>1, FS_EmptySet DEF Element
        <2>3. /\ s \ {Element(s)} \in SUBSET D
              /\ Cardinality(s \ {Element(s)}) = n
            BY <1>1, <2>1, <2>2, FS_RemoveElement
        <2>4. QED
            BY <1>3, <2>2, <2>3
    <1>4. Nat \subseteq H
        <2> HIDE DEF H
        <2> QED BY <1>2, <1>3, EveryNumber
    <1>5. QED
        BY <1>1, <1>4

\* A finite function of naturals has a sum over each part of its domain.
LEMMA SumExists ==
    ASSUME NEW f, IsFiniteSet(DOMAIN f), \A x \in DOMAIN f : f[x] \in Nat
    PROVE  \E sum \in [SUBSET DOMAIN f -> Nat] : SumsUp(f, sum)
    <1> DEFINE D == DOMAIN f
               Upto(n, g) == \A s \in SUBSET D :
                   Cardinality(s) <= n =>
                       g[s] = IF s = {} THEN 0 ELSE f[Element(s)] + g[s \ {Element(s)}]
               H == {n \in Nat : \E g \in [SUBSET D -> Nat] : Upto(n, g)}
    <1>1. \A s \in SUBSET D :
              /\ IsFiniteSet(s) /\ Cardinality(s) \in Nat
              /\ Cardinality(s) = 0 <=> s = {}
              /\ s # {} => /\ Element(s) \in s
                           /\ Cardinality(s \ {Element(s)}) = Cardinality(s) - 1
        BY FS_Subset, FS_CardinalityType, FS_EmptySet, FS_RemoveElement DEF Element
    <1>2. 0 \in H
        <2> DEFINE g == [s \in SUBSET D |-> 0]
        <2>1. g \in [SUBSET D -> Nat]
            OBVIOUS
        <2>2. Upto(0, g)
            <3>1. SUFFICES ASSUME NEW s \in SUBSET D, Cardinality(s) <= 0
                           PROVE s = {} /\ g[s] = 0
                OBVIOUS
            <3>2. Cardinality(s) \in Nat /\ (Cardinality(s) = 0 <=> s = {})
                <4>1. s \in SUBSET D
                    OBVIOUS
                <4>2. QED
                    <5> HIDE DEF D
                    <5> QED BY <1>1, <4>1
            <3>3. s = {}
                BY <3>1, <3>2
            <3>4. QED
                BY <3>3
        <2>3. QED
            BY <2>1, <2>2
    <1>3. ASSUME NEW n \in Nat, n \in H PROVE n + 1 \in H
        <2>1. PICK g \in [SUBSET D -> Nat] : Upto(n, g)
            BY <1>3
        <2> DEFINE h == [s \in SUBSET D |->
                           IF s = {} THEN 0 ELSE f[Element(s)] + g[s \ {Element(s)}]]
        <2>2. h \in [SUBSET D -> Nat]
            <3>1. SUFFICES ASSUME NEW s \in SUBSET D, s # {}
                           PROVE f[Element(s)] + g[s \ {Element(s)}] \in Nat
                OBVIOUS
            <3>2. Element(s) \in D /\ s \ {Element(s)} \in SUBSET D
                BY <1>1, <3>1
            <3>3. f[Element(s)] \in Nat /\ g[s \ {Element(s)}] \in Nat
                BY <2>1, <3>2
            <3>4. QED
                BY <3>3
        <2>3. \A s \in SUBSET D : Cardinality(s) <= n => h[s] = g[s]
            BY <2>1
        <2>4. Upto(n + 1, h)
            <3>1. SUFFICES ASSUME NEW s \in SUBSET D, Cardinality(s) <= n + 1, s # {}
                           PROVE h[s] = f[Element(s)] + h[s \ {Element(s)}]
                OBVIOUS
            <3>2. /\ s \ {Element(s)} \in SUBSET D
                  /\ Cardinality(s \ {Element(s)}) <= n
                BY <1>1, <3>1
            <3>3. h[s \ {Element(s)}] = g[s \ {Element(s)}]
                BY <2>3, <3>2
            <3>4. QED
                BY <3>1, <3>3
        <2>5. QED
            <3> HIDE DEF h, Upto
            <3> QED BY <2>2, <2>4
    <1>4. Nat \subseteq H
        <2> HIDE DEF H
        <2> QED BY <1>2, <1>3, EveryNumber
    <1>5. D \in SUBSET D
        OBVIOUS
    <1>6. Cardinality(D) \in Nat
        BY <1>1, <1>5
    <1>7. PICK sum \in [SUBSET D -> Nat] : Upto(Cardinality(D), sum)
        BY <1>4, <1>6
    <1>8. \A s \in SUBSET D : Cardinality(s) <= Cardinality(D)
        BY FS_Subset
    <1>9. SumsUp(f, sum)
        BY <1>7, <1>8 DEF SumsUp
    <1>10. QED
        BY <1>7, <1>9

\* A sum of naturals is one.
LEMMA SumIsNatural ==
    ASSUME NEW f, IsFiniteSet(DOMAIN f), \A x \in DOMAIN f : f[x] \in Nat,
           NEW sum, SumsUp(f, sum)
    PROVE  sum[DOMAIN f] \in Nat
    <1> DEFINE D == DOMAIN f
               G == {s \in SUBSET D : sum[s] \in Nat}
    <1>1. {} \in G
        BY DEF SumsUp
    <1>2. ASSUME NEW s \in SUBSET D, s # {}, s \ {Element(s)} \in G PROVE s \in G
        <2>1. Element(s) \in D /\ sum[s] = f[Element(s)] + sum[s \ {Element(s)}]
            BY <1>2 DEF SumsUp, Element
        <2>2. f[Element(s)] \in Nat /\ sum[s \ {Element(s)}] \in Nat
            BY <1>2, <2>1
        <2>3. QED
            BY <2>1, <2>2
    <1>3. SUBSET D \subseteq G
        <2> HIDE DEF G
        <2> QED BY <1>1, <1>2, EverySubset
    <1>4. QED
        BY <1>3

\* A request that may be asked.
TextSet == [chars : Nat, words : SUBSET STRING, questions : Nat, fences : Nat]
ItemSet == [kind : STRING, text : TextSet, image : BOOLEAN]

LEMMA AskedTyped ==
    ASSUME NEW r \in Asked
    PROVE  /\ r.instructions.chars \in Nat
           /\ r.min \in Tiers /\ r.max \in Tiers
           /\ IsFiniteSet(DOMAIN r.input)
           /\ \A i \in DOMAIN r.input : r.input[i].text.chars \in Nat
    <1>1. /\ r.input \in Seq(ItemSet)
          /\ r.instructions \in TextSet
          /\ {r.min, r.max} \subseteq Tiers
        BY DecidingAssumption DEF TextSet, ItemSet
    <1>2. DOMAIN r.input = 1 .. Len(r.input) /\ Len(r.input) \in Nat
        BY <1>1
    <1>3. IsFiniteSet(DOMAIN r.input)
        BY <1>2, FS_Interval
    <1>4. ASSUME NEW i \in DOMAIN r.input PROVE r.input[i].text.chars \in Nat
        <2>1. r.input[i] \in ItemSet
            BY <1>1, <1>2
        <2>2. QED
            BY <2>1 DEF ItemSet, TextSet
    <1>5. QED
        BY <1>1, <1>3, <1>4 DEF TextSet

LEMMA LengthTyped ==
    ASSUME NEW r \in Asked, NEW picked \in SUBSET DOMAIN r.input
    PROVE  Length(r, picked) \in Nat
    <1>1. IsFiniteSet(picked)
        BY AskedTyped, FS_Subset
    <1> DEFINE f == [i \in picked |-> r.input[i].text.chars + 1]
               IsSum(it) == it = [s \in SUBSET picked |->
                                    IF s = {} THEN 0
                                    ELSE LET x == CHOOSE y \in s : TRUE
                                         IN  (r.input[x].text.chars + 1) + it[s \ {x}]]
               sum == CHOOSE it : IsSum(it)
    <1>2. DOMAIN f = picked /\ \A i \in picked : f[i] \in Nat
        BY AskedTyped
    <1>3. MapThenSumSet(LAMBDA i : r.input[i].text.chars + 1, picked) = sum[picked]
        BY DEF MapThenSumSet, MapThenFoldSet
    <1>4. SumsUp(f, sum)
        <2>1. \A s \in SUBSET picked : s # {} => Element(s) \in picked
            BY DEF Element
        <2>2. \A it : SumsUp(f, it) <=> IsSum(it)
            BY <2>1 DEF SumsUp, Element
        <2>3. \E it : SumsUp(f, it)
            <3> HIDE DEF f
            <3> QED BY <1>1, <1>2, SumExists
        <2> HIDE DEF f, IsSum
        <2>4. IsSum(sum)
            BY <2>2, <2>3
        <2>5. QED
            BY <2>2, <2>4
    <1>5. sum[picked] \in Nat
        <2> HIDE DEF f, sum
        <2> QED BY <1>1, <1>2, <1>4, SumIsNatural
    <1>6. (IF r.instructions = NoText THEN 0 ELSE r.instructions.chars + 1) \in Nat
        BY AskedTyped
    <1>7. QED
        <2> HIDE DEF sum
        <2>1. PICK n \in Nat, m \in Nat :
                 /\ n = MapThenSumSet(LAMBDA i : r.input[i].text.chars + 1, picked)
                 /\ m = (IF r.instructions = NoText THEN 0 ELSE r.instructions.chars + 1)
            BY <1>3, <1>5, <1>6
        <2>2. Length(r, picked) = n + m
            BY <2>1 DEF Length
        <2>3. QED
            BY <2>2

-----------------------------------------------------------------------------
(* Classifying: a better mode adds more to the score.                      *)

LEMMA Graded ==
    ASSUME NEW matches, NEW half, NEW full
    PROVE  TieredScore(matches, half, full) \in Int
    BY DEF TieredScore

LEMMA FeaturesTyped ==
    ASSUME NEW r \in Asked, NEW f, f = Features[r]
    PROVE  /\ f.tokens \in Nat /\ f.codeMatches \in Nat
           /\ {f.code, f.reasoning, f.technical, f.simple, f.multiStep} \subseteq Int
    <1>1. f = ExtractFeatures(r)
        BY DEF Features
    <1>2. f.tokens = EstimateTokens(Length(r, Chosen(r, Reaches)))
        BY <1>1 DEF ExtractFeatures
    <1>3. Length(r, Chosen(r, Reaches)) \in Nat
        BY LengthTyped DEF Chosen
    <1>4. f.tokens \in Nat
        BY <1>2, <1>3 DEF EstimateTokens
    <1>5. f.codeMatches = Cardinality(UserText(r).words \cap (Keywords.code \cup CodePatterns))
        BY <1>1 DEF ExtractFeatures, Hits
    <1>6. IsFiniteSet(Keywords.code \cup CodePatterns)
        <2>1. IsFiniteSet({"fence", "path", "call", "frame", "line"})
            <3>1. \A x : IsFiniteSet({x})
                BY FS_Singleton
            <3>2. \A S, T : IsFiniteSet(S) /\ IsFiniteSet(T) => IsFiniteSet(S \cup T)
                BY FS_Union
            <3>3. PICK rest : rest = {"call"} \cup ({"frame"} \cup {"line"}) /\ IsFiniteSet(rest)
                BY <3>1, <3>2
            <3>4. PICK all : all = {"fence"} \cup ({"path"} \cup rest) /\ IsFiniteSet(all)
                BY <3>1, <3>2, <3>3
            <3>5. {"fence", "path", "call", "frame", "line"} = all
                BY <3>3, <3>4
            <3>6. QED
                BY <3>4, <3>5, Zenon
        <2>2. IsFiniteSet(Keywords.code)
            BY KeywordsAssumption
        <2>3. QED
            BY <2>1, <2>2, FS_Union DEF CodePatterns
    <1>7. f.codeMatches \in Nat
        BY <1>5, <1>6, FS_Subset, FS_CardinalityType
    <1>8. f.code \in Int
        <2>1. f.code = CodeScore(UserText(r))
            BY <1>1 DEF ExtractFeatures
        <2>2. QED
            BY <2>1, Graded DEF CodeScore
    <1>9. {f.reasoning, f.technical, f.simple, f.multiStep} \subseteq Int
        BY <1>1, Graded DEF ExtractFeatures
    <1>10. QED
        BY <1>4, <1>7, <1>8, <1>9

\* The scorer's sum of weighted features is a number.
LEMMA ScoreTyped ==
    ASSUME NEW r \in Asked, NEW f, f = Features[r]
    PROVE  RawScore(f) \in Int
    <1>1. /\ f.tokens \in Nat
          /\ {f.code, f.reasoning, f.technical, f.simple, f.multiStep} \subseteq Int
        BY FeaturesTyped
    <1>2. TokenFeature(f.tokens) \in Int
        BY <1>1 DEF TokenFeature, Bounded, Thresholds
    <1>3. PICK q, tools, turn, out, intent :
            /\ q = IF f.questions > 3 THEN 500 ELSE 0
            /\ tools = IF f.toolRequired THEN 1000 ELSE IF f.tools > 0 THEN 500 ELSE 0
            /\ turn = IF f.continuation THEN 500 ELSE 0
            /\ out = IF f.maxOutput >= Thresholds.longOutput THEN 500 ELSE 0
            /\ intent = CASE f.intent = "quick" -> -1000 [] f.intent = "deep" -> 1000 [] OTHER -> 0
        OBVIOUS
    <1>4. {q, tools, turn, out, intent} \subseteq Int
        BY <1>3
    <1>5. Weighed(f) =
            (FeatureWeights.tokens * TokenFeature(f.tokens)) \div 1000
              + FeatureWeights.code * f.code
              + FeatureWeights.reasoning * f.reasoning
              + FeatureWeights.technical * f.technical
              - FeatureWeights.simple * f.simple
              + FeatureWeights.multiStep * f.multiStep
              + FeatureWeights.questions * q
              + FeatureWeights.tools * tools
              + FeatureWeights.intent * intent
              + FeatureWeights.continuation * turn
              + FeatureWeights.outputLength * out
        BY <1>3 DEF Weighed
    <1>6. PICK n \in Int : n = (FeatureWeights.tokens * TokenFeature(f.tokens)) \div 1000
        BY <1>2 DEF FeatureWeights
    <1>7. /\ FeatureWeights.code * f.code \in Int
          /\ FeatureWeights.reasoning * f.reasoning \in Int
          /\ FeatureWeights.technical * f.technical \in Int
          /\ FeatureWeights.simple * f.simple \in Int
          /\ FeatureWeights.multiStep * f.multiStep \in Int
          /\ FeatureWeights.questions * q \in Int
          /\ FeatureWeights.tools * tools \in Int
          /\ FeatureWeights.intent * intent \in Int
          /\ FeatureWeights.continuation * turn \in Int
          /\ FeatureWeights.outputLength * out \in Int
        BY <1>1, <1>4 DEF FeatureWeights
    <1>8. Weighed(f) \in Int
        BY <1>5, <1>6, <1>7
    <1>9. QED
        BY <1>8 DEF RawScore, Rounded, Bounded

\* TierBoundaries::tier_for: a higher score is at no lower tier, whatever the
\* boundaries are.
LEMMA HigherScoreHigherTier ==
    ASSUME NEW b, b.medium \in Int, b.complex \in Int, b.reasoning \in Int,
           NEW low \in Int, NEW high \in Int, low <= high
    PROVE  /\ TierFor(b, low) \in Tiers /\ TierFor(b, high) \in Tiers
           /\ TierFor(b, low) <= TierFor(b, high)
    BY DEF TierFor, Tiers

\* A mode that is better adds more, and the bounds of a score keep the order.
LEMMA OffsetsRise ==
    ASSUME NEW x \in Int, NEW i \in 1 .. 3, NEW j \in 1 .. 3, i <= j
    PROVE  /\ Bounded(x + ModeOffset(ByQuality[i]), 0, 1000) \in Int
           /\ Bounded(x + ModeOffset(ByQuality[j]), 0, 1000) \in Int
           /\ Bounded(x + ModeOffset(ByQuality[i]), 0, 1000)
                <= Bounded(x + ModeOffset(ByQuality[j]), 0, 1000)
    <1>1. /\ ModeOffset(ByQuality[1]) = -100
          /\ ModeOffset(ByQuality[2]) = 0
          /\ ModeOffset(ByQuality[3]) = 150
        BY DEF ModeOffset, ByQuality
    <1>2. PICK p, q :
            /\ p = ModeOffset(ByQuality[i]) /\ q = ModeOffset(ByQuality[j])
            /\ p \in Int /\ q \in Int /\ p <= q
        BY <1>1
    <1>3. QED
        BY <1>2 DEF Bounded

\* A request under a mode and under a better one.
RisesFrom(f, learned, classifier, reply, i, j) ==
    /\ Classified(f, learned, ByQuality[i], classifier, reply) \in Tiers
    /\ Classified(f, learned, ByQuality[j], classifier, reply) \in Tiers
    /\ Classified(f, learned, ByQuality[i], classifier, reply)
         <= Classified(f, learned, ByQuality[j], classifier, reply)

LEMMA ClassesRise ==
    ASSUME NEW r \in Asked, NEW f, f = Features[r],
           NEW learned \in Loadable("learned_lr"), NEW classifier, NEW reply \in Replies,
           NEW i \in 1 .. 3, NEW j \in 1 .. 3, i <= j
    PROVE  RisesFrom(f, learned, classifier, reply, i, j)
    <1>1. HeuristicTier(f, ByQuality[i], DefaultBoundaries) \in Tiers
          /\ HeuristicTier(f, ByQuality[j], DefaultBoundaries) \in Tiers
          /\ HeuristicTier(f, ByQuality[i], DefaultBoundaries)
               <= HeuristicTier(f, ByQuality[j], DefaultBoundaries)
        <2>1. CASE Overridden(f)
            BY <2>1 DEF HeuristicTier, Tiers
        <2>2. CASE ~Overridden(f)
            <3>1. PICK low \in Int, high \in Int :
                    /\ low = HeuristicScore(f, ByQuality[i])
                    /\ high = HeuristicScore(f, ByQuality[j])
                    /\ low <= high
                <4>1. PICK x \in Int : x = RawScore(f)
                    BY ScoreTyped
                <4>2. /\ Bounded(x + ModeOffset(ByQuality[i]), 0, 1000) \in Int
                      /\ Bounded(x + ModeOffset(ByQuality[j]), 0, 1000) \in Int
                      /\ Bounded(x + ModeOffset(ByQuality[i]), 0, 1000)
                           <= Bounded(x + ModeOffset(ByQuality[j]), 0, 1000)
                    BY <4>1, OffsetsRise
                <4>3. QED
                    BY <4>1, <4>2 DEF HeuristicScore
            <3>2. /\ DefaultBoundaries.medium \in Int /\ DefaultBoundaries.complex \in Int
                  /\ DefaultBoundaries.reasoning \in Int
                BY DEF DefaultBoundaries
            <3>3. QED
                BY <2>2, <3>1, <3>2, HigherScoreHigherTier DEF HeuristicTier
        <2>3. QED
            BY <2>1, <2>2
    <1>2. CASE classifier = "learned" /\ learned # {}
        <2>1. PICK l : l = (CHOOSE x \in learned : TRUE)
            OBVIOUS
        <2>2. l \in AnyWeights /\ l.kind = "learned_lr"
            BY <1>2, <2>1 DEF Loadable, AnyWeights
        <2>3. /\ l.base \in Int /\ l.perCode \in Int
              /\ l.boundaries \in [medium : Int, complex : Int, reasoning : Int]
            BY <2>2, DecidingAssumption DEF AnyWeights
        <2>4. PICK x \in Int : x = ExpectedPosition(l, f)
            <3>1. f.codeMatches \in Int
                BY FeaturesTyped
            <3>2. l.perCode * f.codeMatches \in Int
                BY <2>3, <3>1
            <3>3. QED
                BY <2>3, <3>2 DEF ExpectedPosition, Bounded
        <2>5. PICK b : b = IF l.boundaries = NoBoundaries THEN DefaultBoundaries ELSE l.boundaries
            OBVIOUS
        <2>6. b.medium \in Int /\ b.complex \in Int /\ b.reasoning \in Int
            BY <2>3, <2>5 DEF DefaultBoundaries
        <2>7. PICK low \in Int, high \in Int :
                /\ low = Bounded(x + ModeOffset(ByQuality[i]), 0, 1000)
                /\ high = Bounded(x + ModeOffset(ByQuality[j]), 0, 1000)
                /\ low <= high
            <3>1. /\ Bounded(x + ModeOffset(ByQuality[i]), 0, 1000) \in Int
                  /\ Bounded(x + ModeOffset(ByQuality[j]), 0, 1000) \in Int
                  /\ Bounded(x + ModeOffset(ByQuality[i]), 0, 1000)
                       <= Bounded(x + ModeOffset(ByQuality[j]), 0, 1000)
                BY OffsetsRise
            <3>2. QED
                BY <3>1
        <2>8. /\ Classified(f, learned, ByQuality[i], classifier, reply) = TierFor(b, low)
              /\ Classified(f, learned, ByQuality[j], classifier, reply) = TierFor(b, high)
            BY <1>2, <2>1, <2>4, <2>5, <2>7 DEF Classified, LearnedTier
        <2>9. QED
            BY <2>6, <2>7, <2>8, HigherScoreHigherTier DEF RisesFrom
    <1>3. CASE ~(classifier = "learned" /\ learned # {}) /\
               classifier = "llm" /\ ParsedReply(reply) # NoTier
        <2>1. /\ Classified(f, learned, ByQuality[i], classifier, reply) = ParsedReply(reply)
              /\ Classified(f, learned, ByQuality[j], classifier, reply) = ParsedReply(reply)
            BY <1>3 DEF Classified
        <2>2. ParsedReply(reply) \in Tiers
            <3>1. reply.object \in 0 .. 4 /\ reply.words \in SUBSET Tiers
                BY DecidingAssumption
            <3>2. CASE reply.object # NoTier
                BY <3>1, <3>2 DEF ParsedReply, NoTier, Tiers
            <3>3. CASE reply.object = NoTier /\ reply.words # {}
                <4>1. \E x \in reply.words : \A y \in reply.words : x >= y
                    BY <3>1, <3>3 DEF Tiers
                <4>2. Max(reply.words) \in reply.words
                    BY <4>1 DEF Max
                <4>3. QED
                    BY <3>1, <3>3, <4>2 DEF ParsedReply
            <3>4. QED
                BY <1>3, <3>2, <3>3 DEF ParsedReply
        <2>3. PICK t \in Tiers : t = ParsedReply(reply)
            BY <2>2
        <2>4. t <= t
            BY DEF Tiers
        <2>5. QED
            BY <2>1, <2>3, <2>4 DEF RisesFrom
    <1>4. CASE ~(classifier = "learned" /\ learned # {}) /\
               ~(classifier = "llm" /\ ParsedReply(reply) # NoTier)
        <2>1. \A mode : Classified(f, learned, mode, classifier, reply) =
                          HeuristicTier(f, mode, DefaultBoundaries)
            BY <1>4 DEF Classified
        <2>2. QED
            BY <1>1, <2>1 DEF RisesFrom
    <1>5. QED
        BY <1>2, <1>3, <1>4

LEMMA LoadableIsOrdered ==
    ASSUME NEW learned \in Loadable("learned_lr") PROVE learned \in OrderedModes
    <1>1. SUFFICES ASSUME NEW f \in Range(Features), NEW classifier \in Classifiers,
                          NEW reply \in Replies
                   PROVE  RisesWith([i \in 1 .. 3 |->
                             Classified(f, learned, ByQuality[i], classifier, reply)])
        BY DEF OrderedModes
    <1>2. PICK r \in Asked : f = Features[r]
        BY <1>1 DEF Range, Features
    <1>3. /\ RisesFrom(f, learned, classifier, reply, 1, 2)
          /\ RisesFrom(f, learned, classifier, reply, 2, 3)
        BY <1>2, ClassesRise
    <1>4. QED
        BY <1>3 DEF RisesWith, RisesFrom

\* Whatever the admins train, upload, switch to or off, and whenever the
\* process restarts: a request asked under "cost" is classified no higher than
\* under "balanced", nor that higher than under "quality", whichever classifier
\* answers (resolve_auto_model, ModeOffsets).
THEOREM BetterModesClassifyNoLower == RunningSpec => [](loaded["learned_lr"] \in OrderedModes)
<1>1. MemoryInv => loaded["learned_lr"] \in OrderedModes
    BY LoadableIsOrdered DEF MemoryInv, Kinds
<1>2. QED
    BY <1>1, MemoryFits, PTL

-----------------------------------------------------------------------------
(* Serving: a higher class is served from no lower a tier.                 *)

\* Of naturals there is a least.
LEMMA LeastExists ==
    ASSUME NEW M, M # {}, NEW f, \A m \in M : f[m] \in Nat
    PROVE  \E m \in M : \A n \in M : f[m] <= f[n]
    <1>1. SUFFICES ASSUME \A m \in M : \E n \in M : ~(f[m] <= f[n]) PROVE FALSE
        OBVIOUS
    <1> DEFINE H == {n \in Nat : \A m \in M : f[m] >= n}
    <1>2. 0 \in H
        OBVIOUS
    <1>3. ASSUME NEW n \in Nat, n \in H PROVE n + 1 \in H
        <2>1. SUFFICES ASSUME NEW m \in M PROVE f[m] >= n + 1
            OBVIOUS
        <2>2. PICK l \in M : ~(f[m] <= f[l])
            BY <1>1
        <2>3. f[l] >= n /\ f[l] \in Nat /\ f[m] \in Nat
            BY <1>3
        <2>4. QED
            BY <2>2, <2>3
    <1>4. Nat \subseteq H
        <2> HIDE DEF H
        <2> QED BY <1>2, <1>3, EveryNumber
    <1>5. PICK m \in M : TRUE
        OBVIOUS
    <1>6. f[m] + 1 \in H /\ f[m] \in Nat
        BY <1>4
    <1>7. QED
        BY <1>5, <1>6

LEMMA LeastNumber ==
    ASSUME NEW S \in SUBSET Nat, S # {}
    PROVE  Min(S) \in S
    <1>1. PICK f : f = [n \in S |-> n]
        OBVIOUS
    <1>2. \E m \in S : \A n \in S : f[m] <= f[n]
        BY <1>1, LeastExists
    <1>3. \E m \in S : \A n \in S : m <= n
        BY <1>1, <1>2
    <1>4. QED
        BY <1>3 DEF Min

Price == [in : Nat, out : Nat]
SourceRow == [id : STRING, provider : STRING, tags : SUBSET STRING, window : Nat, price : Price]

LEMMA SourcesTyped ==
    /\ Sources \in Seq(SourceRow)
    /\ \A model \in DOMAIN Seeded : Seeded[model] \in Price
    BY CatalogAssumption DEF SourceRow, Price

\* The catalog's price, the built-in one or none.
LEMMA PriceTyped == ASSUME NEW m PROVE PriceOf(m) \in Price
    <1>1. NoPrice \in Price /\ SeededPrice(m) \in Price
        BY SourcesTyped DEF NoPrice, SeededPrice, Price
    <1>2. PICK s : s = SourceOf(m)
        OBVIOUS
    <1>3. s \in SourceRow \/ s = NoSource
        <2>1. ASSUME NEW S \in SUBSET DOMAIN Sources, S # {}
              PROVE  Sources[Min(S)] \in SourceRow
            <3>1. DOMAIN Sources \subseteq Nat
                BY SourcesTyped
            <3>2. Min(S) \in DOMAIN Sources
                BY <2>1, <3>1, LeastNumber
            <3>3. QED
                BY <3>2, SourcesTyped
        <2>2. ById(m) \subseteq DOMAIN Sources /\ ByCanonical(m) \subseteq DOMAIN Sources
            BY DEF ById, ByCanonical
        <2>3. QED
            BY <1>2, <2>1, <2>2 DEF SourceOf, FirstSource
    <1>4. Entry(m).price = IF s.price = NoPrice THEN SeededPrice(m) ELSE s.price
        <2>1. Entry(m) = [s EXCEPT !.price = IF @ = NoPrice THEN SeededPrice(m) ELSE @]
            BY <1>2 DEF Entry
        <2>2. "price" \in DOMAIN s
            BY <1>3 DEF SourceRow, NoSource
        <2>3. QED
            BY <2>1, <2>2
    <1>5. s.price \in Price
        BY <1>1, <1>3 DEF SourceRow, NoSource
    <1>6. QED
        BY <1>1, <1>4, <1>5 DEF PriceOf

LEMMA WorthTyped ==
    ASSUME NEW m PROVE (IF Priced(m) THEN Blended(m) ELSE DearerThanAny) \in Nat
    <1>1. PICK p \in Price : p = PriceOf(m)
        BY PriceTyped
    <1>2. 7 * p.in + 3 * p.out \in Nat
        BY DEF Price
    <1>3. Blended(m) \in Nat
        BY <1>1, <1>2 DEF Blended, PerMillion
    <1>4. QED
        BY <1>3 DEF DearerThanAny

\* CostModel::predict_output_tokens, CostModel::predict_cost.
LEMMA PredictedTyped ==
    ASSUME NEW f, f.tokens \in Nat, NEW costs \in Loadable("cost_lr"), costs # {}, NEW m
    PROVE  Predicted(m, f, costs) \in Nat
    <1>1. PICK c : c = (CHOOSE x \in costs : TRUE)
        OBVIOUS
    <1>2. c \in AnyWeights /\ c.kind = "cost_lr"
        BY <1>1 DEF Loadable, AnyWeights
    <1>3. PICK h : h = HeadOf(c, m)
        OBVIOUS
    <1>4. h.base \in Int /\ h.perToken \in Int
        <2>1. /\ c.global \in [base : Int, perToken : Int]
              /\ \A n \in DOMAIN c.heads : c.heads[n] \in [base : Int, perToken : Int]
            BY <1>2, DecidingAssumption DEF AnyWeights
        <2>2. h \in [base : Int, perToken : Int]
            BY <1>3, <2>1 DEF HeadOf
        <2>3. QED
            BY <2>2
    <1>5. PICK x \in Int : x = h.base + h.perToken * f.tokens
        <2>1. h.perToken * f.tokens \in Int
            BY <1>4
        <2>2. QED
            BY <1>4, <2>1
    <1>6. PICK n \in Nat : n = PredictedTokens(c, f, m)
        BY <1>3, <1>5 DEF PredictedTokens, Bounded, MaxPredictedTokens
    <1>7. PICK p \in Price : p = PriceOf(m)
        BY PriceTyped
    <1>8. f.tokens * p.in \in Nat /\ n * p.out \in Nat
        BY DEF Price
    <1>9. QED
        BY <1>1, <1>6, <1>7, <1>8 DEF Predicted, PredictedCost

\* The first of a list that is among some of its models.
LEMMA FirstInList ==
    ASSUME NEW S, NEW list \in Seq(S), NEW models, models # {}, models \subseteq ToSet(list)
    PROVE  FirstIn(list, models) # {} /\ FirstIn(list, models) \subseteq models
    <1>1. PICK places : places = {i \in DOMAIN list : list[i] \in models}
        OBVIOUS
    <1>2. places \in SUBSET Nat /\ places # {}
        BY <1>1 DEF ToSet
    <1>3. PICK f : f = [i \in places |-> i]
        OBVIOUS
    <1>4. PICK i \in places : \A j \in places : f[i] <= f[j]
        BY <1>2, <1>3, LeastExists
    <1>5. \A j \in 1 .. i - 1 : list[j] \notin models
        BY <1>1, <1>2, <1>3, <1>4
    <1>6. list[i] \in FirstIn(list, models)
        BY <1>1, <1>5 DEF FirstIn
    <1>7. QED
        BY <1>6 DEF FirstIn

\* TierCatalog::select_within chooses one of what it is given.
LEMMA OneIsSelected ==
    ASSUME NEW S, NEW router, NEW t \in Tiers, router.tiers[t] \in Seq(S),
           NEW models, models # {}, models \subseteq ToSet(router.tiers[t]),
           NEW f, f.tokens \in Nat, NEW costs \in Loadable("cost_lr")
    PROVE  /\ WithinTier(router, t, models, f, costs) # {}
           /\ WithinTier(router, t, models, f, costs) \subseteq models
    <1>1. PICK list \in Seq(S) : list = router.tiers[t] /\ models \subseteq ToSet(list)
        OBVIOUS
    <1>2. PICK known \in SUBSET models : known = {m \in models : Predictable(m, costs)}
        OBVIOUS
    <1>3. WithinTier(router, t, models, f, costs) =
            SelectFrom(router, list, models, known, f, costs)
        BY <1>1, <1>2 DEF WithinTier
    <1>4. ASSUME NEW some \in SUBSET models, some # {}, NEW worth,
                 \A m \in some : worth[m] \in Nat
          PROVE  LET least == {m \in some : \A n \in some : worth[m] <= worth[n]}
                 IN  FirstIn(list, least) # {} /\ FirstIn(list, least) \subseteq models
        <2>1. PICK least : least = {m \in some : \A n \in some : worth[m] <= worth[n]}
            OBVIOUS
        <2>2. least # {} /\ least \subseteq ToSet(list)
            BY <1>1, <1>4, <2>1, LeastExists
        <2>3. FirstIn(list, least) # {} /\ FirstIn(list, least) \subseteq least
            BY <2>2, FirstInList
        <2>4. QED
            BY <2>1, <2>3
    <1>5. Cheapest(list, models) # {} /\ Cheapest(list, models) \subseteq models
        <2>1. PICK worth : worth = [m \in models |->
                                     IF Priced(m) THEN Blended(m) ELSE DearerThanAny]
            OBVIOUS
        <2>2. \A m \in models : worth[m] \in Nat
            BY <2>1, WorthTyped
        <2>3. Cheapest(list, models) =
                FirstIn(list, {m \in models : \A n \in models : worth[m] <= worth[n]})
            BY <2>1 DEF Cheapest, FirstOf
        <2>4. models \in SUBSET models
            OBVIOUS
        <2>5. PICK some \in SUBSET models : some = models
            BY <2>4
        <2>6. Cheapest(list, models) =
                FirstIn(list, {m \in some : \A n \in some : worth[m] <= worth[n]})
            BY <2>3, <2>5
        <2>7. QED
            BY <1>4, <2>2, <2>5, <2>6
    <1>6. CASE router.within = "predicted_cost" /\ known # {}
        <2>1. costs # {}
            BY <1>2, <1>6 DEF Predictable
        <2>2. PICK worth : worth = [m \in known |-> Predicted(m, f, costs)]
            OBVIOUS
        <2>3. \A m \in known : worth[m] \in Nat
            BY <2>1, <2>2, PredictedTyped
        <2>4. SelectFrom(router, list, models, known, f, costs) =
                FirstIn(list, {m \in known : \A n \in known : worth[m] <= worth[n]})
            BY <1>6, <2>2 DEF SelectFrom, FirstOf
        <2>5. QED
            BY <1>3, <1>4, <1>6, <2>3, <2>4
    <1>7. CASE router.within = "cheapest" \/ (router.within = "predicted_cost" /\ known = {})
        BY <1>3, <1>5, <1>7 DEF SelectFrom
    <1>8. CASE router.within = "config_order"
        BY <1>1, <1>3, <1>8, FirstInList DEF SelectFrom
    <1>9. CASE router.within \notin {"predicted_cost", "cheapest", "config_order"}
        BY <1>3, <1>9 DEF SelectFrom
    <1>10. QED
        BY <1>6, <1>7, <1>8, <1>9

LEMMA ListedTogether ==
    ASSUME NEW S, NEW router, router.tiers \in [Tiers -> Seq(S)], NEW t \in Tiers
    PROVE  /\ ListedIn(router)[t] = ToSet(router.tiers[t])
           /\ router.tiers[t] \in Seq(S)
    BY DEF ListedIn

\* RequestedTier and the search below and above it: whatever the bounds, the
\* floor for tools and the class, the same tiers are searched.
LEMMA SameTiersSearched ==
    ASSUME NEW p, p.min \in Tiers, p.max \in Tiers, p.orgMin \in Tiers, p.orgMax \in Tiers,
           NEW floor \in Tiers, NEW low \in Tiers, NEW high \in Tiers, low <= high,
           NEW b, b = RequestedTier(p, floor, low), NEW c, c = RequestedTier(p, floor, high)
    PROVE  /\ b \in Tiers /\ c \in Tiers /\ b <= c
           /\ \A t \in Tiers : t \in Searched(b, EffectiveMin(p), EffectiveMax(p)) <=>
                               t \in Searched(c, EffectiveMin(p), EffectiveMax(p))
    <1>1. PICK min \in Tiers, max \in Tiers :
             min = EffectiveMin(p) /\ max = EffectiveMax(p) /\ min <= max
        BY DEF EffectiveMin, EffectiveMax, MergedMin, MergedMax, Smaller, Larger, Tiers
    <1>2. /\ b = IF p.tools THEN Larger(Smaller(Larger(low, min), max), floor)
                 ELSE Smaller(Larger(low, min), max)
          /\ c = IF p.tools THEN Larger(Smaller(Larger(high, min), max), floor)
                 ELSE Smaller(Larger(high, min), max)
        BY <1>1 DEF RequestedTier
    <1>3. /\ b \in Tiers /\ c \in Tiers /\ b <= c
          /\ min <= b /\ min <= c
          /\ b = c \/ (b <= max /\ c <= max)
        BY <1>1, <1>2 DEF Smaller, Larger, Tiers
    <1>4. \A t \in Tiers : t \in Searched(b, min, max) <=> t \in Searched(c, min, max)
        BY <1>1, <1>3 DEF Searched, Tiers
    <1>5. QED
        BY <1>1, <1>3, <1>4

\* The first tier of a search that has something, from a tier and from one above.
Found(tiers, b, min, max, models) ==
    {t \in Searched(b, min, max) : tiers[t] \cap models # {}}

LEMMA FirstFoundTier ==
    ASSUME NEW tiers, NEW b \in Tiers, NEW min, NEW max, NEW models,
           Found(tiers, b, min, max, models) # {}
    PROVE  \E t \in Found(tiers, b, min, max, models) :
             \A u \in Found(tiers, b, min, max, models) : u = t \/ Precedes(b, t, u)
    <1>1. PICK found \in SUBSET Tiers : found = Found(tiers, b, min, max, models) /\ found # {}
        BY DEF Found, Searched
    <1>2. \A t, u \in found : u = t \/ Precedes(b, t, u) \/ Precedes(b, u, t)
        BY DEF Precedes, Tiers
    <1>3. \A t, u, v \in found : Precedes(b, t, u) /\ Precedes(b, u, v) => Precedes(b, t, v)
        BY DEF Precedes, Tiers
    <1>4. \E t \in found : \A u \in found : u = t \/ Precedes(b, t, u)
        BY <1>1 DEF Precedes, Tiers
    <1>5. QED
        BY <1>1, <1>4

LEMMA HigherFirst ==
    ASSUME NEW found \in SUBSET Tiers, NEW b \in Tiers, NEW c \in Tiers, b <= c,
           NEW t \in found, NEW v \in found,
           \A u \in found : u = t \/ Precedes(b, t, u),
           \A u \in found : u = v \/ Precedes(c, v, u)
    PROVE  t <= v
    BY DEF Precedes, Tiers

\* What serves a request asked at a tier, by the models some test lets through.
ServedBy(router, base, min, max, models, f, costs) ==
    {s \in Select(ListedIn(router), base, min, max, models) :
       s.model \in WithinTier(router, s.tier, ListedIn(router)[s.tier] \cap models, f, costs)}

\* Something serves it when some tier that is searched has a model, and then
\* the first such tier does.
LEMMA FirstTierServes ==
    ASSUME NEW S, NEW router, router.tiers \in [Tiers -> Seq(S)],
           NEW base \in Tiers, NEW min, NEW max, NEW models,
           NEW f, f.tokens \in Nat, NEW costs \in Loadable("cost_lr"),
           NEW found, found = Found(ListedIn(router), base, min, max, models)
    PROVE  /\ found \in SUBSET Tiers
           /\ found # {} => ServedBy(router, base, min, max, models, f, costs) # {}
           /\ \A s \in ServedBy(router, base, min, max, models, f, costs) :
                /\ s.tier \in found
                /\ \A u \in found : u = s.tier \/ Precedes(base, s.tier, u)
    <1>1. found \in SUBSET Tiers
        BY DEF Found, Searched
    <1>2. Select(ListedIn(router), base, min, max, models) =
            {s \in [model : models, tier : found] :
               /\ s.model \in ListedIn(router)[s.tier]
               /\ \A u \in found : u = s.tier \/ Precedes(base, s.tier, u)}
        BY DEF Select, Found
    <1>3. ASSUME found # {}
          PROVE  ServedBy(router, base, min, max, models, f, costs) # {}
        <2>1. PICK t \in found : \A u \in found : u = t \/ Precedes(base, t, u)
            BY <1>3, FirstFoundTier
        <2>2. t \in Tiers /\ ListedIn(router)[t] \cap models # {}
            BY <1>1, <2>1 DEF Found
        <2>3. PICK some : some = ListedIn(router)[t] \cap models
            OBVIOUS
        <2>4. /\ some # {} /\ some \subseteq ToSet(router.tiers[t])
              /\ router.tiers[t] \in Seq(S)
            BY <2>2, <2>3, ListedTogether
        <2>5. PICK m : m \in WithinTier(router, t, some, f, costs) /\ m \in some
            <3>1. PICK list \in Seq(S) : list = router.tiers[t] /\ some \subseteq ToSet(list)
                BY <2>4
            <3>2. /\ WithinTier(router, t, some, f, costs) # {}
                  /\ WithinTier(router, t, some, f, costs) \subseteq some
                BY <2>2, <2>4, OneIsSelected
            <3>3. QED
                BY <3>2
        <2>6. PICK s : s = [model |-> m, tier |-> t]
            OBVIOUS
        <2>7. s \in [model : models, tier : found] /\ s.model = m /\ s.tier = t
            BY <2>1, <2>3, <2>5, <2>6
        <2>8. s \in Select(ListedIn(router), base, min, max, models)
            BY <1>2, <2>1, <2>3, <2>5, <2>7
        <2>9. s \in ServedBy(router, base, min, max, models, f, costs)
            BY <2>3, <2>5, <2>7, <2>8 DEF ServedBy
        <2>10. QED
            BY <2>9
    <1>4. ASSUME NEW s \in ServedBy(router, base, min, max, models, f, costs)
          PROVE  /\ s.tier \in found
                 /\ \A u \in found : u = s.tier \/ Precedes(base, s.tier, u)
        <2>1. s \in Select(ListedIn(router), base, min, max, models)
            BY DEF ServedBy
        <2>2. QED
            BY <1>2, <2>1
    <1>5. QED
        BY <1>1, <1>3, <1>4

\* The same bounds and a lower and a higher tier that is asked: both are
\* served or neither is, the higher one by no lower a tier.
LEMMA HigherTierServesNoLower ==
    ASSUME NEW S, NEW router, router.tiers \in [Tiers -> Seq(S)],
           NEW b \in Tiers, NEW c \in Tiers, b <= c, NEW min, NEW max, NEW models,
           \A t \in Tiers : t \in Searched(b, min, max) <=> t \in Searched(c, min, max),
           NEW f, f.tokens \in Nat, NEW costs \in Loadable("cost_lr")
    PROVE  /\ ServedBy(router, b, min, max, models, f, costs) = {}
                <=> ServedBy(router, c, min, max, models, f, costs) = {}
           /\ \A s \in ServedBy(router, b, min, max, models, f, costs),
                 u \in ServedBy(router, c, min, max, models, f, costs) : s.tier <= u.tier
    <1>1. PICK found : found = Found(ListedIn(router), b, min, max, models)
        OBVIOUS
    <1>2. found = Found(ListedIn(router), c, min, max, models)
        BY <1>1 DEF Found, Searched
    <1>3. /\ found \in SUBSET Tiers
          /\ found # {} => ServedBy(router, b, min, max, models, f, costs) # {}
          /\ \A s \in ServedBy(router, b, min, max, models, f, costs) :
               s.tier \in found /\ \A u \in found : u = s.tier \/ Precedes(b, s.tier, u)
        BY <1>1, FirstTierServes
    <1>4. /\ found \in SUBSET Tiers
          /\ found # {} => ServedBy(router, c, min, max, models, f, costs) # {}
          /\ \A s \in ServedBy(router, c, min, max, models, f, costs) :
               s.tier \in found /\ \A u \in found : u = s.tier \/ Precedes(c, s.tier, u)
        BY <1>2, FirstTierServes
    <1>5. ASSUME NEW s \in ServedBy(router, b, min, max, models, f, costs),
                 NEW u \in ServedBy(router, c, min, max, models, f, costs)
          PROVE  s.tier <= u.tier
        <2>1. PICK t \in found : t = s.tier /\ \A x \in found : x = t \/ Precedes(b, t, x)
            BY <1>3
        <2>2. PICK v \in found : v = u.tier /\ \A x \in found : x = v \/ Precedes(c, v, x)
            BY <1>4
        <2>3. t <= v
            BY <1>3, <2>1, <2>2, HigherFirst
        <2>4. QED
            BY <2>1, <2>2, <2>3
    <1>6. QED
        BY <1>3, <1>4, <1>5

\* decide_with_override: whatever a router lists and whichever cost model is
\* in memory, a request that is classified higher is served by no lower a
\* tier, the budget that nothing fits included.
LEMMA HigherClassesServedNoLower ==
    ASSUME NEW S, NEW router, router.tiers \in [Tiers -> Seq(S)], router.floor \in Tiers,
           NEW r \in Asked, NEW f, f = Features[r], NEW costs \in Loadable("cost_lr"),
           NEW low \in Tiers, NEW high \in Tiers, low <= high
    PROVE  \A s \in Served(router, r, f, low, costs), u \in Served(router, r, f, high, costs) :
             s.tier <= u.tier
    <1>1. PICK bounds : bounds = [min |-> r.min, max |-> r.max, orgMin |-> 0, orgMax |-> 3,
                                  tools |-> f.tools > 0]
        OBVIOUS
    <1>2. /\ bounds.min \in Tiers /\ bounds.max \in Tiers
          /\ bounds.orgMin \in Tiers /\ bounds.orgMax \in Tiers
        BY <1>1, AskedTyped DEF Tiers
    <1>3. PICK eligible : eligible = Eligible(r, f, AllModels(router))
        OBVIOUS
    <1>4. PICK some : some = {m \in eligible :
                                Predictable(m, costs) => Predicted(m, f, costs) <= r.budget}
        OBVIOUS
    <1>5. PICK min, max : min = EffectiveMin(bounds) /\ max = EffectiveMax(bounds)
        OBVIOUS
    <1>6. PICK b, c : /\ b = RequestedTier(bounds, router.floor, low)
                      /\ c = RequestedTier(bounds, router.floor, high)
        OBVIOUS
    <1>7. /\ b \in Tiers /\ c \in Tiers /\ b <= c
          /\ \A t \in Tiers : t \in Searched(b, min, max) <=> t \in Searched(c, min, max)
        BY <1>2, <1>5, <1>6, SameTiersSearched
    <1>8. f.tokens \in Nat
        BY FeaturesTyped
    <1>9. ASSUME NEW models
          PROVE  /\ ServedBy(router, b, min, max, models, f, costs) = {}
                      <=> ServedBy(router, c, min, max, models, f, costs) = {}
                 /\ \A s \in ServedBy(router, b, min, max, models, f, costs),
                       u \in ServedBy(router, c, min, max, models, f, costs) : s.tier <= u.tier
        BY <1>7, <1>8, HigherTierServesNoLower
    <1>10. PICK fits : fits = IF r.budget = 0 THEN {} ELSE some
        OBVIOUS
    <1>11. /\ Served(router, r, f, low, costs) =
                FirstFound(ServedBy(router, b, min, max, fits, f, costs),
                           ServedBy(router, b, min, max, eligible, f, costs))
           /\ Served(router, r, f, high, costs) =
                FirstFound(ServedBy(router, c, min, max, fits, f, costs),
                           ServedBy(router, c, min, max, eligible, f, costs))
        BY <1>1, <1>3, <1>4, <1>5, <1>6, <1>10 DEF Served, ServedFrom, ServedBy
    <1>12. QED
        BY <1>9, <1>11 DEF FirstFound

\* The tiers that serve a request under a mode and under a better one, by the
\* models a process holds.
ServedInOrder(router, learned, costs) ==
    \A r \in Asked, classifier \in Classifiers, reply \in Replies :
      \A i \in 1 .. 3 : \A j \in i .. 3 :
        \A s \in Served(router, r, Features[r],
                        Classified(Features[r], learned, ByQuality[i], classifier, reply), costs),
           u \in Served(router, r, Features[r],
                        Classified(Features[r], learned, ByQuality[j], classifier, reply), costs) :
          s.tier <= u.tier

\* Whatever the admins train, upload, switch to or off, whenever the process
\* restarts, and whatever the router lists: a request under a better mode is
\* served by no lower a tier (resolve_auto_model, decide_with_override).
THEOREM BetterModesServeNoLower ==
    ASSUME NEW S, NEW router, router.tiers \in [Tiers -> Seq(S)], router.floor \in Tiers
    PROVE  RunningSpec => []ServedInOrder(router, loaded["learned_lr"], loaded["cost_lr"])
<1>1. ASSUME NEW learned \in Loadable("learned_lr"), NEW costs \in Loadable("cost_lr")
      PROVE  ServedInOrder(router, learned, costs)
    <2>1. SUFFICES ASSUME NEW r \in Asked, NEW classifier \in Classifiers, NEW reply \in Replies,
                          NEW i \in 1 .. 3, NEW j \in i .. 3, NEW f, f = Features[r],
                          NEW low, low = Classified(f, learned, ByQuality[i], classifier, reply),
                          NEW high, high = Classified(f, learned, ByQuality[j], classifier, reply)
                   PROVE  \A s \in Served(router, r, f, low, costs),
                             u \in Served(router, r, f, high, costs) : s.tier <= u.tier
        BY DEF ServedInOrder
    <2>2. j \in 1 .. 3 /\ i <= j
        OBVIOUS
    <2>3. low \in Tiers /\ high \in Tiers /\ low <= high
        BY <2>1, <2>2, ClassesRise DEF RisesFrom
    <2>4. /\ router.tiers \in [Tiers -> Seq(S)] /\ router.floor \in Tiers
          /\ r \in Asked /\ f = Features[r] /\ costs \in Loadable("cost_lr")
        BY <2>1
    <2>5. QED
        BY <2>3, <2>4, HigherClassesServedNoLower
<1>2. MemoryInv => ServedInOrder(router, loaded["learned_lr"], loaded["cost_lr"])
    <2>1. ASSUME MemoryInv
          PROVE  loaded["learned_lr"] \in Loadable("learned_lr")
                 /\ loaded["cost_lr"] \in Loadable("cost_lr")
        BY <2>1 DEF MemoryInv, Kinds
    <2>2. QED
        BY <1>1, <2>1
<1>3. QED
    BY <1>2, MemoryFits, PTL

=============================================================================

----------------------------- MODULE OrgSettings -----------------------------
(***************************************************************************)
(* One organization's settings row and the copy the gateway caches of it.  *)
(*                                                                         *)
(* Versions of the row are numbered; versions[n].until is the instant the  *)
(* n-th was replaced.  A reader looks in the cache, and when the entry is  *)
(* missing or old reads the row and stores it under the instant at which   *)
(* it stores it.  An update writes the row and then drops the entry; a     *)
(* deletion only removes the row.  The locks of the cache are not held     *)
(* across these steps.                                                     *)
(***************************************************************************)
EXTENDS Naturals, Sequences

CONSTANTS Readers,      \* requests that ask for the settings, once each
          TTL,          \* ORG_SETTINGS_TTL, in ticks
          MaxDelay,     \* bound: ticks between a read of the row and the store
          MaxUpdates,   \* bound: how often the row changes
          MaxTime       \* bound: the clock

ASSUME OrgAssumption ==
  /\ TTL \in Nat \ {0}
  /\ MaxDelay \in Nat
  /\ MaxUpdates \in Nat
  /\ MaxTime \in Nat

VARIABLES versions,     \* what the row held, oldest first; the last is the row
          cache,        \* the entry of org_settings_cache: <<>> or <<entry>>
          reads,        \* reader -> how far its org_settings call is
          updating,     \* the updates that have yet to drop the entry
          now

orgVars == <<versions, cache, reads, updating, now>>

Never == MaxTime + 1

Row == Len(versions)

NoRead == [pc |-> "idle", ver |-> 0, at |-> 0]

OrgInit ==
  /\ \E allowed \in BOOLEAN :
       versions = <<[capture |-> allowed, until |-> Never, gone |-> FALSE]>>
  /\ cache = <<>>
  /\ reads = [r \in Readers |-> NoRead]
  /\ updating = {}
  /\ now = 0

-----------------------------------------------------------------------------
\* Mutant: no entry ever expires.
FreshForever == cache # <<>>

\* The entry is served while it is younger than the TTL.
Fresh == cache # <<>> /\ now - cache[1].at < TTL

Lookup(r) ==
  /\ reads[r].pc = "idle"
  /\ reads' = [reads EXCEPT ![r] =
                 IF Fresh
                 THEN [pc |-> "served", ver |-> cache[1].ver, at |-> now]
                 ELSE [pc |-> "missed", ver |-> 0, at |-> now]]
  /\ UNCHANGED <<versions, cache, updating, now>>

Fetch(r) ==
  /\ reads[r].pc = "missed"
  /\ reads' = [reads EXCEPT ![r].pc = "fetched", ![r].ver = Row, ![r].at = now]
  /\ UNCHANGED <<versions, cache, updating, now>>

\* A database error is logged and answers None; nothing is cached.
FetchFails(r) ==
  /\ reads[r].pc = "missed"
  /\ reads' = [reads EXCEPT ![r].pc = "none"]
  /\ UNCHANGED <<versions, cache, updating, now>>

Store(r) ==
  /\ reads[r].pc = "fetched"
  /\ cache' = <<[ver |-> reads[r].ver, at |-> now]>>
  /\ reads' = [reads EXCEPT ![r].pc = "served", ![r].at = now]
  /\ UNCHANGED <<versions, updating, now>>

-----------------------------------------------------------------------------
Replace(allowed, gone) ==
  /\ Row <= MaxUpdates
  /\ ~versions[Row].gone
  /\ versions' = Append([versions EXCEPT ![Row].until = now],
                        [capture |-> allowed, until |-> Never, gone |-> gone])

\* update_organization: the row first, the cache entry after it.
WriteOrg(allowed) ==
  /\ Replace(allowed, FALSE)
  /\ updating' = updating \cup {Row + 1}
  /\ UNCHANGED <<cache, reads, now>>

InvalidateOrg(n) ==
  /\ n \in updating
  /\ cache' = <<>>
  /\ updating' = updating \ {n}
  /\ UNCHANGED <<versions, reads, now>>

\* The client goes away while the handler waits for the lock of the cache.
AbandonUpdate(n) ==
  /\ n \in updating
  /\ updating' = updating \ {n}
  /\ UNCHANGED <<versions, cache, reads, now>>

\* delete_organization leaves the entry to its TTL.  A missing row allows
\* nothing, and no update finds it again.
DeleteOrg ==
  /\ Replace(FALSE, TRUE)
  /\ UNCHANGED <<cache, reads, updating, now>>

\* The environment stores what it read within MaxDelay.
Tick ==
  /\ now < MaxTime
  /\ \A r \in Readers : reads[r].pc = "fetched" => now - reads[r].at < MaxDelay
  /\ now' = now + 1
  /\ UNCHANGED <<versions, cache, reads, updating>>

\* The process ends with its cache; what it was doing for anyone is lost.
OrgRestart ==
  /\ cache' = <<>>
  /\ updating' = {}
  /\ reads' = [r \in Readers |-> IF reads[r].pc \in {"missed", "fetched"}
                                THEN [reads[r] EXCEPT !.pc = "none"]
                                ELSE reads[r]]
  /\ UNCHANGED <<versions, now>>

Reading(r) == Lookup(r) \/ Fetch(r) \/ FetchFails(r) \/ Store(r)

Changing == \/ \E allowed \in BOOLEAN : WriteOrg(allowed)
            \/ \E n \in updating : InvalidateOrg(n) \/ AbandonUpdate(n)
            \/ DeleteOrg

OrgNext == (\E r \in Readers : Reading(r)) \/ Changing \/ Tick \/ OrgRestart

OrgSpec == OrgInit /\ [][OrgNext]_orgVars
==============================================================================

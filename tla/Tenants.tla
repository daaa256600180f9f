------------------------------- MODULE Tenants -------------------------------
(***************************************************************************)
(* Whose answers are whose: organizations, their API keys and end users,   *)
(* the requests those keys authenticate and the usage recorded for them.   *)
(*                                                                         *)
(* A request reads its key's row once, reads the organization next and     *)
(* keeps both until its usage is recorded in the background, in up to      *)
(* three further statements: find the end user named in the request, else  *)
(* create it, then insert the usage row, whose trigger adds to the totals  *)
(* of the end user.  Administrators create, rename and delete rows between *)
(* any two of them, and every statement of a request may fail.             *)
(*                                                                         *)
(* Identifiers of deleted rows are never used again.  Keys are stored      *)
(* without the team or project they were asked for (the INSERT leaves      *)
(* scope_type and scope_id out), so no request resolves one.               *)
(***************************************************************************)
EXTENDS Naturals, FiniteSets

CONSTANTS Orgs, Keys, Requests,
          Externals,    \* the names clients give their end users
          NoOrg, NoName,
          MaxUsers,     \* bound: end-user rows ever inserted
          MaxAdmin      \* bound: administrative changes

ASSUME TenantsAssumption == NoOrg \notin Orgs

VARIABLES orgs,         \* organization -> "none", "live" or "gone"
          keys,         \* key -> its row of api_keys
          users,        \* id -> its row of end_users
          usage,        \* the rows of api_key_usage
          reqs,         \* request -> what it has read and done
          changes,
          credited      \* history: request -> the end user its insert counted for

vars == <<orgs, keys, users, usage, reqs, changes, credited>>

UserIds == 1 .. MaxUsers
NoUser == 0

LiveUsers == {u \in UserIds : users[u].st = "live"}

KeyExists(k) == keys[k].status \notin {"none", "gone"}

NewRequest == [pc |-> "new", key |-> "none", name |-> NoName, org |-> NoOrg,
               user |-> NoUser, fault |-> FALSE]

Init ==
  /\ orgs = [o \in Orgs |-> "none"]
  /\ keys = [k \in Keys |-> [status |-> "none", org |-> NoOrg]]
  /\ users = [u \in UserIds |-> [st |-> "free", org |-> NoOrg, name |-> NoName,
                                 count |-> 0]]
  /\ usage = {}
  /\ reqs = [r \in Requests |-> NewRequest]
  /\ changes = 0
  /\ credited = [r \in Requests |-> NoUser]

-----------------------------------------------------------------------------
\* The statements on end_users.  Upsert is one INSERT .. ON CONFLICT: it fails
\* without its organization, otherwise the row is there afterwards.
Named(o, name) == {u \in LiveUsers : users[u].org = o /\ users[u].name = name}

Unused(u) == users[u].st = "free" /\ \A v \in UserIds : v < u => users[v].st # "free"

InsertUser(u, o, name) ==
  users' = [users EXCEPT ![u] = [st |-> "live", org |-> o, name |-> name,
                                 count |-> 0]]

\* Mutant: the conflict resets the row it found.
UpsertUserAfresh(o, name, u) ==
  /\ orgs[o] = "live"
  /\ IF Named(o, name) # {}
     THEN u \in Named(o, name)
     ELSE u \in UserIds /\ Unused(u)
  /\ InsertUser(u, o, name)

UpsertUser(o, name, u) ==
  /\ orgs[o] = "live"
  /\ IF Named(o, name) # {}
     THEN u \in Named(o, name) /\ UNCHANGED users
     ELSE u \in UserIds /\ Unused(u) /\ InsertUser(u, o, name)

\* ON DELETE SET NULL: the usage rows of deleted end users stay.
Orphan(gone) ==
  usage' = {IF row.user \in gone THEN [row EXCEPT !.user = NoUser] ELSE row :
              row \in usage}

Remove(gone) ==
  users' = [u \in UserIds |-> IF u \in gone THEN [users[u] EXCEPT !.st = "gone"]
                              ELSE users[u]]

-----------------------------------------------------------------------------
\* Administration.
Change == changes < MaxAdmin /\ changes' = changes + 1

CreateOrg(o) ==
  /\ Change
  /\ orgs[o] = "none"
  /\ orgs' = [orgs EXCEPT ![o] = "live"]
  /\ UNCHANGED <<keys, users, usage, reqs, credited>>

\* Teams, projects and end users go with their organization; its keys stay.
DeleteOrg(o) ==
  /\ Change
  /\ orgs[o] = "live"
  /\ orgs' = [orgs EXCEPT ![o] = "gone"]
  /\ LET gone == {u \in LiveUsers : users[u].org = o}
     IN Remove(gone) /\ Orphan(gone)
  /\ UNCHANGED <<keys, reqs, credited>>

\* No foreign key: any organization can be named, a deleted one too, and the
\* key may name none (organization_id is optional).
CreateKey(k, o) ==
  /\ Change
  /\ keys[k].status = "none"
  /\ o # NoOrg => orgs[o] # "none"
  /\ keys' = [keys EXCEPT ![k] = [status |-> "active", org |-> o]]
  /\ UNCHANGED <<orgs, users, usage, reqs, credited>>

\* Revoked by its owner, or its expires_at is reached.
RetireKey(k) ==
  /\ Change
  /\ keys[k].status = "active"
  /\ \E status \in {"revoked", "expired"} :
       keys' = [keys EXCEPT ![k].status = status]
  /\ UNCHANGED <<orgs, users, usage, reqs, credited>>

\* ON DELETE CASCADE: the usage rows of a deleted key go with it, the totals
\* of the end users they counted for stay.
DeleteKey(k) ==
  /\ Change
  /\ KeyExists(k)
  /\ keys' = [keys EXCEPT ![k].status = "gone"]
  /\ usage' = {row \in usage : row.key # k}
  /\ UNCHANGED <<orgs, users, reqs, credited>>

CreateEndUser(o, name) ==
  /\ Change
  /\ \E u \in UserIds : UpsertUser(o, name, u)
  /\ UNCHANGED <<orgs, keys, usage, reqs, credited>>

\* A name that is taken is answered 409.
RenameEndUser(u, name) ==
  /\ Change
  /\ u \in LiveUsers
  /\ Named(users[u].org, name) \ {u} = {}
  /\ users' = [users EXCEPT ![u].name = name]
  /\ UNCHANGED <<orgs, keys, usage, reqs, credited>>

DeleteEndUser(u) ==
  /\ Change
  /\ u \in LiveUsers
  /\ Remove({u})
  /\ Orphan({u})
  /\ UNCHANGED <<orgs, keys, reqs, credited>>

Administer ==
  \/ \E o \in Orgs : CreateOrg(o) \/ DeleteOrg(o)
  \/ \E k \in Keys : (\E o \in Orgs \cup {NoOrg} : CreateKey(k, o)) \/ RetireKey(k) \/ DeleteKey(k)
  \/ \E o \in Orgs, name \in Externals : CreateEndUser(o, name)
  \/ \E u \in UserIds : (\E name \in Externals : RenameEndUser(u, name)) \/ DeleteEndUser(u)
-----------------------------------------------------------------------------
\* Requests.
At(r, pc) == reqs[r].pc = pc

Goes(r, pc) == reqs' = [reqs EXCEPT ![r].pc = pc]

KeyOrg(r) == keys[reqs[r].key].org

Lives(o) == o \in Orgs /\ orgs[o] = "live"

RowsUnchanged == UNCHANGED <<orgs, keys, users, usage, changes, credited>>

\* authenticate: the row must be there and active; what it says now holds for
\* the whole request.  Everything else is refused (the statement failing too).
Authenticate(r, k, name) ==
  /\ At(r, "new")
  /\ \/ /\ keys[k].status = "active"
        /\ reqs' = [reqs EXCEPT ![r] = [@ EXCEPT !.pc = "resolving", !.key = k,
                                                 !.name = name]]
     \/ Goes(r, "refused")
  /\ RowsUnchanged

\* load_tenant_context: no organization when the key names none, or when its
\* row is gone or unreadable.
ResolveTenant(r) ==
  /\ At(r, "resolving")
  /\ \/ reqs' = [reqs EXCEPT ![r].pc = "serving",
                             ![r].org = IF Lives(KeyOrg(r)) THEN KeyOrg(r) ELSE NoOrg]
     \/ reqs' = [reqs EXCEPT ![r].pc = "serving", ![r].fault = TRUE]
  /\ RowsUnchanged

\* The provider answers with usage or without, or fails.  Only usage is
\* recorded, for the end user the request named in a known organization.
Answer(r) ==
  /\ At(r, "serving")
  /\ \/ Goes(r, "unbilled")
     \/ Goes(r, IF reqs[r].name = NoName \/ reqs[r].org = NoOrg
                THEN "recording" ELSE "finding")
  /\ RowsUnchanged

\* Mutant: the organization is left out of the lookup.
FindAnyEndUser(r) ==
  /\ At(r, "finding")
  /\ LET found == {u \in LiveUsers : users[u].name = reqs[r].name}
     IN \/ \E u \in found : reqs' = [reqs EXCEPT ![r].pc = "recording", ![r].user = u]
        \/ found = {} /\ Goes(r, "creating")
        \/ reqs' = [reqs EXCEPT ![r].pc = "recording", ![r].fault = TRUE]
  /\ RowsUnchanged

FindEndUser(r) ==
  /\ At(r, "finding")
  /\ LET found == Named(reqs[r].org, reqs[r].name)
     IN \/ \E u \in found : reqs' = [reqs EXCEPT ![r].pc = "recording", ![r].user = u]
        \/ found = {} /\ Goes(r, "creating")
        \/ reqs' = [reqs EXCEPT ![r].pc = "recording", ![r].fault = TRUE]
  /\ RowsUnchanged

\* Mutant: a plain INSERT, which fails when another request was faster.
InsertEndUser(r) ==
  /\ At(r, "creating")
  /\ \/ \E u \in UserIds :
          /\ Named(reqs[r].org, reqs[r].name) = {}
          /\ UpsertUser(reqs[r].org, reqs[r].name, u)
          /\ reqs' = [reqs EXCEPT ![r].pc = "recording", ![r].user = u]
     \/ /\ orgs[reqs[r].org] # "live" \/ Named(reqs[r].org, reqs[r].name) # {}
        /\ Goes(r, "recording") /\ UNCHANGED users
     \/ reqs' = [reqs EXCEPT ![r].pc = "recording", ![r].fault = TRUE] /\ UNCHANGED users
  /\ UNCHANGED <<orgs, keys, usage, changes, credited>>

CreateUser(r) ==
  /\ At(r, "creating")
  /\ \/ \E u \in UserIds :
          /\ UpsertUser(reqs[r].org, reqs[r].name, u)
          /\ reqs' = [reqs EXCEPT ![r].pc = "recording", ![r].user = u]
     \/ orgs[reqs[r].org] # "live" /\ Goes(r, "recording") /\ UNCHANGED users
     \/ reqs' = [reqs EXCEPT ![r].pc = "recording", ![r].fault = TRUE] /\ UNCHANGED users
  /\ UNCHANGED <<orgs, keys, usage, changes, credited>>

\* The insert refers to the key and to the end user, if one was resolved: both
\* must still be there.  An error is logged and the usage is lost.
CanInsertUsage(r) ==
  /\ KeyExists(reqs[r].key)
  /\ reqs[r].user # NoUser => reqs[r].user \in LiveUsers

RecordUsage(r) ==
  LET u == reqs[r].user IN
  /\ At(r, "recording")
  /\ CanInsertUsage(r)
  /\ Goes(r, "recorded")
  /\ usage' = usage \cup {[request |-> r, key |-> reqs[r].key, user |-> u]}
  /\ users' = IF u = NoUser THEN users ELSE [users EXCEPT ![u].count = @ + 1]
  /\ credited' = [credited EXCEPT ![r] = u]
  /\ UNCHANGED <<orgs, keys, changes>>

LoseUsage(r) ==
  /\ At(r, "recording")
  /\ reqs' = [reqs EXCEPT ![r].pc = "lost", ![r].fault = @ \/ CanInsertUsage(r)]
  /\ RowsUnchanged

Serve(r) ==
  \/ \E k \in Keys, name \in Externals \cup {NoName} : Authenticate(r, k, name)
  \/ ResolveTenant(r)
  \/ Answer(r)
  \/ FindEndUser(r)
  \/ CreateUser(r)
  \/ RecordUsage(r)
  \/ LoseUsage(r)

Next == Administer \/ \E r \in Requests : Serve(r)

Spec == Init /\ [][Next]_vars
-----------------------------------------------------------------------------
\* The totals the trigger keeps count each recorded request of an end user
\* once, however many requests create the end user together and whichever
\* keys, with their usage rows, are deleted in between.
TotalsCountEveryRequest ==
  \A u \in LiveUsers : users[u].count = Cardinality({r \in Requests : credited[r] = u})

\* Usage counts for an end user of the organization the key belongs to; a key
\* that belongs to none credits nobody.
CreditedWithinTheOrganization ==
  \A r \in Requests :
    credited[r] # NoUser =>
      KeyOrg(r) # NoOrg /\ users[credited[r]].org = KeyOrg(r)

\* An answer with usage, none of whose statements failed, has its row as long
\* as its key has one.  The row names the end user the request named exactly
\* when the key belongs to an organization: what else is missing was deleted
\* while the request was under way, or after it.
Deleted(r) ==
  \/ KeyOrg(r) # NoOrg /\ ~Lives(KeyOrg(r))
  \/ reqs[r].user # NoUser /\ users[reqs[r].user].st = "gone"

AnswersAreCredited ==
  \A r \in Requests :
    At(r, "recorded") \/ (At(r, "lost") /\ ~reqs[r].fault) =>
      \/ ~KeyExists(reqs[r].key)
      \/ reqs[r].fault
      \/ Deleted(r)
      \/ \E row \in usage :
           /\ row.request = r
           /\ row.user # NoUser <=> reqs[r].name # NoName /\ KeyOrg(r) # NoOrg
==============================================================================

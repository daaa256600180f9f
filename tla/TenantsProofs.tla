---------------------------- MODULE TenantsProofs ----------------------------
(***************************************************************************)
(* Theorems about whose answers are whose, for any number of               *)
(* organizations, keys, end users, requests and administrative changes.    *)
(***************************************************************************)
EXTENDS Tenants, FiniteSetTheorems, TLAPS

-----------------------------------------------------------------------------
(* What the theorems rest on, one idea at a time.                          *)

KeyRow == [status : {"none", "active", "revoked", "expired", "gone"},
           org : Orgs \cup {NoOrg}]

UserRow == [st : {"free", "live", "gone"}, org : Orgs \cup {NoOrg},
            name : Externals \cup {NoName}, count : Nat]

UsageRow == [request : Requests, key : Keys, user : UserIds \cup {NoUser}]

Request == [pc : {"new", "refused", "resolving", "serving", "unbilled", "finding",
                  "creating", "recording", "recorded", "lost"},
            key : Keys \cup {"none"}, name : Externals \cup {NoName},
            org : Orgs \cup {NoOrg}, user : UserIds \cup {NoUser}, fault : BOOLEAN]

\* A key that was ever created names no organization or one that was.
TenantsTypeOK ==
    /\ orgs \in [Orgs -> {"none", "live", "gone"}]
    /\ keys \in [Keys -> KeyRow]
    /\ \A k \in Keys : keys[k].status # "none" =>
         keys[k].org = NoOrg \/ orgs[keys[k].org] # "none"
    /\ users \in [UserIds -> UserRow]
    /\ usage \subseteq UsageRow
    /\ reqs \in [Requests -> Request]
    /\ credited \in [Requests -> UserIds \cup {NoUser}]

\* The key of a request names no organization, or one that is gone and never
\* comes back.
Orgless(r) == KeyOrg(r) = NoOrg \/ orgs[KeyOrg(r)] = "gone"

\* The end user a request resolved is gone, and stays so.
UserGone(r) == reqs[r].user # NoUser /\ users[reqs[r].user].st = "gone"

\* A request that went past authenticate has a key, whose organization is the
\* only one it ever works in.
Keyed(r) ==
    /\ reqs[r].pc \notin {"new", "refused"} =>
         reqs[r].key \in Keys /\ keys[reqs[r].key].status # "none"
    /\ reqs[r].pc \in {"new", "refused", "resolving"} => reqs[r].org = NoOrg
    /\ reqs[r].org # NoOrg => reqs[r].org = KeyOrg(r)
    /\ reqs[r].pc \in {"finding", "creating"} =>
         reqs[r].org # NoOrg /\ reqs[r].name # NoName

\* An end user is resolved last, in that organization, and is the one that is
\* credited.
Resolved(r) ==
    /\ reqs[r].user # NoUser =>
         /\ reqs[r].pc \in {"recording", "recorded", "lost"}
         /\ users[reqs[r].user].st # "free"
         /\ KeyOrg(r) # NoOrg /\ users[reqs[r].user].org = KeyOrg(r)
         /\ reqs[r].name # NoName
    /\ credited[r] = IF reqs[r].pc = "recorded" THEN reqs[r].user ELSE NoUser

\* Without a failed statement, only a key without organization or a deleted
\* one leaves a request without it, or one that names an end user without the
\* end user.
Explained(r) ==
    ~reqs[r].fault =>
      /\ reqs[r].pc \notin {"new", "refused", "resolving"} /\ reqs[r].org = NoOrg => Orgless(r)
      /\ /\ reqs[r].pc \in {"recording", "recorded", "lost"}
         /\ reqs[r].name # NoName /\ reqs[r].user = NoUser
         => Orgless(r)
      /\ reqs[r].pc = "lost" => ~KeyExists(reqs[r].key) \/ UserGone(r)

\* What was recorded has its row, which keeps its end user while there is one.
HasRow(r) ==
    reqs[r].pc = "recorded" =>
      \/ ~KeyExists(reqs[r].key)
      \/ \E row \in usage :
           /\ row.request = r /\ row.key = reqs[r].key
           /\ row.user = reqs[r].user \/ UserGone(r)

RequestOK(r) == Keyed(r) /\ Resolved(r) /\ Explained(r) /\ HasRow(r)

Credits(u) == {r \in Requests : credited[r] = u}

\* Every row, used or not, counts the requests that credited it.
TotalsKept ==
    \A u \in UserIds :
      IsFiniteSet(Credits(u)) /\ users[u].count = Cardinality(Credits(u))

TenantsInv ==
    /\ TenantsTypeOK
    /\ \A r \in Requests : RequestOK(r)
    /\ TotalsKept

-----------------------------------------------------------------------------
\* At the start nobody is there and nothing is counted.
LEMMA TenantsStart == Init => TenantsInv
<1> SUFFICES ASSUME Init PROVE TenantsInv
    OBVIOUS
<1> USE DEF Init
<1>1. NewRequest \in Request /\ NewRequest.pc = "new" /\ NewRequest.org = NoOrg
      /\ NewRequest.user = NoUser
    BY DEF NewRequest, Request
<1>2. TenantsTypeOK
    BY <1>1 DEF TenantsTypeOK, KeyRow, UserRow
<1>3. ASSUME NEW r \in Requests PROVE RequestOK(r)
    BY <1>1 DEF RequestOK, Keyed, Resolved, Explained, HasRow
<1>4. TotalsKept
    <2>1. SUFFICES ASSUME NEW u \in UserIds
                   PROVE  IsFiniteSet(Credits(u)) /\ users[u].count = Cardinality(Credits(u))
        BY DEF TotalsKept
    <2>2. Credits(u) = {}
        BY DEF Credits, UserIds, NoUser
    <2>3. users[u].count = 0
        OBVIOUS
    <2>4. QED
        BY <2>2, <2>3, FS_EmptySet
<1>5. QED
    BY <1>2, <1>3, <1>4 DEF TenantsInv

-----------------------------------------------------------------------------
(* What no step takes back.                                                *)

\* No organization returns, and no key changes its own.
OrgsKept ==
    \A o \in Orgs :
      /\ orgs[o] = "gone" => orgs'[o] = "gone"
      /\ orgs[o] # "none" => orgs'[o] # "none"

KeysKept ==
    \A k \in Keys : keys[k].status # "none" =>
      /\ keys'[k].status # "none" /\ keys'[k].org = keys[k].org
      /\ keys[k].status = "gone" => keys'[k].status = "gone"

\* An end user is never moved to another organization, nor an identifier reused.
UsersKept ==
    \A u \in UserIds : users[u].st # "free" =>
      /\ users'[u].st # "free" /\ users'[u].org = users[u].org
      /\ users[u].st = "gone" => users'[u].st = "gone"

\* A usage row goes with its key only, and loses its end user with it only.
RowsKept ==
    \A row \in usage :
      \/ keys'[row.key].status = "gone"
      \/ \E new \in usage' :
           /\ new.request = row.request /\ new.key = row.key
           /\ \/ new.user = row.user
              \/ row.user # NoUser /\ users'[row.user].st = "gone"

Kept == OrgsKept /\ KeysKept /\ UsersKept /\ RowsKept

\* A request that takes no part in a step is as well off after it.
LEMMA OthersKept ==
    ASSUME TenantsTypeOK, Kept, NEW r \in Requests, RequestOK(r),
           reqs'[r] = reqs[r], credited'[r] = credited[r]
    PROVE  RequestOK(r)'
    <1> DEFINE k == reqs[r].key
               u == reqs[r].user
    <1>1. reqs[r] \in Request
        BY DEF TenantsTypeOK
    <1>2. CASE reqs[r].pc \in {"new", "refused"}
        <2>1. u = NoUser /\ reqs[r].org = NoOrg
            BY <1>2 DEF RequestOK, Keyed, Resolved
        <2>2. QED
            BY <1>2, <2>1 DEF RequestOK, Keyed, Resolved, Explained, HasRow
    <1>3. CASE reqs[r].pc \notin {"new", "refused"}
        <2>1. k \in Keys /\ keys[k].status # "none" /\ keys[k].org \in Orgs \cup {NoOrg}
            BY <1>3 DEF RequestOK, Keyed, TenantsTypeOK, KeyRow
        <2>2. keys'[k].org = keys[k].org /\ keys'[k].status # "none"
            BY <2>1 DEF Kept, KeysKept
        <2>3. ~KeyExists(k) => ~KeyExists(k)'
            BY <2>1 DEF KeyExists, Kept, KeysKept
        <2>4. Orgless(r) => Orgless(r)'
            BY <2>1, <2>2 DEF Orgless, KeyOrg, Kept, OrgsKept
        <2>5. u # NoUser => u \in UserIds /\ users[u].st # "free"
            BY <1>1 DEF Request, RequestOK, Resolved
        <2>6. UserGone(r) => UserGone(r)'
            BY <2>5 DEF UserGone, Kept, UsersKept
        <2>7. Keyed(r)'
            BY <2>1, <2>2 DEF RequestOK, Keyed, KeyOrg
        <2>8. Resolved(r)'
            BY <2>2, <2>5 DEF RequestOK, Resolved, KeyOrg, Kept, UsersKept
        <2>9. Explained(r)'
            BY <2>3, <2>4, <2>6 DEF RequestOK, Explained
        <2>10. HasRow(r)'
            <3>1. SUFFICES ASSUME reqs[r].pc = "recorded", KeyExists(k)'
                           PROVE  \E row \in usage' :
                                    /\ row.request = r /\ row.key = k
                                    /\ row.user = u \/ UserGone(r)'
                BY DEF HasRow
            <3>2. PICK old \in usage : /\ old.request = r /\ old.key = k
                                       /\ old.user = u \/ UserGone(r)
                BY <2>3, <3>1 DEF RequestOK, HasRow
            <3>3. keys'[k].status # "gone"
                BY <3>1 DEF KeyExists
            <3>4. PICK new \in usage' :
                    /\ new.request = r /\ new.key = k
                    /\ \/ new.user = old.user
                       \/ old.user # NoUser /\ users'[old.user].st = "gone"
                BY <3>2, <3>3 DEF Kept, RowsKept
            <3>5. new.user = u \/ UserGone(r)'
                BY <2>6, <3>2, <3>4 DEF UserGone
            <3>6. QED
                BY <3>4, <3>5
        <2>11. QED
            BY <2>7, <2>8, <2>9, <2>10 DEF RequestOK
    <1>4. QED
        BY <1>2, <1>3

-----------------------------------------------------------------------------
(* Statements on the end users.                                            *)

\* Inserting an end user takes a free row that counts nothing yet, and the
\* upsert changes no other.
LEMMA UpsertKeeps ==
    ASSUME TenantsTypeOK, NEW o \in Orgs, NEW name \in Externals \cup {NoName},
           NEW u \in UserIds, UpsertUser(o, name, u)
    PROVE  /\ users' \in [UserIds -> UserRow]
           /\ users'[u].st = "live" /\ users'[u].org = o
           /\ \A v \in UserIds \ {u} : users'[v] = users[v]
           /\ users'[u] = users[u] \/ (users[u].st = "free" /\ users'[u].count = 0)
    <1>1. users \in [UserIds -> UserRow]
        BY DEF TenantsTypeOK
    <1>2. CASE Named(o, name) # {}
        <2>1. u \in Named(o, name) /\ users' = users
            BY <1>2 DEF UpsertUser
        <2>2. users[u].st = "live" /\ users[u].org = o
            BY <2>1 DEF Named, LiveUsers
        <2>3. QED
            BY <1>1, <2>1, <2>2
    <1>3. CASE Named(o, name) = {}
        <2>1. users[u].st = "free" /\ InsertUser(u, o, name)
            BY <1>3 DEF UpsertUser, Unused
        <2>2. PICK new : new = [st |-> "live", org |-> o, name |-> name, count |-> 0]
            OBVIOUS
        <2>3. users' = [users EXCEPT ![u] = new]
            BY <2>1, <2>2 DEF InsertUser
        <2>4. new \in UserRow /\ new.st = "live" /\ new.org = o /\ new.count = 0
            BY <2>2 DEF UserRow
        <2>5. QED
            BY <1>1, <2>1, <2>3, <2>4
    <1>4. QED
        BY <1>2, <1>3

\* An upserted end user leaves the totals and the ones there were.
LEMMA UpsertKept ==
    ASSUME TenantsInv, NEW o \in Orgs, NEW name \in Externals \cup {NoName},
           NEW u \in UserIds, UpsertUser(o, name, u), UNCHANGED credited
    PROVE  UsersKept /\ TotalsKept'
    <1>1. TenantsTypeOK /\ TotalsKept
        BY DEF TenantsInv
    <1>2. UsersKept
        BY <1>1, UpsertKeeps DEF UsersKept
    <1>3. users[u].st = "free" => Credits(u) = {}
        <2>1. SUFFICES ASSUME users[u].st = "free", NEW r \in Requests, credited[r] = u
                       PROVE  FALSE
            BY DEF Credits
        <2>2. u # NoUser
            BY DEF UserIds, NoUser
        <2>3. QED
            BY <2>1, <2>2 DEF TenantsInv, RequestOK, Resolved
    <1>4. ASSUME NEW v \in UserIds PROVE users'[v].count = users[v].count
        <2>1. CASE v = u /\ users[u].st = "free"
            <3>1. users[u].count = 0
                BY <1>1, <1>3, <2>1, FS_EmptySet DEF TotalsKept
            <3>2. QED
                BY <1>1, <2>1, <3>1, UpsertKeeps
        <2>2. QED
            BY <1>1, <2>1, UpsertKeeps
    <1>5. \A v \in UserIds : Credits(v)' = Credits(v)
        BY DEF Credits
    <1>6. QED
        BY <1>1, <1>2, <1>4, <1>5 DEF TotalsKept

\* Deleting end users marks their rows and nothing else of them.
LEMMA RemoveKeeps ==
    ASSUME TenantsTypeOK, NEW gone \in SUBSET LiveUsers, Remove(gone)
    PROVE  /\ users' \in [UserIds -> UserRow]
           /\ \A u \in UserIds :
                /\ users'[u].org = users[u].org /\ users'[u].count = users[u].count
                /\ users'[u].st = IF u \in gone THEN "gone" ELSE users[u].st
    <1> DEFINE off(u) == [users[u] EXCEPT !.st = "gone"]
    <1>1. users' = [u \in UserIds |-> IF u \in gone THEN off(u) ELSE users[u]]
        BY DEF Remove
    <1>2. ASSUME NEW u \in UserIds
          PROVE  /\ users[u] \in UserRow /\ off(u) \in UserRow
                 /\ off(u).st = "gone" /\ off(u).org = users[u].org
                 /\ off(u).count = users[u].count
        BY DEF TenantsTypeOK, UserRow
    <1> HIDE DEF off
    <1>3. QED
        BY <1>1, <1>2

\* The usage rows of deleted end users stay without them.
LEMMA OrphanKeeps ==
    ASSUME TenantsTypeOK, NEW gone \in SUBSET LiveUsers, Remove(gone), Orphan(gone)
    PROVE  usage' \subseteq UsageRow /\ RowsKept /\ UsersKept
    <1> DEFINE without(row) == [row EXCEPT !.user = NoUser]
    <1>1. usage' = {IF row.user \in gone THEN without(row) ELSE row : row \in usage}
        BY DEF Orphan
    <1>2. ASSUME NEW row \in usage
          PROVE  /\ row \in UsageRow /\ without(row) \in UsageRow
                 /\ without(row).request = row.request /\ without(row).key = row.key
        BY DEF TenantsTypeOK, UsageRow
    <1> HIDE DEF without
    <1>3. usage' \subseteq UsageRow
        BY <1>1, <1>2
    <1>4. RowsKept
        <2>1. SUFFICES ASSUME NEW row \in usage
                       PROVE  \E new \in usage' :
                                /\ new.request = row.request /\ new.key = row.key
                                /\ \/ new.user = row.user
                                   \/ row.user # NoUser /\ users'[row.user].st = "gone"
            BY DEF RowsKept
        <2>2. CASE row.user \in gone
            <3>1. row.user \in UserIds /\ row.user # NoUser
                <4>1. row.user \in UserIds
                    BY <2>2 DEF LiveUsers
                <4>2. \A u \in UserIds : u # NoUser
                    BY DEF UserIds, NoUser
                <4>3. QED
                    BY <4>1, <4>2
            <3>2. users'[row.user].st = "gone"
                BY <2>2, <3>1, RemoveKeeps
            <3>3. without(row) \in usage'
                BY <1>1, <2>2
            <3>4. QED
                BY <1>2, <3>1, <3>2, <3>3
        <2>3. CASE row.user \notin gone
            BY <1>1, <1>2, <2>3
        <2>4. QED
            BY <2>2, <2>3
    <1>5. UsersKept
        BY RemoveKeeps DEF UsersKept, LiveUsers
    <1>6. QED
        BY <1>3, <1>4, <1>5

-----------------------------------------------------------------------------
(* Administration.                                                         *)

\* While no request moves and no total changes, what is kept is enough.
LEMMA QuietKeeps ==
    ASSUME TenantsInv, TenantsTypeOK', Kept, UNCHANGED <<reqs, credited>>,
           \A u \in UserIds : users'[u].count = users[u].count
    PROVE  TenantsInv'
    <1>1. \A r \in Requests : RequestOK(r)'
        BY OthersKept DEF TenantsInv
    <1>2. \A u \in UserIds : Credits(u)' = Credits(u)
        BY DEF Credits
    <1>3. TotalsKept'
        BY <1>2 DEF TenantsInv, TotalsKept
    <1>4. QED
        BY <1>1, <1>3 DEF TenantsInv

\* Organizations are created and deleted, the latter with their end users.
LEMMA OrgsKeep ==
    ASSUME TenantsInv, NEW o \in Orgs, CreateOrg(o) \/ DeleteOrg(o)
    PROVE  TenantsInv'
    <1>0. TenantsTypeOK
        BY DEF TenantsInv
    <1>1. CASE CreateOrg(o)
        <2>1. /\ orgs' = [orgs EXCEPT ![o] = "live"] /\ orgs[o] = "none"
              /\ UNCHANGED <<keys, users, usage, reqs, credited>>
            BY <1>1 DEF CreateOrg
        <2>2. TenantsTypeOK'
            BY <1>0, <2>1 DEF TenantsTypeOK
        <2>3. Kept
            BY <1>0, <2>1 DEF Kept, OrgsKept, KeysKept, UsersKept, RowsKept, TenantsTypeOK
        <2>4. QED
            BY <2>1, <2>2, <2>3, QuietKeeps
    <1>2. CASE DeleteOrg(o)
        <2>1. PICK gone \in SUBSET LiveUsers : Remove(gone) /\ Orphan(gone)
            BY <1>2 DEF DeleteOrg
        <2>2. /\ orgs' = [orgs EXCEPT ![o] = "gone"] /\ orgs[o] = "live"
              /\ UNCHANGED <<keys, reqs, credited>>
            BY <1>2 DEF DeleteOrg
        <2>3. TenantsTypeOK'
            BY <1>0, <2>1, <2>2, RemoveKeeps, OrphanKeeps DEF TenantsTypeOK
        <2>4. OrgsKept /\ KeysKept
            BY <1>0, <2>2 DEF OrgsKept, KeysKept, TenantsTypeOK
        <2>5. Kept
            BY <1>0, <2>1, <2>4, OrphanKeeps DEF Kept
        <2>6. QED
            BY <1>0, <2>1, <2>2, <2>3, <2>5, RemoveKeeps, QuietKeeps
    <1>3. QED
        BY <1>1, <1>2

\* Keys are created once, retired and deleted, the latter with their usage rows.
LEMMA KeysKeep ==
    ASSUME TenantsInv, NEW k \in Keys,
           (\E o \in Orgs \cup {NoOrg} : CreateKey(k, o)) \/ RetireKey(k) \/ DeleteKey(k)
    PROVE  TenantsInv'
    <1>0. TenantsTypeOK /\ keys[k] \in KeyRow
        BY DEF TenantsInv, TenantsTypeOK
    <1>1. ASSUME NEW o \in Orgs \cup {NoOrg}, CreateKey(k, o) PROVE TenantsInv'
        <2>1. PICK new : new = [status |-> "active", org |-> o]
            OBVIOUS
        <2>2. /\ keys[k].status = "none" /\ (o # NoOrg => orgs[o] # "none")
              /\ keys' = [keys EXCEPT ![k] = new]
              /\ UNCHANGED <<orgs, users, usage, reqs, credited>>
            BY <1>1, <2>1 DEF CreateKey
        <2>3. new \in KeyRow /\ new.org = o
            BY <2>1 DEF KeyRow
        <2>4. TenantsTypeOK'
            BY <1>0, <2>2, <2>3 DEF TenantsTypeOK
        <2>5. Kept
            BY <1>0, <2>2, <2>3
               DEF Kept, OrgsKept, KeysKept, UsersKept, RowsKept, TenantsTypeOK
        <2>6. QED
            BY <2>2, <2>4, <2>5, QuietKeeps
    <1>2. ASSUME NEW status \in {"revoked", "expired", "gone"},
                 keys' = [keys EXCEPT ![k].status = status],
                 KeyExists(k), UNCHANGED <<orgs, users, reqs, credited>>,
                 UNCHANGED usage \/ (status = "gone" /\ usage' = {row \in usage : row.key # k})
          PROVE  TenantsInv'
        <2>1. PICK new : new = [keys[k] EXCEPT !.status = status]
            OBVIOUS
        <2>2. new \in KeyRow /\ new.status = status /\ new.org = keys[k].org
            BY <1>0, <2>1 DEF KeyRow
        <2>3. keys' = [keys EXCEPT ![k] = new]
            BY <1>2, <2>1
        <2>4. TenantsTypeOK'
            BY <1>0, <1>2, <2>2, <2>3 DEF TenantsTypeOK, KeyExists
        <2>5. OrgsKept /\ KeysKept /\ UsersKept
            BY <1>0, <1>2, <2>2, <2>3
               DEF OrgsKept, KeysKept, UsersKept, TenantsTypeOK, KeyExists
        <2>6. RowsKept
            <3>1. ASSUME NEW row \in usage PROVE row \in usage' \/ keys'[row.key].status = "gone"
                BY <1>0, <1>2, <2>2, <2>3 DEF TenantsTypeOK
            <3>2. QED
                BY <3>1 DEF RowsKept
        <2>7. QED
            BY <1>2, <2>4, <2>5, <2>6, QuietKeeps DEF Kept
    <1>3. CASE RetireKey(k)
        <2>1. PICK status \in {"revoked", "expired"} :
                keys' = [keys EXCEPT ![k].status = status]
            BY <1>3 DEF RetireKey
        <2>2. QED
            BY <1>2, <1>3, <2>1 DEF RetireKey, KeyExists
    <1>4. CASE DeleteKey(k)
        BY <1>2, <1>4 DEF DeleteKey
    <1>5. QED
        BY <1>1, <1>3, <1>4

\* End users are created, renamed and deleted by administrators too.
LEMMA EndUsersKeep ==
    ASSUME TenantsInv,
           \/ \E o \in Orgs, name \in Externals : CreateEndUser(o, name)
           \/ \E u \in UserIds :
                (\E name \in Externals : RenameEndUser(u, name)) \/ DeleteEndUser(u)
    PROVE  TenantsInv'
    <1>0. TenantsTypeOK
        BY DEF TenantsInv
    <1>1. ASSUME NEW o \in Orgs, NEW name \in Externals, CreateEndUser(o, name)
          PROVE  TenantsInv'
        <2>1. PICK u \in UserIds : UpsertUser(o, name, u)
            BY <1>1 DEF CreateEndUser
        <2>2. UNCHANGED <<orgs, keys, usage, reqs, credited>>
            BY <1>1 DEF CreateEndUser
        <2>3. UsersKept /\ TotalsKept' /\ users' \in [UserIds -> UserRow]
            BY <1>0, <2>1, <2>2, UpsertKept, UpsertKeeps
        <2>4. TenantsTypeOK'
            BY <1>0, <2>2, <2>3 DEF TenantsTypeOK
        <2>5. Kept
            BY <2>2, <2>3 DEF Kept, OrgsKept, KeysKept, RowsKept
        <2>6. \A r \in Requests : RequestOK(r)'
            BY <1>0, <2>2, <2>5, OthersKept DEF TenantsInv
        <2>7. QED
            BY <2>3, <2>4, <2>6 DEF TenantsInv
    <1>2. ASSUME NEW u \in UserIds, NEW name \in Externals, RenameEndUser(u, name)
          PROVE  TenantsInv'
        <2>1. PICK new : new = [users[u] EXCEPT !.name = name]
            OBVIOUS
        <2>2. /\ users' = [users EXCEPT ![u] = new]
              /\ UNCHANGED <<orgs, keys, usage, reqs, credited>>
            BY <1>2, <2>1 DEF RenameEndUser
        <2>3. /\ new \in UserRow /\ new.st = users[u].st /\ new.org = users[u].org
              /\ new.count = users[u].count
            BY <1>0, <2>1 DEF UserRow, TenantsTypeOK
        <2>4. TenantsTypeOK' /\ \A v \in UserIds : users'[v].count = users[v].count
            BY <1>0, <2>2, <2>3 DEF TenantsTypeOK
        <2>5. Kept
            BY <1>0, <2>2, <2>3
               DEF Kept, OrgsKept, KeysKept, UsersKept, RowsKept, TenantsTypeOK
        <2>6. QED
            BY <2>2, <2>4, <2>5, QuietKeeps
    <1>3. ASSUME NEW u \in UserIds, DeleteEndUser(u) PROVE TenantsInv'
        <2>1. PICK gone \in SUBSET LiveUsers : Remove(gone) /\ Orphan(gone)
            BY <1>3 DEF DeleteEndUser
        <2>2. UNCHANGED <<orgs, keys, reqs, credited>>
            BY <1>3 DEF DeleteEndUser
        <2>3. TenantsTypeOK'
            BY <1>0, <2>1, <2>2, RemoveKeeps, OrphanKeeps DEF TenantsTypeOK
        <2>4. Kept
            BY <1>0, <2>1, <2>2, OrphanKeeps DEF Kept, OrgsKept, KeysKept
        <2>5. QED
            BY <1>0, <2>1, <2>2, <2>3, <2>4, RemoveKeeps, QuietKeeps
    <1>4. QED
        BY <1>1, <1>2, <1>3

-----------------------------------------------------------------------------
(* Requests.                                                               *)

\* One request moves, and what it knows afterwards.
Moved(r, pc, key, name, org, user, fault) ==
    /\ reqs' \in [Requests -> Request]
    /\ \A q \in Requests \ {r} : reqs'[q] = reqs[q]
    /\ reqs'[r].pc = pc /\ reqs'[r].key = key /\ reqs'[r].name = name
    /\ reqs'[r].org = org /\ reqs'[r].user = user /\ reqs'[r].fault = fault

\* A request that moves on and changes nothing else it knows.
GoesTo(r, pc) ==
    Moved(r, pc, reqs[r].key, reqs[r].name, reqs[r].org, reqs[r].user, reqs[r].fault)

\* Replacing what one request knows moves that request.
LEMMA NewKnowledgeMoves ==
    ASSUME TenantsTypeOK, NEW r \in Requests, NEW y \in Request,
           reqs' = [reqs EXCEPT ![r] = y]
    PROVE  Moved(r, y.pc, y.key, y.name, y.org, y.user, y.fault)
    <1>1. reqs \in [Requests -> Request]
        BY DEF TenantsTypeOK
    <1>2. /\ reqs' \in [Requests -> Request] /\ reqs'[r] = y
          /\ \A q \in Requests \ {r} : reqs'[q] = reqs[q]
        BY <1>1
    <1>3. QED
        BY <1>2 DEF Moved

\* A request that goes to another place keeps what it knows.
LEMMA GoingMoves ==
    ASSUME TenantsTypeOK, NEW r \in Requests,
           NEW pc \in {"refused", "serving", "unbilled", "finding", "creating",
                       "recording", "recorded", "lost"},
           Goes(r, pc)
    PROVE  GoesTo(r, pc)
    <1>1. PICK x \in Request : x = reqs[r]
        BY DEF TenantsTypeOK
    <1>2. PICK y : y = [x EXCEPT !.pc = pc]
        OBVIOUS
    <1>3. /\ y \in Request
          /\ y.pc = pc /\ y.key = x.key /\ y.name = x.name
          /\ y.org = x.org /\ y.user = x.user /\ y.fault = x.fault
        BY <1>1, <1>2 DEF Request
    <1>4. reqs' = [reqs EXCEPT ![r] = y]
        BY <1>1, <1>2, Zenon DEF Goes
    <1>5. QED
        BY <1>1, <1>3, <1>4, NewKnowledgeMoves DEF GoesTo

\* One whose statement failed, or not, remembers just that.
LEMMA FaultMoves ==
    ASSUME TenantsTypeOK, NEW r \in Requests,
           NEW pc \in {"serving", "recording", "lost"}, NEW fault \in BOOLEAN,
           reqs' = [reqs EXCEPT ![r].pc = pc, ![r].fault = fault]
    PROVE  Moved(r, pc, reqs[r].key, reqs[r].name, reqs[r].org, reqs[r].user, fault)
    <1>1. PICK x \in Request : x = reqs[r]
        BY DEF TenantsTypeOK
    <1>2. PICK y : y = [x EXCEPT !.pc = pc, !.fault = fault]
        OBVIOUS
    <1>3. /\ y \in Request
          /\ y.pc = pc /\ y.key = x.key /\ y.name = x.name
          /\ y.org = x.org /\ y.user = x.user /\ y.fault = fault
        BY <1>1, <1>2 DEF Request
    <1>4. reqs' = [reqs EXCEPT ![r] = y]
        BY <1>1, <1>2, Zenon
    <1>5. QED
        BY <1>1, <1>3, <1>4, NewKnowledgeMoves

\* One that found or created its end user goes on to record for that user.
LEMMA UserMoves ==
    ASSUME TenantsTypeOK, NEW r \in Requests, NEW u \in UserIds,
           reqs' = [reqs EXCEPT ![r].pc = "recording", ![r].user = u]
    PROVE  Moved(r, "recording", reqs[r].key, reqs[r].name, reqs[r].org, u, reqs[r].fault)
    <1>1. PICK x \in Request : x = reqs[r]
        BY DEF TenantsTypeOK
    <1>2. PICK y : y = [x EXCEPT !.pc = "recording", !.user = u]
        OBVIOUS
    <1>3. /\ y \in Request
          /\ y.pc = "recording" /\ y.key = x.key /\ y.name = x.name
          /\ y.org = x.org /\ y.user = u /\ y.fault = x.fault
        BY <1>1, <1>2 DEF Request
    <1>4. reqs' = [reqs EXCEPT ![r] = y]
        BY <1>1, <1>2, Zenon
    <1>5. QED
        BY <1>1, <1>3, <1>4, NewKnowledgeMoves

\* One whose key was read serves for the organization of the key.
LEMMA OrgMoves ==
    ASSUME TenantsTypeOK, NEW r \in Requests, NEW org \in Orgs \cup {NoOrg},
           reqs' = [reqs EXCEPT ![r].pc = "serving", ![r].org = org]
    PROVE  Moved(r, "serving", reqs[r].key, reqs[r].name, org, reqs[r].user, reqs[r].fault)
    <1>1. PICK x \in Request : x = reqs[r]
        BY DEF TenantsTypeOK
    <1>2. PICK y : y = [x EXCEPT !.pc = "serving", !.org = org]
        OBVIOUS
    <1>3. /\ y \in Request
          /\ y.pc = "serving" /\ y.key = x.key /\ y.name = x.name
          /\ y.org = org /\ y.user = x.user /\ y.fault = x.fault
        BY <1>1, <1>2 DEF Request
    <1>4. reqs' = [reqs EXCEPT ![r] = y]
        BY <1>1, <1>2, Zenon
    <1>5. QED
        BY <1>1, <1>3, <1>4, NewKnowledgeMoves

\* One that arrives brings a key and perhaps the name of an end user.
LEMMA KeyMoves ==
    ASSUME TenantsTypeOK, NEW r \in Requests, NEW k \in Keys,
           NEW name \in Externals \cup {NoName},
           reqs' = [reqs EXCEPT ![r] = [@ EXCEPT !.pc = "resolving", !.key = k, !.name = name]]
    PROVE  Moved(r, "resolving", k, name, reqs[r].org, reqs[r].user, reqs[r].fault)
    <1>1. PICK x \in Request : x = reqs[r]
        BY DEF TenantsTypeOK
    <1>2. PICK y : y = [x EXCEPT !.pc = "resolving", !.key = k, !.name = name]
        OBVIOUS
    <1>3. /\ y \in Request
          /\ y.pc = "resolving" /\ y.key = k /\ y.name = name
          /\ y.org = x.org /\ y.user = x.user /\ y.fault = x.fault
        BY <1>1, <1>2 DEF Request
    <1>4. reqs' = [reqs EXCEPT ![r] = y]
        BY <1>1, <1>2, Zenon
    <1>5. QED
        BY <1>1, <1>3, <1>4, NewKnowledgeMoves

\* A request whose step concerns its own knowledge only keeps the invariant if
\* it is well off itself.
LEMMA OneRequestMoves ==
    ASSUME TenantsInv, NEW r \in Requests, RowsUnchanged,
           reqs' \in [Requests -> Request],
           \A q \in Requests \ {r} : reqs'[q] = reqs[q],
           RequestOK(r)'
    PROVE  TenantsInv'
    <1>1. UNCHANGED <<orgs, keys, users, usage, credited>>
        BY DEF RowsUnchanged
    <1>2. TenantsTypeOK' /\ TenantsTypeOK
        BY <1>1 DEF TenantsInv, TenantsTypeOK
    <1>3. Kept
        BY <1>1 DEF Kept, OrgsKept, KeysKept, UsersKept, RowsKept
    <1>4. \A q \in Requests \ {r} : RequestOK(q)'
        BY <1>1, <1>2, <1>3, OthersKept DEF TenantsInv
    <1>5. TotalsKept'
        BY <1>1 DEF TenantsInv, TotalsKept, Credits
    <1>6. QED
        BY <1>2, <1>4, <1>5 DEF TenantsInv

\* authenticate and load_tenant_context: the key is there, and so was its
\* organization, unless the request goes on without.
LEMMA AdmissionKeeps ==
    ASSUME TenantsInv, NEW r \in Requests,
           \/ \E k \in Keys, name \in Externals \cup {NoName} : Authenticate(r, k, name)
           \/ ResolveTenant(r)
    PROVE  TenantsInv'
    <1>0. /\ TenantsTypeOK /\ reqs[r] \in Request /\ RowsUnchanged
          /\ Keyed(r) /\ Resolved(r)
        BY DEF TenantsInv, TenantsTypeOK, RequestOK, Authenticate, ResolveTenant
    <1>1. UNCHANGED <<orgs, keys, users, usage, credited>>
        BY <1>0 DEF RowsUnchanged
    <1> USE DEF At
    <1>2. ASSUME Goes(r, "refused"), At(r, "new") PROVE TenantsInv'
        <2>1. GoesTo(r, "refused")
            BY <1>0, <1>2, GoingMoves
        <2>2. RequestOK(r)'
            BY <1>0, <1>1, <1>2, <2>1
               DEF GoesTo, Moved, RequestOK, Keyed, KeyOrg, Resolved, Explained, HasRow
        <2>3. QED
            BY <1>0, <2>1, <2>2, OneRequestMoves DEF GoesTo, Moved
    <1>3. ASSUME NEW k \in Keys, NEW name \in Externals \cup {NoName}, At(r, "new"),
                 keys[k].status = "active",
                 reqs' = [reqs EXCEPT ![r] = [@ EXCEPT !.pc = "resolving", !.key = k,
                                                       !.name = name]]
          PROVE  TenantsInv'
        <2>1. Moved(r, "resolving", k, name, reqs[r].org, reqs[r].user, reqs[r].fault)
            BY <1>0, <1>3, KeyMoves
        <2>2. RequestOK(r)'
            BY <1>0, <1>1, <1>3, <2>1
               DEF Moved, RequestOK, Keyed, KeyOrg, Resolved, Explained, HasRow
        <2>3. QED
            BY <1>0, <2>1, <2>2, OneRequestMoves DEF Moved
    <1>4. ASSUME ResolveTenant(r) PROVE TenantsInv'
        <2> DEFINE o == KeyOrg(r)
        <2>1. /\ At(r, "resolving") /\ reqs[r].org = NoOrg /\ reqs[r].user = NoUser
              /\ reqs[r].key \in Keys /\ o \in Orgs \cup {NoOrg}
              /\ o # NoOrg => orgs[o] \in {"live", "gone"}
            BY <1>0, <1>4
               DEF ResolveTenant, Keyed, KeyOrg, Resolved, TenantsTypeOK, KeyRow
        <2>2. ASSUME NEW org, org = IF Lives(o) THEN o ELSE NoOrg,
                     reqs' = [reqs EXCEPT ![r].pc = "serving", ![r].org = org]
              PROVE  TenantsInv'
            <3>1. org \in Orgs \cup {NoOrg}
                BY <2>1, <2>2
            <3>2. Moved(r, "serving", reqs[r].key, reqs[r].name, org, reqs[r].user,
                        reqs[r].fault)
                BY <1>0, <2>2, <3>1, OrgMoves
            <3>3. org = NoOrg => o = NoOrg \/ orgs[o] = "gone"
                BY <2>1, <2>2, TenantsAssumption DEF Lives
            <3>4. RequestOK(r)'
                <4>1. KeyOrg(r)' = o
                    BY <1>1, <3>2 DEF Moved, KeyOrg
                <4>2. QED
                    BY <1>0, <1>1, <2>1, <2>2, <3>2, <3>3, <4>1
                       DEF Moved, RequestOK, Keyed, KeyOrg, Resolved, Explained, HasRow, Orgless
            <3>5. QED
                BY <1>0, <3>2, <3>4, OneRequestMoves DEF Moved
        <2>3. ASSUME reqs' = [reqs EXCEPT ![r].pc = "serving", ![r].fault = TRUE]
              PROVE  TenantsInv'
            <3>1. Moved(r, "serving", reqs[r].key, reqs[r].name, reqs[r].org, reqs[r].user,
                        TRUE)
                BY <1>0, <2>3, FaultMoves
            <3>2. RequestOK(r)'
                BY <1>0, <1>1, <2>1, <3>1
                   DEF Moved, RequestOK, Keyed, KeyOrg, Resolved, Explained, HasRow
            <3>3. QED
                BY <1>0, <3>1, <3>2, OneRequestMoves DEF Moved
        <2>4. QED
            BY <1>4, <2>2, <2>3 DEF ResolveTenant
    <1>5. QED
        BY <1>2, <1>3, <1>4 DEF Authenticate

\* The answer, and the search for the end user it is for.
LEMMA AnsweringKeeps ==
    ASSUME TenantsInv, NEW r \in Requests, Answer(r) \/ FindEndUser(r)
    PROVE  TenantsInv'
    <1>0. /\ TenantsTypeOK /\ reqs[r] \in Request /\ RowsUnchanged
          /\ Keyed(r) /\ Resolved(r) /\ Explained(r)
          /\ At(r, "serving") \/ At(r, "finding")
          /\ reqs[r].user = NoUser
        BY DEF TenantsInv, TenantsTypeOK, RequestOK, Answer, FindEndUser, At, Resolved
    <1>1. UNCHANGED <<orgs, keys, users, usage, credited>>
        BY <1>0 DEF RowsUnchanged
    <1> USE DEF At
    <1>2. ASSUME NEW pc \in {"unbilled", "finding", "creating", "recording"}, Goes(r, pc),
                 pc \in {"finding", "creating"} => reqs[r].org # NoOrg /\ reqs[r].name # NoName,
                 pc = "recording" => reqs[r].name = NoName \/ reqs[r].org = NoOrg
          PROVE  TenantsInv'
        <2>1. GoesTo(r, pc)
            BY <1>0, <1>2, GoingMoves
        <2>2. RequestOK(r)'
            BY <1>0, <1>1, <1>2, <2>1
               DEF GoesTo, Moved, RequestOK, Keyed, KeyOrg, Resolved, Explained, HasRow, Orgless
        <2>3. QED
            BY <1>0, <2>1, <2>2, OneRequestMoves DEF GoesTo, Moved
    <1>3. CASE Answer(r)
        BY <1>2, <1>3 DEF Answer
    <1>4. ASSUME FindEndUser(r) PROVE TenantsInv'
        <2>1. /\ reqs[r].org # NoOrg /\ reqs[r].org = KeyOrg(r) /\ At(r, "finding")
              /\ reqs[r].name # NoName
            BY <1>0, <1>4 DEF Keyed, KeyOrg, FindEndUser
        <2>2. ASSUME NEW u \in Named(reqs[r].org, reqs[r].name),
                     reqs' = [reqs EXCEPT ![r].pc = "recording", ![r].user = u]
              PROVE  TenantsInv'
            <3>1. u \in UserIds /\ users[u].st = "live" /\ users[u].org = reqs[r].org
                BY DEF Named, LiveUsers
            <3>2. u # NoUser
                BY <3>1 DEF UserIds, NoUser
            <3>3. Moved(r, "recording", reqs[r].key, reqs[r].name, reqs[r].org, u,
                        reqs[r].fault)
                BY <1>0, <2>2, <3>1, UserMoves
            <3>4. RequestOK(r)'
                BY <1>0, <1>1, <2>1, <3>1, <3>2, <3>3
                   DEF Moved, RequestOK, Keyed, KeyOrg, Resolved, Explained, HasRow
            <3>5. QED
                BY <1>0, <3>3, <3>4, OneRequestMoves DEF Moved
        <2>3. ASSUME reqs' = [reqs EXCEPT ![r].pc = "recording", ![r].fault = TRUE]
              PROVE  TenantsInv'
            <3>1. Moved(r, "recording", reqs[r].key, reqs[r].name, reqs[r].org, reqs[r].user,
                        TRUE)
                BY <1>0, <2>3, FaultMoves
            <3>2. RequestOK(r)'
                BY <1>0, <1>1, <2>1, <3>1
                   DEF Moved, RequestOK, Keyed, KeyOrg, Resolved, Explained, HasRow
            <3>3. QED
                BY <1>0, <3>1, <3>2, OneRequestMoves DEF Moved
        <2>4. QED
            BY <1>2, <1>4, <2>1, <2>2, <2>3 DEF FindEndUser
    <1>5. QED
        BY <1>3, <1>4

\* A request that moves while rows change keeps the invariant if it is well off
\* itself and the totals add up.
LEMMA RequestKeeps ==
    ASSUME TenantsInv, TenantsTypeOK', Kept, NEW r \in Requests,
           \A q \in Requests \ {r} : reqs'[q] = reqs[q] /\ credited'[q] = credited[q],
           RequestOK(r)', TotalsKept'
    PROVE  TenantsInv'
    BY OthersKept DEF TenantsInv

\* CreateUser upserts the end user of the request's organization; without it,
\* the organization was deleted or the statement failed.
LEMMA CreateUserKeeps ==
    ASSUME TenantsInv, NEW r \in Requests, CreateUser(r)
    PROVE  TenantsInv'
    <1>0. /\ TenantsTypeOK /\ reqs[r] \in Request
          /\ Keyed(r) /\ Resolved(r) /\ Explained(r)
          /\ UNCHANGED <<orgs, keys, usage, changes, credited>>
          /\ reqs[r].pc = "creating" /\ reqs[r].user = NoUser
        BY DEF TenantsInv, TenantsTypeOK, RequestOK, CreateUser, At, Resolved
    <1>1. /\ reqs[r].key \in Keys /\ keys[reqs[r].key].status # "none"
          /\ reqs[r].org # NoOrg /\ reqs[r].org = KeyOrg(r) /\ reqs[r].name # NoName
          /\ reqs[r].org \in Orgs /\ orgs[reqs[r].org] \in {"live", "gone"}
          /\ reqs[r].name \in Externals \cup {NoName}
        BY <1>0 DEF Keyed, KeyOrg, TenantsTypeOK, Request
    <1>2. ASSUME NEW u \in UserIds, UpsertUser(reqs[r].org, reqs[r].name, u),
                 reqs' = [reqs EXCEPT ![r].pc = "recording", ![r].user = u]
          PROVE  TenantsInv'
        <2>1. Moved(r, "recording", reqs[r].key, reqs[r].name, reqs[r].org, u, reqs[r].fault)
            BY <1>0, <1>2, UserMoves
        <2>2. /\ users' \in [UserIds -> UserRow]
              /\ users'[u].st = "live" /\ users'[u].org = reqs[r].org
            BY <1>0, <1>1, <1>2, UpsertKeeps
        <2>3. UsersKept /\ TotalsKept'
            BY <1>0, <1>1, <1>2, UpsertKept
        <2>4. TenantsTypeOK'
            BY <1>0, <2>1, <2>2 DEF TenantsTypeOK, Moved
        <2>5. Kept
            BY <1>0, <2>3 DEF Kept, OrgsKept, KeysKept, RowsKept
        <2>6. u # NoUser
            BY DEF UserIds, NoUser
        <2>7. RequestOK(r)'
            BY <1>0, <1>1, <2>1, <2>2, <2>6
               DEF Moved, RequestOK, Keyed, KeyOrg, Resolved, Explained, HasRow
        <2>8. QED
            BY <1>0, <2>1, <2>3, <2>4, <2>5, <2>7, RequestKeeps DEF Moved
    <1>3. ASSUME UNCHANGED users, orgs[reqs[r].org] # "live", Goes(r, "recording")
          PROVE  TenantsInv'
        <2>1. GoesTo(r, "recording")
            BY <1>0, <1>3, GoingMoves
        <2>2. RequestOK(r)'
            BY <1>0, <1>1, <1>3, <2>1
               DEF GoesTo, Moved, RequestOK, Keyed, KeyOrg, Resolved, Explained, HasRow, Orgless
        <2>3. QED
            BY <1>0, <1>3, <2>1, <2>2, OneRequestMoves DEF GoesTo, Moved, RowsUnchanged
    <1>4. ASSUME UNCHANGED users,
                 reqs' = [reqs EXCEPT ![r].pc = "recording", ![r].fault = TRUE]
          PROVE  TenantsInv'
        <2>1. Moved(r, "recording", reqs[r].key, reqs[r].name, reqs[r].org, reqs[r].user, TRUE)
            BY <1>0, <1>4, FaultMoves
        <2>2. RequestOK(r)'
            BY <1>0, <1>1, <1>4, <2>1
               DEF Moved, RequestOK, Keyed, KeyOrg, Resolved, Explained, HasRow
        <2>3. QED
            BY <1>0, <1>4, <2>1, <2>2, OneRequestMoves DEF Moved, RowsUnchanged
    <1>5. QED
        BY <1>2, <1>3, <1>4 DEF CreateUser

\* The usage row and the total of its end user are written together.
LEMMA RecordUsageKeeps ==
    ASSUME TenantsInv, NEW r \in Requests, RecordUsage(r)
    PROVE  TenantsInv'
    <1> DEFINE key == reqs[r].key
    <1>0. /\ TenantsTypeOK /\ reqs[r] \in Request
          /\ Keyed(r) /\ Resolved(r) /\ Explained(r)
          /\ UNCHANGED <<orgs, keys, changes>>
          /\ reqs[r].pc = "recording" /\ credited[r] = NoUser
          /\ CanInsertUsage(r) /\ Goes(r, "recorded")
        BY DEF TenantsInv, TenantsTypeOK, RequestOK, RecordUsage, At, Resolved
    <1>1. PICK u, new : u = reqs[r].user /\ new = [request |-> r, key |-> key, user |-> u]
        OBVIOUS
    <1>2. /\ usage' = usage \cup {new}
          /\ users' = IF u = NoUser THEN users ELSE [users EXCEPT ![u].count = @ + 1]
          /\ credited' = [credited EXCEPT ![r] = u]
        BY <1>1 DEF RecordUsage
    <1>3. /\ key \in Keys /\ u \in UserIds \cup {NoUser}
          /\ u # NoUser => u \in UserIds /\ users[u].st = "live"
        BY <1>0, <1>1 DEF Keyed, KeyOrg, Request, CanInsertUsage, LiveUsers
    <1>4. new \in UsageRow /\ new.request = r /\ new.key = key /\ new.user = u
        BY <1>1, <1>3 DEF UsageRow
    <1>5. GoesTo(r, "recorded")
        BY <1>0, GoingMoves
    <1>6. /\ users' \in [UserIds -> UserRow]
          /\ \A v \in UserIds :
               /\ users'[v].st = users[v].st /\ users'[v].org = users[v].org
               /\ users'[v].count = IF v = u THEN users[v].count + 1 ELSE users[v].count
        <2>1. CASE u = NoUser
            <3>1. \A v \in UserIds : v # u
                BY <2>1 DEF UserIds, NoUser
            <3>2. QED
                BY <1>0, <1>2, <2>1, <3>1 DEF TenantsTypeOK
        <2>2. CASE u # NoUser
            <3>1. PICK one : one = [users[u] EXCEPT !.count = @ + 1]
                OBVIOUS
            <3>2. users' = [users EXCEPT ![u] = one]
                BY <1>2, <2>2, <3>1
            <3>3. /\ one \in UserRow /\ one.st = users[u].st /\ one.org = users[u].org
                  /\ one.count = users[u].count + 1
                BY <1>0, <1>3, <2>2, <3>1 DEF TenantsTypeOK, UserRow
            <3>4. QED
                BY <1>0, <1>3, <2>2, <3>2, <3>3 DEF TenantsTypeOK
        <2>3. QED
            BY <2>1, <2>2
    <1>7. TenantsTypeOK'
        BY <1>0, <1>2, <1>3, <1>4, <1>5, <1>6 DEF TenantsTypeOK, GoesTo, Moved
    <1>8. Kept
        <2>1. UsersKept
            BY <1>6 DEF UsersKept
        <2>2. RowsKept
            BY <1>2 DEF RowsKept
        <2>3. QED
            BY <1>0, <2>1, <2>2 DEF Kept, OrgsKept, KeysKept
    <1>9. credited'[r] = u /\ \A q \in Requests \ {r} : credited'[q] = credited[q]
        BY <1>0, <1>2 DEF TenantsTypeOK
    <1>10. RequestOK(r)'
        <2>1. Keyed(r)' /\ Explained(r)'
            BY <1>0, <1>5, <1>6 DEF GoesTo, Moved, Keyed, KeyOrg, Explained, Orgless
        <2>2. Resolved(r)'
            BY <1>0, <1>1, <1>3, <1>5, <1>6, <1>9 DEF GoesTo, Moved, Resolved, KeyOrg
        <2>3. HasRow(r)'
            BY <1>1, <1>2, <1>4, <1>5 DEF GoesTo, Moved, HasRow
        <2>4. QED
            BY <2>1, <2>2, <2>3 DEF RequestOK
    <1>11. TotalsKept'
        <2>1. SUFFICES ASSUME NEW v \in UserIds
                       PROVE  /\ IsFiniteSet(Credits(v)')
                              /\ users'[v].count = Cardinality(Credits(v)')
            BY DEF TotalsKept
        <2>2. IsFiniteSet(Credits(v)) /\ users[v].count = Cardinality(Credits(v))
            BY DEF TenantsInv, TotalsKept
        <2>3. CASE v = u
            <3>1. v # NoUser
                BY DEF UserIds, NoUser
            <3>2. Credits(v)' = Credits(v) \cup {r} /\ r \notin Credits(v)
                BY <1>0, <1>9, <2>3, <3>1 DEF Credits
            <3>3. QED
                BY <1>6, <2>2, <2>3, <3>2, FS_AddElement
        <2>4. CASE v # u
            <3>1. Credits(v)' = Credits(v)
                <4>1. v # NoUser
                    BY DEF UserIds, NoUser
                <4>2. QED
                    BY <1>0, <1>9, <2>4, <4>1 DEF Credits
            <3>2. QED
                BY <1>6, <2>2, <2>4, <3>1
        <2>5. QED
            BY <2>3, <2>4
    <1>12. QED
        BY <1>5, <1>7, <1>8, <1>9, <1>10, <1>11, RequestKeeps DEF GoesTo, Moved

\* Usage that was lost without a failed statement had no key or no end user left.
LEMMA LoseUsageKeeps ==
    ASSUME TenantsInv, NEW r \in Requests, LoseUsage(r)
    PROVE  TenantsInv'
    <1>0. /\ TenantsTypeOK /\ reqs[r] \in Request /\ reqs[r].fault \in BOOLEAN
          /\ RowsUnchanged /\ reqs[r].pc = "recording"
          /\ Keyed(r) /\ Resolved(r) /\ Explained(r)
        BY DEF TenantsInv, TenantsTypeOK, RequestOK, LoseUsage, At, Request
    <1>1. UNCHANGED <<orgs, keys, users, usage, credited>>
        BY <1>0 DEF RowsUnchanged
    <1>2. CanInsertUsage(r) \in BOOLEAN
        BY DEF CanInsertUsage
    <1>3. PICK can \in BOOLEAN : can = CanInsertUsage(r)
        BY <1>2, Zenon
    <1>4. PICK fault \in BOOLEAN : fault = (reqs[r].fault \/ can)
        BY <1>0, <1>3
    <1>5. reqs' = [reqs EXCEPT ![r].pc = "lost", ![r].fault = fault]
        <2>1. reqs' = [reqs EXCEPT ![r].pc = "lost", ![r].fault = @ \/ can]
            BY <1>3, Zenon DEF LoseUsage
        <2>2. QED
            BY <1>0, <1>4, <2>1 DEF TenantsTypeOK, Request
    <1>6. Moved(r, "lost", reqs[r].key, reqs[r].name, reqs[r].org, reqs[r].user, fault)
        BY <1>0, <1>5, FaultMoves
    <1>7. ~fault => ~reqs[r].fault /\ (~KeyExists(reqs[r].key) \/ UserGone(r))
        <2>1. SUFFICES ASSUME ~fault, KeyExists(reqs[r].key) PROVE UserGone(r)
            BY <1>4
        <2>2. reqs[r].user # NoUser /\ reqs[r].user \notin LiveUsers
            BY <1>3, <1>4, <2>1 DEF CanInsertUsage
        <2>3. reqs[r].user \in UserIds /\ users[reqs[r].user].st # "free"
            BY <1>0, <2>2 DEF Resolved, Request
        <2>4. users[reqs[r].user].st \in {"free", "live", "gone"}
            BY <1>0, <2>3 DEF TenantsTypeOK, UserRow
        <2>5. QED
            BY <2>2, <2>3, <2>4 DEF UserGone, LiveUsers
    <1>8. RequestOK(r)'
        <2>1. Keyed(r)' /\ Resolved(r)' /\ HasRow(r)'
            BY <1>0, <1>1, <1>6 DEF Moved, Keyed, KeyOrg, Resolved, HasRow
        <2>2. Explained(r)'
            BY <1>0, <1>1, <1>6, <1>7
               DEF Moved, Keyed, KeyOrg, Explained, Orgless, UserGone, KeyExists
        <2>3. QED
            BY <2>1, <2>2 DEF RequestOK
    <1>9. QED
        BY <1>0, <1>6, <1>8, OneRequestMoves DEF Moved

-----------------------------------------------------------------------------
(* The theorems.                                                           *)

\* Every step keeps the invariant.
LEMMA TenantsStepKeeps == TenantsInv /\ [Next]_vars => TenantsInv'
<1> SUFFICES ASSUME TenantsInv, [Next]_vars PROVE TenantsInv'
    OBVIOUS
<1>1. CASE UNCHANGED vars
    <2>1. UNCHANGED <<orgs, keys, users, usage, reqs, credited>>
        BY <1>1 DEF vars
    <2>2. TenantsTypeOK' /\ Kept
        BY <2>1 DEF TenantsInv, TenantsTypeOK, Kept, OrgsKept, KeysKept, UsersKept, RowsKept
    <2>3. QED
        BY <2>1, <2>2, QuietKeeps
<1>2. CASE Administer
    BY <1>2, OrgsKeep, KeysKeep, EndUsersKeep DEF Administer
<1>3. ASSUME NEW r \in Requests, Serve(r) PROVE TenantsInv'
    BY <1>3, AdmissionKeeps, AnsweringKeeps, CreateUserKeeps, RecordUsageKeeps,
       LoseUsageKeeps DEF Serve
<1>4. QED
    BY <1>1, <1>2, <1>3 DEF Next

\* Requests, administrators and failing statements, in any order, keep what
\* every request knows true of the tables, and the totals right.
THEOREM TenantsInvariant == Spec => []TenantsInv
<1>1. QED
    BY TenantsStart, TenantsStepKeeps, PTL DEF Spec

\* The totals of the end users count every recorded request exactly once,
\* however requests race to create them and whatever is deleted.
THEOREM TotalsAreRight == Spec => []TotalsCountEveryRequest
<1>1. TenantsInv => TotalsCountEveryRequest
    BY DEF TenantsInv, TotalsKept, Credits, TotalsCountEveryRequest, LiveUsers
<1>2. QED
    BY <1>1, TenantsInvariant, PTL

\* No usage is ever credited to an end user of another organization.
THEOREM CreditStaysInside == Spec => []CreditedWithinTheOrganization
<1>1. TenantsInv => CreditedWithinTheOrganization
    BY DEF TenantsInv, RequestOK, Resolved, CreditedWithinTheOrganization
<1>2. QED
    BY <1>1, TenantsInvariant, PTL

\* No usage goes missing but by a failed statement or a deletion, and usage
\* has no end user only for want of a name or of the key's organization.
THEOREM NoAnswerGoesUncredited == Spec => []AnswersAreCredited
<1>1. ASSUME TenantsInv, NEW r \in Requests,
             At(r, "recorded") \/ (At(r, "lost") /\ ~reqs[r].fault),
             KeyExists(reqs[r].key), ~reqs[r].fault, ~Deleted(r)
      PROVE  \E row \in usage :
               /\ row.request = r
               /\ row.user # NoUser <=> reqs[r].name # NoName /\ KeyOrg(r) # NoOrg
    <2>1. RequestOK(r) /\ ~UserGone(r)
        BY <1>1 DEF TenantsInv, Deleted, UserGone
    <2>2. reqs[r].pc = "recorded"
        BY <1>1, <2>1 DEF At, RequestOK, Explained
    <2>3. PICK row \in usage : row.request = r /\ row.user = reqs[r].user
        BY <1>1, <2>1, <2>2 DEF RequestOK, HasRow
    <2>4. reqs[r].user # NoUser => reqs[r].name # NoName /\ KeyOrg(r) # NoOrg
        BY <2>1 DEF RequestOK, Resolved
    <2>5. ASSUME reqs[r].name # NoName, KeyOrg(r) # NoOrg PROVE reqs[r].user # NoUser
        <3>1. orgs[KeyOrg(r)] = "live"
            BY <1>1, <2>5 DEF Deleted, Lives
        <3>2. ~Orgless(r)
            BY <2>5, <3>1 DEF Orgless
        <3>3. QED
            BY <1>1, <2>1, <2>2, <2>5, <3>2 DEF RequestOK, Explained
    <2>6. QED
        BY <2>3, <2>4, <2>5
<1>2. TenantsInv => AnswersAreCredited
    BY <1>1 DEF AnswersAreCredited
<1>3. QED
    BY <1>2, TenantsInvariant, PTL

=============================================================================

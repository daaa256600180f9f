------------------------- MODULE SmartRouterProofs -------------------------
(***************************************************************************)
(* Theorems about the smart router, for any number of callers, pools,      *)
(* endpoints and strategies, and any thresholds.                           *)
(***************************************************************************)
EXTENDS SmartRouter, FiniteSetTheorems, SequenceTheorems,
        WellFoundedInduction, TLAPS

-----------------------------------------------------------------------------
(* Circuits.                                                               *)

RouterTypeOK ==
    /\ HealthTypeOK
    /\ at \in [Requests -> Endpoints \cup {NoEndpoint}]

CircuitInv == RouterTypeOK /\ CircuitsAreSound

\* What an endpoint's health may be.
SoundHealth ==
    {h \in Health : /\ (h.state = "healthy") <=> (h.opened = None)
                    /\ h.state = "healthy" => h.consecutive < FailureThreshold}

\* The invariant says that every endpoint's health is one of these.
LEMMA HealthIsSound ==
    HealthTypeOK /\ CircuitsAreSound <=> health \in [Endpoints -> SoundHealth]
    BY DEF HealthTypeOK, CircuitsAreSound, SoundHealth

\* An endpoint without history, or with a healthy mark, is sound.
LEMMA DefaultIsSound ==
    \A f \in BOOLEAN : [Default EXCEPT !.failed = f] \in SoundHealth
    <1>0. Default \in Health
        BY HealthAssumption DEF Default, Health, None
    <1>1. PICK d \in Health : d = Default
        BY <1>0
    <1>2. /\ d.state = "healthy" /\ d.consecutive = 0 /\ d.opened = None
        BY <1>1 DEF Default
    <1>3. \A f \in BOOLEAN : [d EXCEPT !.failed = f] \in SoundHealth
        BY <1>2, HealthAssumption DEF SoundHealth, Health
    <1>4. QED
        BY <1>1, <1>3

\* Each report and each mark leaves the endpoint's circuit sound.
LEMMA ReportsKeepCircuits ==
    ASSUME health \in [Endpoints -> SoundHealth], NEW e \in Endpoints,
           \/ RecordSuccess(e) \/ RecordFailure(e)
           \/ MarkHealthy(e) \/ MarkUnhealthy(e) \/ Reset(e)
    PROVE  health' \in [Endpoints -> SoundHealth]
    <1>0. PICK h \in SoundHealth : h = health[e]
        OBVIOUS
    <1>1. CASE RecordSuccess(e) \/ MarkHealthy(e)
        <2>1. h.failed \in BOOLEAN
            BY DEF SoundHealth, Health
        <2>2. [Default EXCEPT !.failed = health[e].failed] \in SoundHealth
            BY <1>0, <2>1, DefaultIsSound
        <2>3. QED
            BY <1>1, <2>2 DEF RecordSuccess, MarkHealthy
    <1>2. CASE RecordFailure(e)
        <2> DEFINE new == [state |-> IF Opens(e) THEN "unhealthy" ELSE h.state,
                           consecutive |-> IF h.consecutive < FailureThreshold
                                           THEN h.consecutive + 1 ELSE h.consecutive,
                           opened |-> IF Opens(e) THEN 0 ELSE h.opened,
                           failed |-> TRUE]
        <2>1. health' = [health EXCEPT ![e] = new]
            BY <1>0, <1>2 DEF RecordFailure
        <2>2. /\ h.state \in {"healthy", "unhealthy", "half_open"}
              /\ h.consecutive \in 0 .. FailureThreshold
              /\ h.opened \in None .. RecoveryTimeout
              /\ (h.state = "healthy") <=> (h.opened = None)
              /\ h.state = "healthy" => h.consecutive < FailureThreshold
            BY DEF SoundHealth, Health
        <2>3. Opens(e) <=> h.state # "healthy" \/ h.consecutive + 1 >= FailureThreshold
            BY <1>0 DEF Opens
        <2>4. new \in Health
            BY <2>2, HealthAssumption DEF Health, None
        <2>5. /\ (new.state = "healthy") <=> (new.opened = None)
              /\ new.state = "healthy" => new.consecutive < FailureThreshold
            BY <2>2, <2>3, HealthAssumption DEF None
        <2>6. new \in SoundHealth
            BY <2>4, <2>5 DEF SoundHealth
        <2>7. QED
            BY <2>1, <2>6
    <1>3. CASE MarkUnhealthy(e)
        <2>1. PICK new : new = [h EXCEPT !.state = "unhealthy", !.opened = 0]
            OBVIOUS
        <2>2. new \in SoundHealth
            <3>1. h \in Health /\ 0 \in None .. RecoveryTimeout
                BY HealthAssumption DEF SoundHealth, None
            <3>2. new \in Health
                BY <2>1, <3>1 DEF Health
            <3>3. new.state = "unhealthy" /\ new.opened = 0
                BY <2>1, <3>1 DEF Health
            <3>4. QED
                BY <3>2, <3>3 DEF SoundHealth, None
        <2>3. health' = [health EXCEPT ![e] = new]
            BY <1>0, <1>3, <2>1 DEF MarkUnhealthy
        <2>4. QED
            BY <2>2, <2>3
    <1>4. CASE Reset(e)
        <2>1. Default \in SoundHealth
            BY HealthAssumption DEF Default, SoundHealth, Health, None
        <2>2. QED
            BY <1>4, <2>1 DEF Reset
    <1>5. QED
        BY <1>1, <1>2, <1>3, <1>4

\* So does the passing of time.
LEMMA TimeKeepsCircuits ==
    ASSUME health \in [Endpoints -> SoundHealth], Elapse
    PROVE  health' \in [Endpoints -> SoundHealth]
    <1>1. SUFFICES ASSUME NEW e \in Endpoints PROVE health'[e] \in SoundHealth
        BY DEF Elapse
    <1>2. PICK h \in SoundHealth : h = health[e]
        OBVIOUS
    <1>3. health'[e] = [h EXCEPT !.opened =
                           IF @ = None \/ @ >= RecoveryTimeout THEN @ ELSE @ + 1]
        BY <1>2 DEF Elapse
    <1>4. h.opened \in None .. RecoveryTimeout
        BY DEF SoundHealth, Health
    <1>5. PICK o : o = IF h.opened = None \/ h.opened >= RecoveryTimeout
                       THEN h.opened ELSE h.opened + 1
        OBVIOUS
    <1>6. o \in None .. RecoveryTimeout /\ (o = None <=> h.opened = None)
        BY <1>4, <1>5, HealthAssumption DEF None
    <1>7. [h EXCEPT !.opened = o] \in SoundHealth
        BY <1>6 DEF SoundHealth, Health
    <1>8. QED
        BY <1>3, <1>5, <1>7

\* A circuit is dated exactly while it is not closed, whatever order reports,
\* marks and the clock come in, with callers that were routed before it opened
\* reporting after: is_healthy never meets an open circuit it cannot reopen.
THEOREM CircuitsStaySound == RouterSpec => []CircuitsAreSound
<1>1. RouterInit => CircuitInv
    <2> SUFFICES ASSUME RouterInit PROVE CircuitInv
        OBVIOUS
    <2>1. Default \in SoundHealth
        BY HealthAssumption DEF Default, SoundHealth, Health, None
    <2>2. health \in [Endpoints -> SoundHealth]
        BY <2>1 DEF RouterInit, HealthInit
    <2>3. QED
        BY <2>2, HealthIsSound DEF RouterInit, CircuitInv, RouterTypeOK
<1>2. CircuitInv /\ [RouterNext]_routerVars => CircuitInv'
    <2> SUFFICES ASSUME CircuitInv, [RouterNext]_routerVars PROVE CircuitInv'
        OBVIOUS
    <2>0. /\ health \in [Endpoints -> SoundHealth]
          /\ at \in [Requests -> Endpoints \cup {NoEndpoint}]
        BY HealthIsSound DEF CircuitInv, RouterTypeOK
    <2>1. SUFFICES /\ health' \in [Endpoints -> SoundHealth]
                   /\ at' \in [Requests -> Endpoints \cup {NoEndpoint}]
        <3>1. health' \in [Endpoints -> SoundHealth]
                  => HealthTypeOK' /\ CircuitsAreSound'
            BY DEF HealthTypeOK, CircuitsAreSound, SoundHealth
        <3>2. QED
            BY <2>1, <3>1 DEF CircuitInv, RouterTypeOK
    <2>2. ASSUME NEW r \in Requests, Route(r)
          PROVE  /\ health' \in [Endpoints -> SoundHealth]
                 /\ at' \in [Requests -> Endpoints \cup {NoEndpoint}]
        <3>1. /\ health' = health
              /\ \E e \in Endpoints : at' = [at EXCEPT ![r] = e]
            BY <2>2 DEF Route
        <3>2. QED
            BY <2>0, <3>1
    <2>3. ASSUME NEW r \in Requests,
                 ReportSuccess(r) \/ ReportFailure(r) \/ NothingReported(r)
          PROVE  /\ health' \in [Endpoints -> SoundHealth]
                 /\ at' \in [Requests -> Endpoints \cup {NoEndpoint}]
        <3>1. at' \in [Requests -> Endpoints \cup {NoEndpoint}]
            BY <2>0, <2>3 DEF ReportSuccess, ReportFailure, NothingReported, Finish
        <3>2. CASE ReportSuccess(r) \/ ReportFailure(r)
            <4>1. at[r] \in Endpoints /\ (RecordSuccess(at[r]) \/ RecordFailure(at[r]))
                BY <2>0, <3>2, RouterAssumption DEF ReportSuccess, ReportFailure
            <4>2. QED
                BY <2>0, <3>1, <4>1, ReportsKeepCircuits
        <3>3. CASE NothingReported(r)
            BY <2>0, <3>1, <3>3 DEF NothingReported
        <3>4. QED
            BY <2>3, <3>2, <3>3
    <2>4. ASSUME NEW e \in Troubled, Mark(e)
          PROVE  /\ health' \in [Endpoints -> SoundHealth]
                 /\ at' \in [Requests -> Endpoints \cup {NoEndpoint}]
        <3>1. /\ e \in Endpoints /\ at' = at
              /\ MarkHealthy(e) \/ MarkUnhealthy(e) \/ Reset(e)
            BY <2>4, RouterAssumption DEF Mark
        <3>2. QED
            BY <2>0, <3>1, ReportsKeepCircuits
    <2>5. CASE TimePasses
        BY <2>0, <2>5, TimeKeepsCircuits DEF TimePasses
    <2>6. CASE UNCHANGED routerVars
        BY <2>0, <2>6 DEF routerVars
    <2>7. QED
        BY <2>2, <2>3, <2>4, <2>5, <2>6 DEF RouterNext
<1>3. QED
    BY <1>1, <1>2, PTL DEF RouterSpec, CircuitInv

-----------------------------------------------------------------------------
(* Lists of available endpoints.                                           *)

\* A property of sets of natural numbers that zero has and that passes from
\* a number to the next is had by all.
LEMMA EveryNumber ==
    ASSUME NEW G, 0 \in G, \A n \in Nat : n \in G => n + 1 \in G
    PROVE  Nat \subseteq G
    <1> DEFINE R == OpToRel(<, Nat)
               B == Nat \ G
    <1>1. SUFFICES ASSUME B # {} PROVE FALSE
        OBVIOUS
    <1>2. IsWellFoundedOn(R, Nat)
        BY NatLessThanWellFounded
    <1>3. PICK x \in B : \A y \in B : <<y, x>> \notin R
        <2> HIDE DEF R
        <2> B \subseteq Nat
            OBVIOUS
        <2> HIDE DEF B
        <2> QED BY <1>1, <1>2, WFMin
    <1>4. x \in Nat /\ x # 0 /\ x - 1 \in Nat /\ x - 1 < x
        OBVIOUS
    <1>5. <<x - 1, x>> \in R
        BY <1>4 DEF OpToRel
    <1>6. x - 1 \in G
        BY <1>3, <1>4, <1>5
    <1>7. (x - 1) + 1 = x
        BY <1>4
    <1>8. QED
        BY <1>4, <1>6, <1>7

\* What the prefixes of a list keep, prefix by prefix.
KeptSoFar(list, S, kept) ==
    kept = [i \in 0 .. Len(list) |->
               IF i = 0 THEN <<>>
               ELSE IF list[i] \in S THEN Append(kept[i - 1], list[i])
               ELSE kept[i - 1]]

\* There is such a history of every filtering, and Kept is its end.
LEMMA KeptExists ==
    ASSUME NEW E, NEW list \in Seq(E), NEW S
    PROVE  \E kept : KeptSoFar(list, S, kept) /\ Kept(list, S) = kept[Len(list)]
    <1> DEFINE L == Len(list)
               Step(g, i) == IF i = 0 THEN <<>>
                             ELSE IF list[i] \in S THEN Append(g[i - 1], list[i])
                             ELSE g[i - 1]
               Upto(n, g) == /\ g = [i \in 0 .. L |-> g[i]]
                             /\ \A i \in 0 .. L : i <= n => g[i] = Step(g, i)
               H == {n \in Nat : \E g : Upto(n, g)}
    <1>0. L \in Nat
        OBVIOUS
    <1>1. 0 \in H
        <2>1. PICK g : g = [i \in 0 .. L |-> <<>>]
            OBVIOUS
        <2>2. Upto(0, g)
            BY <1>0, <2>1
        <2>3. QED
            BY <2>2
    <1>2. ASSUME NEW n \in Nat, n \in H PROVE n + 1 \in H
        <2>1. PICK g : Upto(n, g)
            BY <1>2
        <2>2. PICK h : h = [i \in 0 .. L |-> Step(g, i)]
            OBVIOUS
        <2>3. \A i \in 0 .. L : i <= n => h[i] = g[i]
            BY <2>1, <2>2
        <2>4. ASSUME NEW i \in 0 .. L, i <= n + 1 PROVE h[i] = Step(h, i)
            <3>1. h[i] = Step(g, i)
                BY <2>2
            <3>2. CASE i = 0
                BY <3>1, <3>2
            <3>3. CASE i # 0
                <4>1. i - 1 \in 0 .. L /\ i - 1 <= n
                    BY <1>0, <2>4, <3>3
                <4>2. h[i - 1] = g[i - 1]
                    BY <2>3, <4>1
                <4>3. QED
                    BY <3>1, <3>3, <4>2
            <3>4. QED
                BY <3>2, <3>3
        <2>5. h = [i \in 0 .. L |-> h[i]]
            BY <2>2
        <2>6. QED
            <3> HIDE DEF Step
            <3>1. Upto(n + 1, h)
                BY <2>4, <2>5
            <3> HIDE DEF Upto
            <3>2. QED
                BY <3>1
    <1>3. Nat \subseteq H
        <2> HIDE DEF H
        <2> QED BY <1>1, <1>2, EveryNumber
    <1>4. PICK g : Upto(L, g)
        BY <1>0, <1>3
    <1>5. KeptSoFar(list, S, g)
        <2>1. \A i \in 0 .. L : g[i] = Step(g, i)
            <3> HIDE DEF Step
            <3> QED BY <1>0, <1>4
        <2>2. g = [i \in 0 .. L |-> Step(g, i)]
            <3> HIDE DEF Step
            <3> QED BY <1>4, <2>1
        <2>3. QED
            BY <2>2 DEF KeptSoFar
    <1> DEFINE chosen == CHOOSE kept : KeptSoFar(list, S, kept)
    <1>6. KeptSoFar(list, S, chosen)
        BY <1>5
    <1>7. Kept(list, S) = chosen[L]
        BY DEF Kept, KeptSoFar
    <1>8. QED
        BY <1>6, <1>7

\* x comes before y in a list.
Before(list, x, y) ==
    \E i, j \in 1 .. Len(list) : i < j /\ list[i] = x /\ list[j] = y

\* A list without repetitions has one order.
LEMMA BeforeIsStrict ==
    ASSUME NEW E, NEW list \in Seq(E), IsInjective(list), NEW x, NEW y,
           Before(list, x, y)
    PROVE  x # y /\ ~Before(list, y, x)
    <1>1. DOMAIN list = 1 .. Len(list) /\ Len(list) \in Nat
        OBVIOUS
    <1>2. \A i, j \in 1 .. Len(list) : list[i] = list[j] => i = j
        BY <1>1 DEF IsInjective
    <1>3. QED
        BY <1>1, <1>2 DEF Before

\* What is kept of a list are its members that are in the set, in its order.
LEMMA KeptInOrder ==
    ASSUME NEW E, NEW list \in Seq(E), NEW S
    PROVE  /\ Kept(list, S) \in Seq(E)
           /\ Len(Kept(list, S)) <= Len(list)
           /\ \A j \in 1 .. Len(Kept(list, S)) :
                 Kept(list, S)[j] \in S \cap ToSet(list)
           /\ \A i, j \in 1 .. Len(Kept(list, S)) :
                 i < j => Before(list, Kept(list, S)[i], Kept(list, S)[j])
           /\ \A x \in S \cap ToSet(list) :
                 \E j \in 1 .. Len(Kept(list, S)) : Kept(list, S)[j] = x
    <1> DEFINE L == Len(list)
               From(s, n) == \A j \in 1 .. Len(s) :
                                s[j] \in S /\ \E k \in 1 .. n : s[j] = list[k]
               InOrder(s, n) == \A i, j \in 1 .. Len(s) : i < j =>
                                   \E a, b \in 1 .. n :
                                      a < b /\ list[a] = s[i] /\ list[b] = s[j]
               All(s, n) == \A k \in 1 .. n : list[k] \in S =>
                               \E j \in 1 .. Len(s) : s[j] = list[k]
               Good(s, n) == /\ s \in Seq(E) /\ Len(s) <= n
                             /\ From(s, n) /\ InOrder(s, n) /\ All(s, n)
    <1>1. PICK kept : KeptSoFar(list, S, kept) /\ Kept(list, S) = kept[L]
        BY KeptExists
    <1> DEFINE H == {n \in Nat : n <= L => Good(kept[n], n)}
    <1>0. L \in Nat /\ DOMAIN list = 1 .. L
        OBVIOUS
    <1>2. 0 \in H
        <2>1. kept[0] = <<>>
            BY <1>0, <1>1 DEF KeptSoFar
        <2>2. Good(<<>>, 0)
            OBVIOUS
        <2> HIDE DEF Good
        <2>3. QED
            BY <2>1, <2>2
    <1>3. ASSUME NEW n \in Nat, n \in H PROVE n + 1 \in H
        <2>1. SUFFICES ASSUME n + 1 <= L PROVE Good(kept[n + 1], n + 1)
            <3> HIDE DEF Good
            <3> QED OBVIOUS
        <2>2. Good(kept[n], n)
            BY <1>0, <1>3, <2>1
        <2>3. /\ n + 1 \in 0 .. L /\ n + 1 # 0 /\ (n + 1) - 1 = n
              /\ n + 1 \in 1 .. L /\ list[n + 1] \in E
            BY <1>0, <2>1
        <2>4. kept[n + 1] = IF list[n + 1] \in S THEN Append(kept[n], list[n + 1])
                            ELSE kept[n]
            BY <1>1, <2>3 DEF KeptSoFar
        <2>5. PICK s : s = kept[n]
            OBVIOUS
        <2>6. /\ s \in Seq(E) /\ Len(s) \in Nat /\ Len(s) <= n
              /\ From(s, n) /\ InOrder(s, n) /\ All(s, n)
            <3>1. Good(s, n)
                <4> HIDE DEF Good
                <4> QED BY <2>2, <2>5
            <3> HIDE DEF From, InOrder, All
            <3>2. QED
                BY <3>1
        <2>7. 1 .. n \subseteq 1 .. n + 1 /\ \A k \in 1 .. n + 1 : k \in 1 .. n \/ k = n + 1
            OBVIOUS
        <2>8. CASE list[n + 1] \in S
            <3>1. PICK t : t = Append(s, list[n + 1])
                OBVIOUS
            <3>2. /\ t \in Seq(E) /\ Len(t) = Len(s) + 1 /\ Len(t) \in 1 .. Len(t)
                  /\ t[Len(t)] = list[n + 1]
                  /\ \A j \in 1 .. Len(s) : j \in 1 .. Len(t) /\ t[j] = s[j]
                  /\ \A j \in 1 .. Len(t) : j = Len(t) \/ j \in 1 .. Len(s)
                BY <2>3, <2>6, <3>1
            <3>3. From(t, n + 1)
                <4>1. SUFFICES ASSUME NEW j \in 1 .. Len(t)
                      PROVE t[j] \in S /\ \E k \in 1 .. n + 1 : t[j] = list[k]
                    OBVIOUS
                <4>2. CASE j = Len(t)
                    <5>1. t[j] = list[n + 1] /\ n + 1 \in 1 .. n + 1
                        BY <3>2, <4>2
                    <5>2. QED
                        BY <2>8, <5>1
                <4>3. CASE j \in 1 .. Len(s)
                    BY <2>6, <2>7, <3>2, <4>3
                <4>4. QED
                    BY <3>2, <4>2, <4>3
            <3>4. InOrder(t, n + 1)
                <4>1. SUFFICES ASSUME NEW i \in 1 .. Len(t), NEW j \in 1 .. Len(t), i < j
                      PROVE \E a, b \in 1 .. n + 1 :
                               a < b /\ list[a] = t[i] /\ list[b] = t[j]
                    OBVIOUS
                <4>2. i \in 1 .. Len(s) /\ t[i] = s[i]
                    BY <2>6, <3>2, <4>1
                <4>3. CASE j = Len(t)
                    <5>1. PICK a \in 1 .. n : s[i] = list[a]
                        BY <2>6, <4>2
                    <5>2. a \in 1 .. n + 1 /\ n + 1 \in 1 .. n + 1 /\ a < n + 1
                        BY <2>7
                    <5>3. list[a] = t[i] /\ list[n + 1] = t[j]
                        BY <3>2, <4>2, <4>3, <5>1
                    <5>4. QED
                        BY <5>2, <5>3
                <4>4. CASE j \in 1 .. Len(s)
                    <5>1. PICK a, b \in 1 .. n : a < b /\ list[a] = s[i] /\ list[b] = s[j]
                        BY <2>6, <4>1, <4>2, <4>4
                    <5>2. QED
                        BY <2>7, <3>2, <4>2, <4>4, <5>1
                <4>5. QED
                    BY <3>2, <4>3, <4>4
            <3>5. All(t, n + 1)
                <4>1. SUFFICES ASSUME NEW k \in 1 .. n + 1, list[k] \in S
                      PROVE \E j \in 1 .. Len(t) : t[j] = list[k]
                    OBVIOUS
                <4>2. CASE k = n + 1
                    BY <3>2, <4>2
                <4>3. CASE k \in 1 .. n
                    <5>1. PICK j \in 1 .. Len(s) : s[j] = list[k]
                        BY <2>6, <4>1, <4>3
                    <5>2. QED
                        BY <3>2, <5>1
                <4>4. QED
                    BY <2>7, <4>2, <4>3
            <3>6. Len(t) <= n + 1
                BY <2>6, <3>2
            <3>7. kept[n + 1] = t
                BY <2>4, <2>5, <2>8, <3>1
            <3> HIDE DEF From, InOrder, All
            <3>8. QED
                BY <3>2, <3>3, <3>4, <3>5, <3>6, <3>7
        <2>9. CASE list[n + 1] \notin S
            <3>1. kept[n + 1] = s
                BY <2>4, <2>5, <2>9
            <3>2. From(s, n + 1) /\ InOrder(s, n + 1)
                BY <2>6, <2>7
            <3>3. All(s, n + 1)
                BY <2>6, <2>7, <2>9
            <3>4. Len(s) <= n + 1
                BY <2>6
            <3> HIDE DEF From, InOrder, All
            <3>5. QED
                BY <2>6, <3>1, <3>2, <3>3, <3>4
        <2>10. QED
            BY <2>8, <2>9
    <1>4. Nat \subseteq H
        <2> HIDE DEF H
        <2> QED BY <1>2, <1>3, EveryNumber
    <1>5. Good(kept[L], L)
        <2> HIDE DEF Good
        <2> QED BY <1>0, <1>4
    <1>6. PICK es : es = Kept(list, S)
        OBVIOUS
    <1>7. Good(es, L)
        <2> HIDE DEF Good
        <2> QED BY <1>1, <1>5, <1>6
    <1>8. /\ es \in Seq(E) /\ Len(es) <= L
          /\ \A j \in 1 .. Len(es) : es[j] \in S \cap ToSet(list)
        <2>1. es \in Seq(E) /\ Len(es) <= L /\ From(es, L)
            BY <1>7
        <2>2. QED
            BY <1>0, <2>1 DEF ToSet
    <1>9. ASSUME NEW i \in 1 .. Len(es), NEW j \in 1 .. Len(es), i < j
          PROVE  Before(list, es[i], es[j])
        <2>1. InOrder(es, L)
            BY <1>7
        <2>2. PICK a, b \in 1 .. L : a < b /\ list[a] = es[i] /\ list[b] = es[j]
            BY <1>9, <2>1
        <2>3. QED
            BY <2>2 DEF Before
    <1>10. ASSUME NEW x \in S \cap ToSet(list)
           PROVE  \E j \in 1 .. Len(es) : es[j] = x
        <2>1. All(es, L)
            BY <1>7
        <2>2. PICK k \in 1 .. L : list[k] = x
            BY <1>0 DEF ToSet
        <2>3. QED
            BY <2>1, <2>2
    <1>11. QED
        <2> HIDE DEF L, Good
        <2>1. L = Len(list)
            BY DEF L
        <2>2. QED
            BY <1>6, <1>8, <1>9, <1>10, <2>1

\* What is kept of a list without repetitions has none.
LEMMA KeptIsDistinct ==
    ASSUME NEW E, NEW list \in Seq(E), IsInjective(list), NEW S
    PROVE  IsInjective(Kept(list, S))
    <1>1. PICK es : es = Kept(list, S)
        OBVIOUS
    <1>2. /\ es \in Seq(E)
          /\ \A i, j \in 1 .. Len(es) : i < j => Before(list, es[i], es[j])
        BY <1>1, KeptInOrder
    <1>3. \A i, j \in 1 .. Len(es) : i < j => es[i] # es[j]
        BY <1>2, BeforeIsStrict
    <1>4. DOMAIN es = 1 .. Len(es) /\ Len(es) \in Nat
        BY <1>2
    <1>5. ASSUME NEW i \in 1 .. Len(es), NEW j \in 1 .. Len(es), es[i] = es[j]
          PROVE  i = j
        <2>1. ~(i < j) /\ ~(j < i)
            BY <1>3, <1>5
        <2>2. QED
            BY <1>4, <2>1
    <1>6. IsInjective(es)
        BY <1>4, <1>5 DEF IsInjective
    <1>7. QED
        BY <1>1, <1>6

-----------------------------------------------------------------------------
(* The round-robin counter.                                                *)

\* A place in a circle of n places, of a number below twice n.
Around(k, n) == IF k < n THEN k ELSE k - n

\* Every number is some turns of n and a rest.
LEMMA Rest ==
    ASSUME NEW a \in Nat, NEW n \in Nat \ {0}
    PROVE  \E q \in Nat : \E r \in 0 .. n - 1 : a = n * q + r /\ a % n = r
    OBVIOUS

\* The rest is the only one.
LEMMA RestIsUnique ==
    ASSUME NEW n \in Nat \ {0}, NEW q \in Nat, NEW r \in 0 .. n - 1
    PROVE  (n * q + r) % n = r
    OBVIOUS

\* One more is the next place of the circle.
LEMMA NextPlace ==
    ASSUME NEW n \in Nat \ {0}, NEW c \in Nat
    PROVE  (c + 1) % n = Around((c % n) + 1, n)
    <1>1. PICK q \in Nat, r \in 0 .. n - 1 : c = n * q + r /\ c % n = r
        BY Rest
    <1>2. CASE r + 1 = n
        <2>1. c + 1 = n * (q + 1) + 0
            BY <1>1, <1>2
        <2>2. q + 1 \in Nat /\ 0 \in 0 .. n - 1
            OBVIOUS
        <2>3. (n * (q + 1) + 0) % n = 0
            BY <2>2, RestIsUnique
        <2>4. QED
            BY <1>1, <1>2, <2>1, <2>3 DEF Around
    <1>3. CASE r + 1 # n
        <2>1. c + 1 = n * q + (r + 1)
            BY <1>1
        <2>2. r + 1 \in 0 .. n - 1
            BY <1>3
        <2>3. (n * q + (r + 1)) % n = r + 1
            BY <2>2, RestIsUnique
        <2>4. QED
            BY <1>1, <1>3, <2>1, <2>2, <2>3 DEF Around
    <1>4. QED
        BY <1>2, <1>3

\* The counter wraps where every circle is back at its start.
LEMMA CounterSteps ==
    ASSUME NEW n \in Nat \ {0}, CounterPeriod % n = 0,
           NEW c \in 0 .. CounterPeriod - 1
    PROVE  /\ (c + 1) % CounterPeriod \in 0 .. CounterPeriod - 1
           /\ ((c + 1) % CounterPeriod) % n = Around((c % n) + 1, n)
    <1>0. CounterPeriod \in Nat \ {0} /\ c \in Nat
        BY RouterAssumption
    <1>1. c % CounterPeriod = c
        <2>1. PICK q \in Nat : q = 0
            OBVIOUS
        <2>2. (CounterPeriod * q + c) % CounterPeriod = c
            BY <1>0, RestIsUnique
        <2>3. CounterPeriod * q + c = c
            BY <1>0, <2>1
        <2>4. QED
            BY <2>2, <2>3
    <1>2. (c + 1) % CounterPeriod = Around(c + 1, CounterPeriod)
        BY <1>0, <1>1, NextPlace
    <1>3. (c + 1) % n = Around((c % n) + 1, n)
        BY <1>0, NextPlace
    <1>4. c % n \in 0 .. n - 1
        BY <1>0, Rest
    <1>5. CASE c + 1 < CounterPeriod
        BY <1>0, <1>2, <1>3, <1>5 DEF Around
    <1>6. CASE c + 1 >= CounterPeriod
        <2>1. c + 1 = CounterPeriod /\ (c + 1) % CounterPeriod = 0
            BY <1>0, <1>2, <1>6 DEF Around
        <2>2. Around((c % n) + 1, n) = 0
            BY <1>3, <2>1
        <2>3. 0 % n = 0
            <3>1. PICK q \in Nat, r \in 0 .. n - 1 : q = 0 /\ r = 0
                OBVIOUS
            <3>2. (n * q + r) % n = r /\ n * q + r = 0
                BY <3>1, RestIsUnique
            <3>3. QED
                BY <3>1, <3>2
        <2>4. QED
            BY <1>0, <2>1, <2>2, <2>3
    <1>7. QED
        BY <1>0, <1>5, <1>6

\* `turns` are the picks that a counter with rest `rest` made last from `list`.
Rotation(list, turns, rest) ==
    /\ Len(list) \in Nat \ {0} /\ DOMAIN list = 1 .. Len(list)
    /\ IsInjective(list)
    /\ CounterPeriod % Len(list) = 0
    /\ Len(turns) \in 1 .. Len(list) /\ DOMAIN turns = 1 .. Len(turns)
    /\ \E c \in 0 .. Len(list) - 1 :
          /\ rest = Around(c + Len(turns), Len(list))
          /\ \A i \in 1 .. Len(turns) :
                turns[i] = list[Around(c + i - 1, Len(list)) + 1]

\* A rotation is even: the circle is not longer than the list.
LEMMA RotationIsEven ==
    ASSUME NEW list, NEW turns, NEW rest, Rotation(list, turns, rest)
    PROVE  IsInjective(turns)
    <1>0. PICK n \in Nat \ {0} : n = Len(list)
        BY DEF Rotation
    <1>1. PICK k \in 1 .. n : n = Len(list) /\ k = Len(turns)
        BY <1>0 DEF Rotation
    <1>2. PICK c \in 0 .. n - 1 :
             \A i \in 1 .. k : turns[i] = list[Around(c + i - 1, n) + 1]
        BY <1>1 DEF Rotation
    <1>3. ASSUME NEW i \in 1 .. k, NEW j \in 1 .. k, turns[i] = turns[j]
          PROVE  i = j
        <2>0. /\ Around(c + i - 1, n) + 1 \in 1 .. n
              /\ Around(c + j - 1, n) + 1 \in 1 .. n
            BY DEF Around
        <2>1. PICK u \in 1 .. n, v \in 1 .. n :
                 u = Around(c + i - 1, n) + 1 /\ v = Around(c + j - 1, n) + 1
            BY <2>0
        <2>2. list[u] = list[v]
            <3>1. /\ turns[i] = list[Around(c + i - 1, n) + 1]
                  /\ turns[j] = list[Around(c + j - 1, n) + 1]
                BY <1>2
            <3>2. turns[i] = list[u] /\ turns[j] = list[v]
                BY <2>1, <3>1, Zenon
            <3>3. QED
                BY <1>3, <3>2
        <2>3. u = v
            BY <1>1, <2>2 DEF Rotation, IsInjective
        <2>4. QED
            BY <2>1, <2>3 DEF Around
    <1>4. DOMAIN turns = 1 .. k
        BY <1>1 DEF Rotation
    <1>5. QED
        BY <1>3, <1>4 DEF IsInjective

\* The first turn from a list starts a rotation.
LEMMA RotationStarts ==
    ASSUME NEW list, Len(list) \in Nat \ {0}, DOMAIN list = 1 .. Len(list),
           IsInjective(list), CounterPeriod % Len(list) = 0,
           NEW rest \in 0 .. Len(list) - 1
    PROVE  Rotation(list, <<list[rest + 1]>>, Around(rest + 1, Len(list)))
    <1>1. PICK turns : turns = <<list[rest + 1]>>
        OBVIOUS
    <1>2. Len(turns) = 1 /\ DOMAIN turns = 1 .. 1 /\ turns[1] = list[rest + 1]
        BY <1>1
    <1>3. rest = Around(rest + 1 - 1, Len(list))
        BY DEF Around
    <1>4. Rotation(list, turns, Around(rest + 1, Len(list)))
        BY <1>2, <1>3 DEF Rotation
    <1>5. QED
        BY <1>1, <1>4

\* The next turn from the same list goes on with it.
LEMMA RotationGoesOn ==
    ASSUME NEW list, NEW E, NEW turns \in Seq(E), NEW rest,
           Rotation(list, turns, rest), Len(turns) < Len(list),
           list[rest + 1] \in E
    PROVE  Rotation(list, Append(turns, list[rest + 1]),
                    Around(rest + 1, Len(list)))
    <1>0. PICK n \in Nat \ {0} : n = Len(list)
        BY DEF Rotation
    <1>1. PICK k \in 1 .. n - 1 : n = Len(list) /\ k = Len(turns)
        <2>1. Len(turns) \in 1 .. Len(list)
            BY DEF Rotation
        <2>2. Len(turns) \in 1 .. n - 1
            BY <1>0, <2>1
        <2>3. QED
            BY <1>0, <2>2
    <1>2. PICK c \in 0 .. n - 1 :
             /\ rest = Around(c + k, n)
             /\ \A i \in 1 .. k : turns[i] = list[Around(c + i - 1, n) + 1]
        BY <1>1 DEF Rotation
    <1>3. PICK new : new = Append(turns, list[rest + 1])
        OBVIOUS
    <1>4. /\ Len(new) = k + 1 /\ DOMAIN new = 1 .. k + 1
          /\ new[k + 1] = list[rest + 1]
          /\ \A i \in 1 .. k : new[i] = turns[i]
        BY <1>1, <1>3
    <1>5. k + 1 \in 1 .. n
        BY <1>1
    <1>6. Around(rest + 1, n) = Around(c + (k + 1), n)
        BY <1>1, <1>2 DEF Around
    <1>7. ASSUME NEW i \in 1 .. k + 1
          PROVE  new[i] = list[Around(c + i - 1, n) + 1]
        <2>1. CASE i = k + 1
            <3>1. c + i - 1 = c + k
                BY <1>1, <2>1
            <3>2. QED
                BY <1>2, <1>4, <2>1, <3>1
        <2>2. CASE i # k + 1
            <3>1. i \in 1 .. k
                BY <1>1, <2>2
            <3>2. QED
                BY <1>2, <1>4, <3>1
        <2>3. QED
            BY <2>1, <2>2
    <1>8. Rotation(list, new, Around(rest + 1, n))
        <2>1. /\ Len(list) \in Nat \ {0} /\ DOMAIN list = 1 .. Len(list)
              /\ IsInjective(list)
              /\ CounterPeriod % Len(list) = 0
            BY DEF Rotation
        <2>2. Len(new) \in 1 .. Len(list) /\ DOMAIN new = 1 .. Len(new)
            BY <1>1, <1>4, <1>5
        <2>3. /\ Around(rest + 1, n) = Around(c + Len(new), Len(list))
              /\ \A i \in 1 .. Len(new) :
                    new[i] = list[Around(c + i - 1, Len(list)) + 1]
            BY <1>1, <1>4, <1>6, <1>7
        <2>4. c \in 0 .. Len(list) - 1
            BY <1>1
        <2>5. QED
            BY <2>1, <2>2, <2>3, <2>4 DEF Rotation
    <1>9. QED
        BY <1>1, <1>3, <1>8

-----------------------------------------------------------------------------
(* Turns.                                                                  *)

Pick == [by : {"none", "rank", "turn"}, list : Seq(Endpoints), turns : Seq(Endpoints)]

\* While a pool gives turns, they are a rotation of its list that its counter
\* goes on with.
TurnInv ==
    /\ counter \in [Providers -> 0 .. CounterPeriod - 1]
    /\ picks \in [Providers -> Pick]
    /\ \A p \in Providers :
          picks[p].by = "turn" =>
              Rotation(picks[p].list, picks[p].turns,
                       counter[p] % Len(picks[p].list))

\* A pool's strategy picks from a list without repetitions that the counter's
\* period fits.
LEMMA OfferedFits ==
    ASSUME NEW p \in Providers, Available(p) # <<>>
    PROVE  /\ Available(p) \in Seq(Endpoints)
           /\ Len(Available(p)) \in Nat \ {0}
           /\ DOMAIN Available(p) = 1 .. Len(Available(p))
           /\ IsInjective(Available(p))
           /\ CounterPeriod % Len(Available(p)) = 0
    <1>1. PICK list \in Seq(Endpoints) : list = EndpointsOf[p] /\ IsInjective(list)
        BY RouterAssumption
    <1>2. PICK S : S = {e \in Enabled : IsHealthy(e)}
        OBVIOUS
    <1>3. PICK es : es = Available(p) /\ es = Kept(list, S)
        BY <1>1, <1>2 DEF Available
    <1>4. /\ es \in Seq(Endpoints) /\ IsInjective(es)
          /\ Len(es) <= Len(list)
          /\ \A j \in 1 .. Len(es) : es[j] \in S \cap ToSet(list)
        BY <1>1, <1>3, KeptInOrder, KeptIsDistinct
    <1>5. /\ Len(es) \in Nat \ {0} /\ DOMAIN es = 1 .. Len(es)
          /\ Len(list) \in Nat /\ DOMAIN list = 1 .. Len(list)
        BY <1>1, <1>3, <1>4
    <1>6. Len(es) <= Cardinality(Enabled \cap ToSet(list))
        <2> DEFINE T == Enabled \cap ToSet(list)
        <2>1. es \in Injection(1 .. Len(es), T)
            BY <1>2, <1>4, <1>5 DEF Injection, IsInjective
        <2>2. IsFiniteSet(1 .. Len(list)) /\ IsFiniteSet(1 .. Len(es))
              /\ Cardinality(1 .. Len(es)) = Len(es)
            BY <1>5, FS_Interval
        <2>3. list \in Surjection(1 .. Len(list), ToSet(list))
            BY <1>1, <1>5 DEF Surjection, ToSet
        <2>4. IsFiniteSet(ToSet(list))
            BY <2>2, <2>3, FS_Surjection
        <2>5. IsFiniteSet(T)
            BY <2>4, FS_Subset
        <2>6. QED
            BY <2>1, <2>2, <2>5, FS_Injection
    <1>7. Len(es) \in 1 .. Len(list)
        BY <1>4, <1>5
    <1>8. CounterPeriod % Len(es) = 0
        BY <1>1, <1>6, <1>7, RouterAssumption
    <1>9. QED
        BY <1>3, <1>4, <1>5, <1>8

\* A pick by turn moves the counter and the pool's history on together; a pick
\* by anything else leaves the counter alone and no turns behind.
LEMMA PickKeepsTurns ==
    ASSUME TurnInv, NEW p \in Providers, NEW e \in Endpoints,
           Available(p) # <<>>, Select(p, Available(p), e),
           picks' = [picks EXCEPT ![p] = Picked(p, Available(p), e)]
    PROVE  TurnInv'
    <1>1. PICK es : es = Available(p)
        OBVIOUS
    <1>2. /\ es \in Seq(Endpoints) /\ Len(es) \in Nat \ {0}
          /\ DOMAIN es = 1 .. Len(es) /\ IsInjective(es)
          /\ CounterPeriod % Len(es) = 0
        BY <1>1, OfferedFits
    <1>3. PICK pick : pick = Picked(p, es, e)
        OBVIOUS
    <1>4. picks' = [picks EXCEPT ![p] = pick]
        BY <1>1, <1>3
    <1>5. /\ counter \in [Providers -> 0 .. CounterPeriod - 1]
          /\ picks \in [Providers -> Pick]
          /\ picks[p] \in Pick
        BY DEF TurnInv
    <1>6. <<e>> \in Seq(Endpoints)
        OBVIOUS
    <1>7. SUFFICES /\ counter' \in [Providers -> 0 .. CounterPeriod - 1]
                   /\ \A q \in Providers : q # p => counter'[q] = counter[q]
                   /\ pick \in Pick
                   /\ pick.by = "turn" =>
                         Rotation(pick.list, pick.turns,
                                  counter'[p] % Len(pick.list))
        <2>1. picks' \in [Providers -> Pick]
            BY <1>4, <1>5, <1>7
        <2>2. ASSUME NEW q \in Providers, picks'[q].by = "turn"
              PROVE  Rotation(picks'[q].list, picks'[q].turns,
                              counter'[q] % Len(picks'[q].list))
            <3>1. CASE q = p
                <4>1. picks'[q] = pick
                    BY <1>4, <1>5, <3>1
                <4>2. QED
                    BY <1>7, <2>2, <3>1, <4>1
            <3>2. CASE q # p
                <4>1. picks'[q] = picks[q] /\ counter'[q] = counter[q]
                    BY <1>4, <1>5, <1>7, <3>2
                <4>2. QED
                    BY <2>2, <4>1 DEF TurnInv
            <3>3. QED
                BY <3>1, <3>2
        <2>3. QED
            BY <1>7, <2>1, <2>2 DEF TurnInv
    <1>8. CASE FavouritesIn(p, es) # {}
        <2>1. counter' = counter
            BY <1>1, <1>8 DEF Select
        <2>2. PICK rank : rank = [by |-> "rank", list |-> es, turns |-> <<e>>]
            OBVIOUS
        <2>3. rank \in Pick /\ rank.by = "rank" /\ NoPicks \in Pick /\ NoPicks.by = "none"
            BY <1>2, <1>6, <2>2 DEF Pick, NoPicks
        <2>4. pick = rank \/ pick = NoPicks
            BY <1>3, <1>8, <2>2 DEF Picked
        <2>5. pick \in Pick /\ pick.by # "turn"
            BY <2>3, <2>4
        <2>6. QED
            BY <1>5, <2>1, <2>5
    <1>9. CASE FavouritesIn(p, es) = {}
        <2> DEFINE n == Len(es)
        <2>1. PICK rest \in 0 .. n - 1 : rest = counter[p] % n
            <3>1. counter[p] \in Nat
                BY <1>5
            <3>2. QED
                BY <1>2, <3>1, Rest
        <2>2. e = es[rest + 1] /\ counter' = [counter EXCEPT ![p] = (@ + 1) % CounterPeriod]
            BY <1>1, <1>9, <2>1 DEF Select, SelectRoundRobin
        <2>3. /\ (counter[p] + 1) % CounterPeriod \in 0 .. CounterPeriod - 1
              /\ ((counter[p] + 1) % CounterPeriod) % n = Around(rest + 1, n)
            BY <1>2, <1>5, <2>1, CounterSteps
        <2>4. /\ counter' \in [Providers -> 0 .. CounterPeriod - 1]
              /\ \A q \in Providers : q # p => counter'[q] = counter[q]
              /\ counter'[p] % n = Around(rest + 1, n)
            BY <1>5, <2>2, <2>3
        <2>5. PICK turns :
                 turns = IF /\ picks[p].by = "turn" /\ picks[p].list = es
                            /\ Len(picks[p].turns) < Len(es)
                         THEN Append(picks[p].turns, e) ELSE <<e>>
            OBVIOUS
        <2>6. pick = [by |-> "turn", list |-> es, turns |-> turns]
            BY <1>3, <1>9, <2>5 DEF Picked
        <2>7. turns \in Seq(Endpoints) /\ Rotation(es, turns, Around(rest + 1, n))
            <3>1. CASE /\ picks[p].by = "turn" /\ picks[p].list = es
                       /\ Len(picks[p].turns) < Len(es)
                <4>1. PICK last \in Seq(Endpoints) : last = picks[p].turns
                    BY <1>5 DEF Pick
                <4>2. Rotation(es, last, rest)
                    BY <2>1, <3>1, <4>1 DEF TurnInv
                <4>3. turns = Append(last, es[rest + 1])
                    BY <2>2, <2>5, <3>1, <4>1
                <4>4. es[rest + 1] \in Endpoints /\ Len(last) < Len(es)
                    BY <2>2, <3>1, <4>1
                <4>5. Rotation(es, Append(last, es[rest + 1]), Around(rest + 1, n))
                    BY <4>2, <4>4, RotationGoesOn
                <4>6. QED
                    BY <4>3, <4>4, <4>5
            <3>2. CASE ~(/\ picks[p].by = "turn" /\ picks[p].list = es
                         /\ Len(picks[p].turns) < Len(es))
                <4>1. turns = <<es[rest + 1]>>
                    BY <2>2, <2>5, <3>2
                <4>2. Rotation(es, <<es[rest + 1]>>, Around(rest + 1, n))
                    BY <1>2, RotationStarts
                <4>3. QED
                    BY <1>6, <2>2, <4>1, <4>2
            <3>3. QED
                BY <3>1, <3>2
        <2>8. /\ pick.by = "turn" /\ pick.list = es /\ pick.turns = turns
              /\ pick \in Pick
            BY <1>2, <2>6, <2>7 DEF Pick
        <2>9. QED
            BY <2>4, <2>7, <2>8
    <1>10. QED
        BY <1>8, <1>9

\* A pool offers what is available in it, or nothing.
LEMMA OfferedIsAvailable ==
    ASSUME NEW primary, NEW m, NEW d, Offered(primary, m, d) # <<>>
    PROVE  Offered(primary, m, d) = Available(PoolAt(primary, d))
    BY DEF Offered

\* Whatever the callers of a pool, its primaries and fallbacks, are given in
\* between, and however circuits open and close, a pool that offers the same
\* list gives no endpoint a second turn before every other had its first
\* (select_round_robin's shared counter).
THEOREM TurnsAreEven == RouterSpec => []RoundRobinIsEven
<1>1. RouterInit => TurnInv
    <2> SUFFICES ASSUME RouterInit PROVE TurnInv
        OBVIOUS
    <2>1. NoPicks \in Pick /\ NoPicks.by # "turn"
        BY DEF NoPicks, Pick
    <2>2. 0 \in 0 .. CounterPeriod - 1
        BY RouterAssumption
    <2>3. QED
        BY <2>1, <2>2 DEF RouterInit, TurnInv
<1>2. TurnInv /\ [RouterNext]_routerVars => TurnInv'
    <2> SUFFICES ASSUME TurnInv, [RouterNext]_routerVars PROVE TurnInv'
        OBVIOUS
    <2>1. ASSUME NEW r \in Requests, Route(r) PROVE TurnInv'
        <3> DEFINE Chosen(es, p, e) ==
                      /\ es # <<>>
                      /\ Select(p, es, e)
                      /\ picks' = [picks EXCEPT ![p] = Picked(p, es, e)]
        <3>1. PICK m \in Models : \E primary \in PrimariesOf(m) :
                 \E d \in 0 .. Len(ChainOf[primary]), e \in Endpoints :
                    Chosen(Offered(primary, m, d), PoolAt(primary, d), e)
            BY <2>1 DEF Route
        <3> HIDE DEF Chosen
        <3>2. PICK p : \E e \in Endpoints :
                 /\ Available(p) # <<>>
                 /\ Select(p, Available(p), e)
                 /\ picks' = [picks EXCEPT ![p] = Picked(p, Available(p), e)]
            <4>1. PICK primary \in PrimariesOf(m) :
                     \E d \in 0 .. Len(ChainOf[primary]), e \in Endpoints :
                        Chosen(Offered(primary, m, d), PoolAt(primary, d), e)
                BY <3>1
            <4>2. PICK d \in 0 .. Len(ChainOf[primary]), e \in Endpoints :
                     Chosen(Offered(primary, m, d), PoolAt(primary, d), e)
                BY <4>1
            <4>3. Offered(primary, m, d) = Available(PoolAt(primary, d))
                <5>1. Offered(primary, m, d) # <<>>
                    BY <4>2 DEF Chosen
                <5>2. QED
                    BY <5>1, OfferedIsAvailable
            <4>4. QED
                BY <4>2, <4>3 DEF Chosen
        <3>3. CASE p \in Providers
            BY <3>2, <3>3, PickKeepsTurns
        <3>4. CASE p \notin Providers
            <4>1. counter' = counter /\ picks' = picks
                BY <3>2, <3>4 DEF TurnInv, Select, SelectRoundRobin
            <4>2. QED
                BY <4>1 DEF TurnInv
        <3>5. QED
            BY <3>3, <3>4
    <2>2. CASE UNCHANGED <<counter, picks>>
        BY <2>2 DEF TurnInv
    <2>3. QED
        BY <2>1, <2>2 DEF RouterNext, routerVars, ReportSuccess, ReportFailure,
                          NothingReported, Mark, TimePasses
<1>3. TurnInv => RoundRobinIsEven
    BY RotationIsEven DEF TurnInv, RoundRobinIsEven
<1>4. QED
    BY <1>1, <1>2, <1>3, PTL DEF RouterSpec

-----------------------------------------------------------------------------
(* Favourites.                                                             *)

\* Some of a list's endpoints, in its order.
PartOf(es, list) ==
    /\ es \in Seq(Endpoints)
    /\ es # <<>>
    /\ \A i, j \in 1 .. Len(es) : i < j => Before(list, es[i], es[j])

\* The members of a list that no other outranks: the first of the best.
Leads(x, es, score, list) ==
    /\ x \in ToSet(es)
    /\ \A y \in ToSet(es) \ {x} :
          score[y] < score[x] \/ (score[y] = score[x] /\ Before(list, x, y))

\* Who led a list leads what is left of it.
LEMMA LeaderStays ==
    ASSUME NEW list \in Seq(Endpoints), IsInjective(list),
           NEW score \in [Endpoints -> Int],
           NEW more \in Seq(Endpoints), NEW less,
           NEW x, Leads(x, more, score, list),
           NEW y, Leads(y, less, score, list),
           ToSet(less) \subseteq ToSet(more), x \in ToSet(less)
    PROVE  x = y
    <1>1. SUFFICES ASSUME x # y PROVE FALSE
        OBVIOUS
    <1>2. x \in Endpoints /\ y \in Endpoints
        <2>1. ToSet(more) \subseteq Endpoints
            BY DEF ToSet
        <2>2. QED
            BY <2>1 DEF Leads
    <1>3. score[y] < score[x] \/ (score[y] = score[x] /\ Before(list, x, y))
        BY <1>1 DEF Leads
    <1>4. score[x] < score[y] \/ (score[x] = score[y] /\ Before(list, y, x))
        BY <1>1 DEF Leads
    <1>5. score[x] \in Int /\ score[y] \in Int
        BY <1>2
    <1>6. ~(score[y] < score[x] /\ score[x] < score[y]) /\ ~(score[x] < score[x])
        BY <1>5
    <1>7. QED
        BY <1>3, <1>4, <1>5, <1>6, BeforeIsStrict

\* Numbers in a row have a greatest.
LEMMA GreatestOfRow ==
    ASSUME NEW n \in Nat \ {0}, NEW f, \A i \in 1 .. n : f[i] \in Int
    PROVE  \E i \in 1 .. n : \A j \in 1 .. n : f[i] >= f[j]
    <1> DEFINE Upto(k) == \E i \in 1 .. k : \A j \in 1 .. k : f[i] >= f[j]
               H == {k \in Nat : k < n => Upto(k + 1)}
    <1>1. 0 \in H
        <2>1. 1 \in 1 .. 0 + 1 /\ f[1] \in Int /\ \A j \in 1 .. 0 + 1 : j = 1
            OBVIOUS
        <2>2. f[1] >= f[1]
            BY <2>1
        <2>3. QED
            BY <2>1, <2>2
    <1>2. ASSUME NEW k \in Nat, k \in H PROVE k + 1 \in H
        <2>1. SUFFICES ASSUME k + 1 < n PROVE Upto((k + 1) + 1)
            <3> HIDE DEF Upto
            <3> QED OBVIOUS
        <2>2. PICK i \in 1 .. k + 1 : \A j \in 1 .. k + 1 : f[i] >= f[j]
            BY <1>2, <2>1
        <2>3. PICK m : m = (k + 1) + 1
            OBVIOUS
        <2>4. /\ m \in 1 .. n /\ i \in 1 .. n /\ i \in 1 .. m /\ m \in 1 .. m
              /\ \A j \in 1 .. m : j = m \/ j \in 1 .. k + 1
              /\ 1 .. m \subseteq 1 .. n
            BY <2>1, <2>3
        <2>5. /\ f[i] \in Int /\ f[m] \in Int
              /\ \A j \in 1 .. m : f[j] \in Int
            BY <2>4
        <2>6. CASE f[i] >= f[m]
            <3>1. \A j \in 1 .. m : f[i] >= f[j]
                BY <2>2, <2>4, <2>6
            <3>2. QED
                BY <2>3, <2>4, <3>1
        <2>7. CASE ~(f[i] >= f[m])
            <3>1. f[m] >= f[i] /\ f[m] >= f[m]
                BY <2>5, <2>7
            <3>2. ASSUME NEW j \in 1 .. m PROVE f[m] >= f[j]
                <4>1. CASE j = m
                    BY <3>1, <4>1
                <4>2. CASE j \in 1 .. k + 1
                    <5>1. f[i] >= f[j] /\ f[j] \in Int
                        BY <2>2, <2>5, <4>2
                    <5>2. QED
                        BY <2>5, <3>1, <5>1
                <4>3. QED
                    BY <2>4, <4>1, <4>2
            <3>3. QED
                BY <2>3, <2>4, <3>2
        <2>8. QED
            BY <2>6, <2>7
    <1>3. Nat \subseteq H
        <2> HIDE DEF H
        <2> QED BY <1>1, <1>2, EveryNumber
    <1>4. n - 1 \in H /\ n - 1 < n /\ (n - 1) + 1 = n
        <2> HIDE DEF H
        <2> QED BY <1>3
    <1>5. Upto(n)
        BY <1>4
    <1>6. QED
        BY <1>5

\* Natural numbers have a least.
LEMMA LeastNumber ==
    ASSUME NEW S \in SUBSET Nat, S # {}
    PROVE  Smallest(S) \in S /\ \A x \in S : Smallest(S) <= x
    <1> DEFINE R == OpToRel(<, Nat)
    <1>1. IsWellFoundedOn(R, Nat)
        BY NatLessThanWellFounded
    <1>2. PICK x \in S : \A y \in S : <<y, x>> \notin R
        <2> HIDE DEF R
        <2> QED BY <1>1, WFMin
    <1>3. ASSUME NEW y \in S PROVE x <= y
        <2>1. SUFFICES ASSUME y < x PROVE FALSE
            OBVIOUS
        <2>2. <<y, x>> \in R
            BY <2>1 DEF OpToRel
        <2>3. QED
            BY <1>2, <2>2
    <1>4. QED
        BY <1>3 DEF Smallest

\* A finite set of integers has a greatest.
LEMMA GreatestNumber ==
    ASSUME NEW S \in SUBSET Int, IsFiniteSet(S), S # {}
    PROVE  Largest(S) \in S
    <1> DEFINE n == Cardinality(S)
    <1>1. n \in Nat \ {0} /\ ExistsBijection(1 .. n, S)
        BY FS_CardinalityType, FS_EmptySet
    <1>2. PICK f \in Bijection(1 .. n, S) : TRUE
        BY <1>1 DEF ExistsBijection
    <1>3. /\ \A i \in 1 .. n : f[i] \in S
          /\ \A x \in S : \E i \in 1 .. n : f[i] = x
        BY <1>2 DEF Bijection, Injection, Surjection
    <1>4. PICK i \in 1 .. n : \A j \in 1 .. n : f[i] >= f[j]
        <2>1. \A i \in 1 .. n : f[i] \in Int
            BY <1>3
        <2> HIDE DEF n
        <2>2. QED
            BY <1>1, <2>1, GreatestOfRow
    <1>5. \A x \in S : f[i] >= x
        BY <1>3, <1>4
    <1>6. QED
        BY <1>3, <1>5 DEF Largest

\* The places of a list that no other has a better score than.
Best(es, score) ==
    {i \in DOMAIN es : \A j \in DOMAIN es : score[es[i]] >= score[es[j]]}

\* The first of them leads.
LEMMA FirstOfBestLeads ==
    ASSUME NEW list \in Seq(Endpoints), NEW es, PartOf(es, list),
           NEW score \in [Endpoints -> Int]
    PROVE  Leads(es[Smallest(Best(es, score))], es, score, list)
    <1>1. /\ es \in Seq(Endpoints) /\ DOMAIN es = 1 .. Len(es)
          /\ Len(es) \in Nat \ {0}
          /\ \A i \in 1 .. Len(es) : es[i] \in Endpoints /\ score[es[i]] \in Int
        BY DEF PartOf
    <1>2. PICK best : best = Best(es, score)
        OBVIOUS
    <1>3. best \in SUBSET Nat /\ best # {}
        <2>1. PICK f : f = [i \in 1 .. Len(es) |-> score[es[i]]]
            OBVIOUS
        <2>2. \A i \in 1 .. Len(es) : f[i] = score[es[i]] /\ f[i] \in Int
            BY <1>1, <2>1
        <2>3. PICK i \in 1 .. Len(es) : \A j \in 1 .. Len(es) : f[i] >= f[j]
            BY <1>1, <2>2, GreatestOfRow
        <2>4. i \in best
            BY <1>1, <1>2, <2>2, <2>3 DEF Best
        <2>5. QED
            BY <1>1, <1>2, <2>4 DEF Best
    <1>4. PICK i : i = Smallest(best)
        OBVIOUS
    <1>5. i \in best /\ \A j \in best : i <= j
        BY <1>3, <1>4, LeastNumber
    <1>6. /\ i \in 1 .. Len(es)
          /\ \A j \in 1 .. Len(es) : score[es[i]] >= score[es[j]]
        BY <1>1, <1>2, <1>5 DEF Best
    <1>7. ASSUME NEW j \in 1 .. Len(es), es[j] # es[i]
          PROVE  \/ score[es[j]] < score[es[i]]
                 \/ score[es[j]] = score[es[i]] /\ Before(list, es[i], es[j])
        <2>1. CASE score[es[j]] # score[es[i]]
            BY <1>1, <1>6, <2>1
        <2>2. CASE score[es[j]] = score[es[i]]
            <3>1. j \in best
                BY <1>1, <1>2, <1>6, <2>2 DEF Best
            <3>2. i < j
                BY <1>5, <1>6, <1>7, <3>1
            <3>3. Before(list, es[i], es[j])
                BY <1>6, <3>2 DEF PartOf
            <3>4. QED
                BY <2>2, <3>3
        <2>3. QED
            BY <2>1, <2>2
    <1>8. es[i] \in ToSet(es)
        BY <1>1, <1>6 DEF ToSet
    <1>9. ASSUME NEW y \in ToSet(es) \ {es[i]}
          PROVE  \/ score[y] < score[es[i]]
                 \/ score[y] = score[es[i]] /\ Before(list, es[i], y)
        <2>1. PICK j \in 1 .. Len(es) : y = es[j]
            BY <1>1 DEF ToSet
        <2>2. QED
            BY <1>7, <2>1
    <1>10. QED
        BY <1>2, <1>4, <1>8, <1>9 DEF Leads

\* What endpoints are compared by is a number.
LEMMA ScoresAreNumbers ==
    ASSUME NEW e \in Endpoints, NEW needs
    PROVE  /\ TraitScore(needs, e) \in Int
           /\ CostOf(needs, e) \in Int
           /\ WindowOf(e) \in Int
           /\ ReasoningScore(e) \in Int
    <1>1. PICK P : P = ProfilesOf[e]
        OBVIOUS
    <1>2. /\ IsFiniteSet(P)
          /\ \A q \in P : IsFiniteSet(q.traits) /\ q.cost \in Nat /\ q.window \in Int
        BY <1>1, RouterAssumption
    <1>3. ASSUME NEW f \in [P -> Int]
          PROVE  Largest({0} \cup {f[p] : p \in P}) \in Int
        <2>1. PICK T : T = {f[p] : p \in P}
            OBVIOUS
        <2>2. f \in Surjection(P, T)
            BY <2>1 DEF Surjection
        <2>3. IsFiniteSet(T)
            BY <1>2, <2>2, FS_Surjection
        <2>4. IsFiniteSet({0} \cup T)
            <3>1. IsFiniteSet(T \cup {0}) /\ T \cup {0} = {0} \cup T
                BY <2>3, FS_AddElement
            <3>2. QED
                BY <3>1
        <2>5. {0} \cup T \in SUBSET Int /\ {0} \cup T # {}
            BY <2>1
        <2>6. Largest({0} \cup T) \in {0} \cup T
            BY <2>4, <2>5, GreatestNumber
        <2>7. QED
            BY <2>1, <2>5, <2>6
    <1>4. TraitScore(needs, e) \in Int
        <2>1. PICK f : f = [p \in P |-> Cardinality(p.traits \cap needs)]
            OBVIOUS
        <2>2. ASSUME NEW p \in P PROVE Cardinality(p.traits \cap needs) \in Int
            <3>1. IsFiniteSet(p.traits \cap needs)
                BY <1>2, FS_Subset
            <3>2. QED
                BY <3>1, FS_CardinalityType
        <2>3. f \in [P -> Int]
            BY <2>1, <2>2
        <2>4. {f[p] : p \in P} = {Cardinality(p.traits \cap needs) : p \in P}
            BY <2>1
        <2>5. QED
            BY <1>1, <1>3, <2>3, <2>4 DEF TraitScore
    <1>5. CostOf(needs, e) \in Int
        <2> DEFINE C == {Unaffordable} \cup
                 {p.cost : p \in {q \in ProfilesOf[e] :
                            2 * Cardinality(q.traits \cap needs) >= Cardinality(needs)}}
        <2>1. C \in SUBSET Nat /\ C # {}
            <3>1. Unaffordable \in Nat
                BY SMT DEF Unaffordable
            <3>2. QED
                BY <1>1, <1>2, <3>1
        <2>2. CostOf(needs, e) = Smallest(C)
            BY DEF CostOf
        <2> HIDE DEF C
        <2>3. Smallest(C) \in C
            BY <2>1, LeastNumber
        <2>4. CostOf(needs, e) \in Nat
            BY <2>1, <2>2, <2>3, Zenon
        <2>5. QED
            BY <2>4
    <1>6. WindowOf(e) \in Int
        <2>1. PICK f : f = [p \in P |-> p.window]
            OBVIOUS
        <2>2. f \in [P -> Int]
            BY <1>2, <2>1
        <2>3. {f[p] : p \in P} = {p.window : p \in P}
            BY <2>1
        <2>4. QED
            BY <1>1, <1>3, <2>2, <2>3 DEF WindowOf
    <1>7. ReasoningScore(e) \in Int
        <2>1. PICK f : f = [p \in P |-> Reasons(p)]
            OBVIOUS
        <2>2. \A p \in P : Reasons(p) \in Int
            BY DEF Reasons
        <2>3. f \in [P -> Int]
            BY <2>1, <2>2
        <2>4. {f[p] : p \in P} = {Reasons(p) : p \in P}
            BY <2>1
        <2>5. QED
            BY <1>1, <1>3, <2>3, <2>4 DEF ReasoningScore
    <1>8. QED
        BY <1>4, <1>5, <1>6, <1>7

\* The table of latencies holds numbers.
LEMMA LatencyIsNumber ==
    ASSUME NEW a, NEW b
    PROVE  LatencyTo(a, b) \in Int
    <1>1. \A i \in DOMAIN Penalty : Penalty[i][2] \in Int
        BY DEF Penalty
    <1>2. PICK said : said = {i \in DOMAIN Penalty : Penalty[i][1] = {a, b}}
        OBVIOUS
    <1>3. said # {} => Penalty[CHOOSE i \in said : TRUE][2] \in Int
        BY <1>1, <1>2
    <1>4. QED
        BY <1>2, <1>3 DEF LatencyTo

\* A strategy that ranks endpoints by one score, which the selector fixes,
\* prefers the leader.
Scored == Ranking \ {"context_adaptive"}

LEMMA FavouriteLeads ==
    ASSUME NEW sel, sel.strategy \in Scored
    PROVE  \E score \in [Endpoints -> Int] :
             \A list \in Seq(Endpoints) : \A es, failed :
                PartOf(es, list) =>
                   \A x \in Favourites(sel, es, failed) : Leads(x, es, score, list)
    <1> DEFINE Top(es, score) == {es[Smallest(Best(es, score))]}
    <1>1. SUFFICES \E score \in [Endpoints -> Int] : \A es \in Seq(Endpoints) :
                      \A failed : Favourites(sel, es, failed) \subseteq Top(es, score)
        <2>1. PICK score \in [Endpoints -> Int] : \A es \in Seq(Endpoints) :
                 \A failed : Favourites(sel, es, failed) \subseteq Top(es, score)
            BY <1>1
        <2>2. ASSUME NEW list \in Seq(Endpoints), NEW es, NEW failed, PartOf(es, list),
                     NEW x \in Favourites(sel, es, failed)
              PROVE  Leads(x, es, score, list)
            <3>1. x \in Top(es, score)
                BY <2>1, <2>2 DEF PartOf
            <3>2. QED
                BY <2>2, <3>1, FirstOfBestLeads
        <2> HIDE DEF Top
        <2>3. QED
            BY <2>2
    <1>2. CASE sel.strategy = "priority"
        <2>1. PICK score : score = [e \in Endpoints |-> -Priority[e]]
            OBVIOUS
        <2>2. /\ score \in [Endpoints -> Int]
              /\ \A e \in Endpoints : score[e] = -Priority[e]
            BY <2>1, RouterAssumption
        <2>3. ASSUME NEW es \in Seq(Endpoints), NEW failed
              PROVE  Favourites(sel, es, failed) \subseteq Top(es, score)
            <3>1. Favourites(sel, es, failed) \subseteq PriorityBased(es)
                BY <1>2 DEF Favourites, Agentic
            <3>2. {i \in DOMAIN es : \A j \in DOMAIN es :
                      -Priority[es[i]] >= -Priority[es[j]]}
                         = Best(es, score)
                BY <2>2 DEF Best
            <3>3. PriorityBased(es) \subseteq Top(es, score)
                BY <3>2 DEF PriorityBased, FirstBest
            <3>4. QED
                BY <3>1, <3>3
        <2> HIDE DEF Top
        <2>4. QED
            BY <2>2, <2>3
    <1>3. CASE sel.strategy = "trait_based"
        <2>1. PICK score : score = [e \in Endpoints |-> TraitScore(sel.needs, e)]
            OBVIOUS
        <2>2. /\ score \in [Endpoints -> Int]
              /\ \A e \in Endpoints : score[e] = TraitScore(sel.needs, e)
            BY <2>1, ScoresAreNumbers
        <2>3. ASSUME NEW es \in Seq(Endpoints), NEW failed
              PROVE  Favourites(sel, es, failed) \subseteq Top(es, score)
            <3>1. Favourites(sel, es, failed) \subseteq TraitBased(sel.needs, es)
                BY <1>3 DEF Favourites, Agentic
            <3>2. {i \in DOMAIN es : \A j \in DOMAIN es :
                      TraitScore(sel.needs, es[i]) >= TraitScore(sel.needs, es[j])}
                         = Best(es, score)
                BY <2>2 DEF Best
            <3>3. TraitBased(sel.needs, es) \subseteq Top(es, score)
                BY <3>2 DEF TraitBased, BestIfAny, FirstBest
            <3>4. QED
                BY <3>1, <3>3
        <2> HIDE DEF Top
        <2>4. QED
            BY <2>2, <2>3
    <1>4. CASE sel.strategy = "cost_optimized"
        <2>1. PICK score : score = [e \in Endpoints |-> -CostOf(sel.needs, e)]
            OBVIOUS
        <2>2. /\ score \in [Endpoints -> Int]
              /\ \A e \in Endpoints : score[e] = -CostOf(sel.needs, e)
            BY <2>1, ScoresAreNumbers
        <2>3. ASSUME NEW es \in Seq(Endpoints), NEW failed
              PROVE  Favourites(sel, es, failed) \subseteq Top(es, score)
            <3>1. Favourites(sel, es, failed) \subseteq CostOptimized(sel.needs, es)
                BY <1>4 DEF Favourites, Agentic
            <3>2. {i \in DOMAIN es : \A j \in DOMAIN es :
                      -CostOf(sel.needs, es[i]) >= -CostOf(sel.needs, es[j])}
                         = Best(es, score)
                BY <2>2 DEF Best
            <3>3. CostOptimized(sel.needs, es) \subseteq Top(es, score)
                BY <3>2 DEF CostOptimized, FirstBest
            <3>4. QED
                BY <3>1, <3>3
        <2> HIDE DEF Top
        <2>4. QED
            BY <2>2, <2>3
    <1>5. CASE sel.strategy = "tool_aware"
        <2>1. PICK score : score = [e \in Endpoints |-> TraitScore(TraitsFor(sel.context), e)]
            OBVIOUS
        <2>2. /\ score \in [Endpoints -> Int]
              /\ \A e \in Endpoints : score[e] = TraitScore(TraitsFor(sel.context), e)
            BY <2>1, ScoresAreNumbers
        <2>3. ASSUME NEW es \in Seq(Endpoints), NEW failed
              PROVE  Favourites(sel, es, failed) \subseteq Top(es, score)
            <3>1. Favourites(sel, es, failed) \subseteq ToolAware(sel.context, es)
                BY <1>5 DEF Favourites, Agentic
            <3>2. {i \in DOMAIN es : \A j \in DOMAIN es :
                      TraitScore(TraitsFor(sel.context), es[i]) >= TraitScore(TraitsFor(sel.context), es[j])}
                         = Best(es, score)
                BY <2>2 DEF Best
            <3>3. ToolAware(sel.context, es) \subseteq Top(es, score)
                BY <3>2 DEF ToolAware, TraitBased, BestIfAny, FirstBest
            <3>4. QED
                BY <3>1, <3>3
        <2> HIDE DEF Top
        <2>4. QED
            BY <2>2, <2>3
    <1>6. CASE sel.strategy = "reasoning_depth"
        <2>1. PICK score : score = [e \in Endpoints |-> ReasoningScore(e)]
            OBVIOUS
        <2>2. /\ score \in [Endpoints -> Int]
              /\ \A e \in Endpoints : score[e] = ReasoningScore(e)
            BY <2>1, ScoresAreNumbers
        <2>3. ASSUME NEW es \in Seq(Endpoints), NEW failed
              PROVE  Favourites(sel, es, failed) \subseteq Top(es, score)
            <3>1. Favourites(sel, es, failed) \subseteq ReasoningDepth(sel.context, es)
                BY <1>6 DEF Favourites, Agentic
            <3>2. {i \in DOMAIN es : \A j \in DOMAIN es :
                      ReasoningScore(es[i]) >= ReasoningScore(es[j])}
                         = Best(es, score)
                BY <2>2 DEF Best
            <3>3. ReasoningDepth(sel.context, es) \subseteq Top(es, score)
                BY <3>2 DEF ReasoningDepth, BestIfAny, FirstBest
            <3>4. QED
                BY <3>1, <3>3
        <2> HIDE DEF Top
        <2>4. QED
            BY <2>2, <2>3
    <1>7. CASE sel.strategy = "region_based"
        <2> DEFINE nearness(e) == IF RegionOf[e] = "none" THEN -100
                                  ELSE -LatencyTo(sel.region, RegionOf[e])
        <2>1. PICK score : score = [e \in Endpoints |-> nearness(e)]
            OBVIOUS
        <2>2. score \in [Endpoints -> Int] /\ \A e \in Endpoints : score[e] = nearness(e)
            <3>1. \A e \in Endpoints : nearness(e) \in Int
                BY LatencyIsNumber
            <3> HIDE DEF nearness
            <3>2. QED
                BY <2>1, <3>1
        <2>3. ASSUME NEW es \in Seq(Endpoints), NEW failed
              PROVE  Favourites(sel, es, failed) \subseteq Top(es, score)
            <3>1. Favourites(sel, es, failed) \subseteq RegionBased(sel.region, es)
                BY <1>7 DEF Favourites, Agentic
            <3>2. {i \in DOMAIN es : \A j \in DOMAIN es :
                      nearness(es[i]) >= nearness(es[j])} = Best(es, score)
                <4> HIDE DEF nearness
                <4> QED BY <2>2 DEF Best
            <3>3. RegionBased(sel.region, es) \subseteq Top(es, score)
                BY <3>2 DEF RegionBased, FirstBest
            <3>4. QED
                BY <3>1, <3>3
        <2> HIDE DEF Top, nearness
        <2>4. QED
            BY <2>2, <2>3
    <1>8. QED
        BY <1>2, <1>3, <1>4, <1>5, <1>6, <1>7 DEF Scored, Ranking

\* What is kept of a part is a part.
LEMMA KeptIsPart ==
    ASSUME NEW list \in Seq(Endpoints), NEW es, PartOf(es, list), NEW S
    PROVE  /\ ToSet(Kept(es, S)) = S \cap ToSet(es)
           /\ Kept(es, S) # <<>> => PartOf(Kept(es, S), list)
    <1>1. PICK some : some = Kept(es, S)
        OBVIOUS
    <1>2. /\ es \in Seq(Endpoints) /\ some \in Seq(Endpoints)
          /\ \A j \in 1 .. Len(some) : some[j] \in S \cap ToSet(es)
          /\ \A i, j \in 1 .. Len(some) : i < j => Before(es, some[i], some[j])
          /\ \A x \in S \cap ToSet(es) : \E j \in 1 .. Len(some) : some[j] = x
        BY <1>1, KeptInOrder DEF PartOf
    <1>3. DOMAIN some = 1 .. Len(some)
        BY <1>2
    <1>4. ToSet(some) = S \cap ToSet(es)
        <2>1. ToSet(some) = {some[j] : j \in 1 .. Len(some)}
            BY <1>3 DEF ToSet
        <2>2. ToSet(some) \subseteq S \cap ToSet(es)
            BY <1>2, <2>1
        <2>3. ASSUME NEW x \in S \cap ToSet(es) PROVE x \in ToSet(some)
            <3>1. PICK j \in 1 .. Len(some) : some[j] = x
                BY <1>2
            <3>2. QED
                BY <2>1, <3>1
        <2>4. QED
            BY <2>2, <2>3
    <1>5. ASSUME NEW x, NEW y, Before(es, x, y) PROVE Before(list, x, y)
        <2>1. PICK i, j \in 1 .. Len(es) : i < j /\ es[i] = x /\ es[j] = y
            BY <1>5 DEF Before
        <2>2. Before(list, es[i], es[j])
            BY <2>1 DEF PartOf
        <2>3. QED
            BY <2>1, <2>2
    <1>6. some # <<>> => PartOf(some, list)
        BY <1>2, <1>5 DEF PartOf
    <1>7. QED
        BY <1>1, <1>4, <1>6

\* An empty list has no members, a list with none is empty.
LEMMA NoMembers ==
    ASSUME NEW es \in Seq(Endpoints)
    PROVE  es = <<>> <=> ToSet(es) = {}
    <1>1. es # <<>> => es[1] \in ToSet(es)
        BY DEF ToSet
    <1>2. ToSet(<<>>) = {}
        BY DEF ToSet
    <1>3. QED
        BY <1>1, <1>2

\* select_context_adaptive compares prices while something has room for the
\* request, and windows only when nothing has; a favourite with room left
\* behind keeps the first rule in force.
LEMMA RoomiestStays ==
    ASSUME NEW context, NEW list \in Seq(Endpoints), IsInjective(list),
           NEW more, PartOf(more, list), NEW less, PartOf(less, list),
           ToSet(less) \subseteq ToSet(more),
           NEW x \in ContextAdaptive(context, more), x \in ToSet(less),
           NEW y \in ContextAdaptive(context, less)
    PROVE  x = y
    <1> DEFINE tokens == IF context.tokens = NotKnown THEN 0 ELSE context.tokens
               Roomy(es) == Kept(es, {e \in ToSet(es) : Fits(tokens, e)})
               Top(es, score) == {es[Smallest(Best(es, score))]}
    <1>1. PICK windows, prices : /\ windows = [e \in Endpoints |-> WindowOf(e)]
                                 /\ prices = [e \in Endpoints |-> -CostOf({}, e)]
        OBVIOUS
    <1>2. /\ windows \in [Endpoints -> Int] /\ prices \in [Endpoints -> Int]
          /\ \A e \in Endpoints : windows[e] = WindowOf(e) /\ prices[e] = -CostOf({}, e)
        BY <1>1, ScoresAreNumbers
    <1>3. ASSUME NEW es \in Seq(Endpoints)
          PROVE  /\ FirstBest(es, WindowOf) = Top(es, windows)
                 /\ FirstBest(es, LAMBDA e : -CostOf({}, e)) = Top(es, prices)
        <2>1. \A i \in DOMAIN es : es[i] \in Endpoints
            OBVIOUS
        <2>2. /\ {i \in DOMAIN es : \A j \in DOMAIN es :
                    WindowOf(es[i]) >= WindowOf(es[j])} = Best(es, windows)
              /\ {i \in DOMAIN es : \A j \in DOMAIN es :
                    -CostOf({}, es[i]) >= -CostOf({}, es[j])} = Best(es, prices)
            BY <1>2, <2>1 DEF Best
        <2>3. QED
            BY <2>2 DEF FirstBest
    <1>4. ASSUME NEW es, PartOf(es, list)
          PROVE  ContextAdaptive(context, es) =
                    IF Roomy(es) = <<>> THEN Top(es, windows) ELSE Top(Roomy(es), prices)
        <2>1. es \in Seq(Endpoints) /\ Roomy(es) \in Seq(Endpoints)
            BY <1>4, KeptInOrder DEF PartOf
        <2>2. ContextAdaptive(context, es) =
                 IF Roomy(es) = <<>> THEN FirstBest(es, WindowOf)
                 ELSE FirstBest(Roomy(es), LAMBDA e : -CostOf({}, e))
            BY DEF ContextAdaptive
        <2> HIDE DEF Roomy, Top
        <2>3. FirstBest(es, WindowOf) = Top(es, windows)
            BY <1>3, <2>1
        <2>4. FirstBest(Roomy(es), LAMBDA e : -CostOf({}, e)) = Top(Roomy(es), prices)
            BY <1>3, <2>1
        <2>5. QED
            BY <2>2, <2>3, <2>4
    <1>5. ASSUME NEW es, PartOf(es, list)
          PROVE  /\ ToSet(Roomy(es)) = {e \in ToSet(es) : Fits(tokens, e)}
                 /\ Roomy(es) \in Seq(Endpoints)
                 /\ Roomy(es) # <<>> => PartOf(Roomy(es), list)
        <2>1. PICK S : S = {e \in ToSet(es) : Fits(tokens, e)}
            OBVIOUS
        <2>2. S \cap ToSet(es) = S
            BY <2>1
        <2>3. es \in Seq(Endpoints)
            BY <1>5 DEF PartOf
        <2>4. Kept(es, S) \in Seq(Endpoints)
            BY <2>3, KeptInOrder
        <2>5. /\ ToSet(Kept(es, S)) = S \cap ToSet(es)
              /\ Kept(es, S) # <<>> => PartOf(Kept(es, S), list)
            BY <1>5, KeptIsPart
        <2>6. QED
            BY <2>1, <2>2, <2>4, <2>5
    <1>6. ASSUME NEW es, PartOf(es, list), NEW score \in [Endpoints -> Int],
                 NEW z \in Top(es, score)
          PROVE  Leads(z, es, score, list)
        BY <1>6, FirstOfBestLeads
    <1>7. more \in Seq(Endpoints) /\ less \in Seq(Endpoints)
        BY DEF PartOf
    <1> HIDE DEF Top, Roomy, tokens
    <1>8. CASE Roomy(more) = <<>>
        <2>1. Roomy(less) = <<>>
            <3>1. ToSet(Roomy(more)) = {}
                BY <1>5, <1>8, NoMembers
            <3>2. ToSet(Roomy(less)) = {}
                BY <1>5, <3>1
            <3>3. QED
                BY <1>5, <3>2, NoMembers
        <2>2. x \in Top(more, windows) /\ y \in Top(less, windows)
            BY <1>4, <1>8, <2>1
        <2>3. Leads(x, more, windows, list) /\ Leads(y, less, windows, list)
            BY <1>2, <1>6, <2>2
        <2>4. QED
            BY <1>2, <1>7, <2>3, LeaderStays
    <1>9. CASE Roomy(more) # <<>>
        <2>1. x \in Top(Roomy(more), prices)
            BY <1>4, <1>9
        <2>2. Leads(x, Roomy(more), prices, list)
            BY <1>2, <1>5, <1>6, <1>9, <2>1
        <2>3. x \in ToSet(Roomy(more))
            BY <2>2 DEF Leads
        <2>4. x \in ToSet(Roomy(less)) /\ ToSet(Roomy(less)) \subseteq ToSet(Roomy(more))
            BY <1>5, <2>3
        <2>5. Roomy(less) # <<>>
            BY <1>5, <2>4, NoMembers
        <2>6. y \in Top(Roomy(less), prices)
            BY <1>4, <2>5
        <2>7. Leads(y, Roomy(less), prices, list)
            BY <1>2, <1>5, <1>6, <2>5, <2>6
        <2>8. QED
            BY <1>2, <1>5, <2>2, <2>4, <2>7, LeaderStays
    <1>10. QED
        BY <1>8, <1>9

\* A ranking strategy's favourite is the same in whatever is left of its list.
LEMMA FavouriteIsSame ==
    ASSUME NEW sel, sel.strategy \in Ranking,
           NEW list \in Seq(Endpoints), IsInjective(list),
           NEW more, PartOf(more, list), NEW less, PartOf(less, list),
           ToSet(less) \subseteq ToSet(more),
           NEW f, NEW x \in Favourites(sel, more, f), x \in ToSet(less),
           NEW g, NEW y \in Favourites(sel, less, g)
    PROVE  x = y
    <1>1. CASE sel.strategy \in Scored
        <2>1. PICK score \in [Endpoints -> Int] : \A es, failed :
                 PartOf(es, list) =>
                    \A z \in Favourites(sel, es, failed) : Leads(z, es, score, list)
            BY <1>1, FavouriteLeads
        <2>2. Leads(x, more, score, list) /\ Leads(y, less, score, list)
            BY <2>1
        <2>3. more \in Seq(Endpoints)
            BY DEF PartOf
        <2>4. QED
            BY <2>2, <2>3, LeaderStays
    <1>2. CASE sel.strategy = "context_adaptive"
        <2>1. /\ Favourites(sel, more, f) \subseteq ContextAdaptive(sel.context, more)
              /\ Favourites(sel, less, g) \subseteq ContextAdaptive(sel.context, less)
            BY <1>2 DEF Favourites, Agentic
        <2>2. QED
            BY <2>1, RoomiestStays
    <1>3. QED
        BY <1>1, <1>2 DEF Scored

\* What a ranking strategy did last with a pool's list.
Ranked(p, pick) ==
    /\ selector[p].strategy \in Ranking
    /\ PartOf(pick.list, EndpointsOf[p])
    /\ \E e \in Endpoints, failed \in SUBSET Endpoints :
          /\ pick.turns = <<e>>
          /\ e \in Favourites(selector[p], pick.list, failed)

RankInv ==
    /\ picks \in [Providers -> Pick]
    /\ \A p \in Providers : picks[p].by = "rank" => Ranked(p, picks[p])

\* What a pool has available is part of its list.
LEMMA AvailableIsPart ==
    ASSUME NEW p \in Providers, Available(p) # <<>>
    PROVE  /\ PartOf(Available(p), EndpointsOf[p])
           /\ EndpointsOf[p] \in Seq(Endpoints) /\ IsInjective(EndpointsOf[p])
    <1>1. PICK list \in Seq(Endpoints) : list = EndpointsOf[p] /\ IsInjective(list)
        BY RouterAssumption
    <1>2. PICK S : S = {e \in Enabled : IsHealthy(e)}
        OBVIOUS
    <1>3. PICK es : es = Available(p) /\ es = Kept(list, S)
        BY <1>1, <1>2 DEF Available
    <1>4. /\ es \in Seq(Endpoints)
          /\ \A i, j \in 1 .. Len(es) : i < j => Before(list, es[i], es[j])
        BY <1>3, KeptInOrder
    <1>5. PartOf(es, list)
        BY <1>3, <1>4 DEF PartOf
    <1>6. QED
        BY <1>1, <1>3, <1>5

\* A call that is routed leaves a favourite of what was available, or no rank.
LEMMA PickKeepsRanks ==
    ASSUME RankInv, NEW p \in Providers, NEW e \in Endpoints,
           Available(p) # <<>>, Select(p, Available(p), e),
           picks' = [picks EXCEPT ![p] = Picked(p, Available(p), e)],
           selector' = selector
    PROVE  RankInv'
    <1>1. PICK es : es = Available(p)
        OBVIOUS
    <1>2. es \in Seq(Endpoints) /\ PartOf(es, EndpointsOf[p])
        BY <1>1, AvailableIsPart DEF PartOf
    <1>3. PICK pick : pick = Picked(p, es, e)
        OBVIOUS
    <1>4. picks' = [picks EXCEPT ![p] = pick] /\ picks \in [Providers -> Pick]
        BY <1>1, <1>3 DEF RankInv
    <1>5. PICK turn, rank :
             /\ turn = [by |-> "turn", list |-> es,
                        turns |-> IF /\ picks[p].by = "turn" /\ picks[p].list = es
                                     /\ Len(picks[p].turns) < Len(es)
                                  THEN Append(picks[p].turns, e) ELSE <<e>>]
             /\ rank = [by |-> "rank", list |-> es, turns |-> <<e>>]
        OBVIOUS
    <1>6. /\ turn \in Pick /\ turn.by = "turn"
          /\ rank \in Pick /\ rank.by = "rank" /\ rank.list = es /\ rank.turns = <<e>>
          /\ NoPicks \in Pick /\ NoPicks.by = "none"
        <2>1. picks[p].turns \in Seq(Endpoints) /\ <<e>> \in Seq(Endpoints)
            BY <1>4 DEF Pick
        <2>2. Append(picks[p].turns, e) \in Seq(Endpoints)
            BY <2>1
        <2>3. QED
            BY <1>2, <1>5, <2>1, <2>2 DEF Pick, NoPicks
    <1>7. CASE FavouritesIn(p, es) = {} \/ selector[p].strategy \notin Ranking
        <2>1. pick \in Pick /\ pick.by # "rank"
            BY <1>3, <1>5, <1>6, <1>7 DEF Picked
        <2>2. QED
            BY <1>4, <2>1 DEF RankInv, Ranked
    <1>8. CASE FavouritesIn(p, es) # {} /\ selector[p].strategy \in Ranking
        <2>1. pick = rank
            BY <1>3, <1>5, <1>8 DEF Picked
        <2>2. PICK failed \in SUBSET Endpoints :
                 FavouritesIn(p, es) = Favourites(selector[p], es, failed)
            <3>1. {x \in Endpoints : health[x].failed} \in SUBSET Endpoints
                OBVIOUS
            <3>2. QED
                BY <3>1 DEF FavouritesIn
        <2>3. e \in Favourites(selector[p], es, failed)
            BY <1>1, <1>8, <2>2 DEF Select
        <2>4. Ranked(p, pick)
            BY <1>2, <1>6, <1>8, <2>1, <2>3 DEF Ranked
        <2>5. QED
            BY <1>4, <1>6, <2>1, <2>4 DEF RankInv, Ranked
    <1>9. QED
        BY <1>7, <1>8

\* Two rankings of a pool in a row agree.
LEMMA RankingsAgree ==
    ASSUME NEW p \in Providers, NEW old \in Pick, NEW new \in Pick,
           Ranked(p, old), Ranked(p, new),
           ToSet(new.list) \subseteq ToSet(old.list),
           old.turns[1] \in ToSet(new.list)
    PROVE  new.turns = old.turns
    <1>1. PICK list \in Seq(Endpoints) : list = EndpointsOf[p] /\ IsInjective(list)
        BY RouterAssumption
    <1>2. PICK x \in Endpoints, f \in SUBSET Endpoints :
             old.turns = <<x>> /\ x \in Favourites(selector[p], old.list, f)
        BY DEF Ranked
    <1>3. PICK y \in Endpoints, g \in SUBSET Endpoints :
             new.turns = <<y>> /\ y \in Favourites(selector[p], new.list, g)
        BY DEF Ranked
    <1>4. PICK sel, more, less :
             sel = selector[p] /\ more = old.list /\ less = new.list
        OBVIOUS
    <1>5. /\ sel.strategy \in Ranking /\ PartOf(more, list) /\ PartOf(less, list)
          /\ ToSet(less) \subseteq ToSet(more) /\ x \in ToSet(less)
          /\ x \in Favourites(sel, more, f) /\ y \in Favourites(sel, less, g)
        BY <1>1, <1>2, <1>3, <1>4 DEF Ranked
    <1>6. x = y
        BY <1>1, <1>5, FavouriteIsSame
    <1>7. QED
        BY <1>2, <1>3, <1>6

\* Whichever endpoints drop out of a pool and whatever the calls in between
\* reported, a ranking strategy goes on picking the one it picked (select_*).
THEOREM FavouritesStay == RouterSpec => FavouriteStays
<1> DEFINE Stays ==
        \A p \in Providers :
           LET old == picks[p]
               new == picks'[p]
           IN /\ old.by = "rank" /\ new.by = "rank"
              /\ ToSet(new.list) \subseteq ToSet(old.list)
              /\ old.turns[1] \in ToSet(new.list)
              => new.turns = old.turns
<1>1. RouterInit => RankInv
    <2>1. NoPicks \in Pick /\ NoPicks.by # "rank"
        BY DEF NoPicks, Pick
    <2>2. QED
        BY <2>1 DEF RouterInit, RankInv
<1>2. RankInv /\ [RouterNext]_routerVars => RankInv' /\ selector' = selector
    <2> SUFFICES ASSUME RankInv, [RouterNext]_routerVars
                 PROVE  RankInv' /\ selector' = selector
        OBVIOUS
    <2>1. ASSUME NEW r \in Requests, Route(r) PROVE RankInv' /\ selector' = selector
        <3> DEFINE Chosen(es, p, e) ==
                      /\ es # <<>>
                      /\ Select(p, es, e)
                      /\ picks' = [picks EXCEPT ![p] = Picked(p, es, e)]
        <3>0. selector' = selector
            BY <2>1 DEF Route
        <3>1. PICK m \in Models : \E primary \in PrimariesOf(m) :
                 \E d \in 0 .. Len(ChainOf[primary]), e \in Endpoints :
                    Chosen(Offered(primary, m, d), PoolAt(primary, d), e)
            BY <2>1 DEF Route
        <3> HIDE DEF Chosen
        <3>2. PICK p : \E e \in Endpoints :
                 /\ Available(p) # <<>>
                 /\ Select(p, Available(p), e)
                 /\ picks' = [picks EXCEPT ![p] = Picked(p, Available(p), e)]
            <4>1. PICK primary \in PrimariesOf(m) :
                     \E d \in 0 .. Len(ChainOf[primary]), e \in Endpoints :
                        Chosen(Offered(primary, m, d), PoolAt(primary, d), e)
                BY <3>1
            <4>2. PICK d \in 0 .. Len(ChainOf[primary]), e \in Endpoints :
                     Chosen(Offered(primary, m, d), PoolAt(primary, d), e)
                BY <4>1
            <4>3. Offered(primary, m, d) = Available(PoolAt(primary, d))
                <5>1. Offered(primary, m, d) # <<>>
                    BY <4>2 DEF Chosen
                <5>2. QED
                    BY <5>1, OfferedIsAvailable
            <4>4. QED
                BY <4>2, <4>3 DEF Chosen
        <3>3. CASE p \in Providers
            BY <3>0, <3>2, <3>3, PickKeepsRanks
        <3>4. CASE p \notin Providers
            <4>1. picks' = picks
                BY <3>2, <3>4 DEF RankInv
            <4>2. QED
                BY <3>0, <4>1 DEF RankInv, Ranked
        <3>5. QED
            BY <3>3, <3>4
    <2>2. CASE UNCHANGED <<selector, picks>>
        BY <2>2 DEF RankInv, Ranked
    <2>3. QED
        BY <2>1, <2>2 DEF RouterNext, routerVars, ReportSuccess, ReportFailure,
                          NothingReported, Mark, TimePasses
<1>3. RankInv /\ RankInv' /\ selector' = selector => Stays
    <2> SUFFICES ASSUME RankInv, RankInv', selector' = selector, NEW p \in Providers,
                        picks[p].by = "rank", picks'[p].by = "rank",
                        ToSet(picks'[p].list) \subseteq ToSet(picks[p].list),
                        picks[p].turns[1] \in ToSet(picks'[p].list)
                 PROVE  picks'[p].turns = picks[p].turns
        OBVIOUS
    <2>1. PICK old, new : old = picks[p] /\ new = picks'[p]
        OBVIOUS
    <2>2. old \in Pick /\ new \in Pick
        BY <2>1 DEF RankInv
    <2>3. Ranked(p, old)
        BY <2>1 DEF RankInv
    <2>4. Ranked(p, new)
        BY <2>1 DEF RankInv, Ranked
    <2>5. QED
        BY <2>1, <2>2, <2>3, <2>4, RankingsAgree
<1>4. RankInv /\ RankInv' /\ [RouterNext]_routerVars => [Stays]_routerVars
    BY <1>2, <1>3
<1>5. QED
    BY <1>1, <1>2, <1>4, PTL DEF RouterSpec, FavouriteStays

=============================================================================

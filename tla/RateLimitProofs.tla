--------------------------- MODULE RateLimitProofs ---------------------------
(***************************************************************************)
(* Theorems about the limits of a key, for any number of requests, any     *)
(* window, day and lifetimes, and however the limits move.                 *)
(***************************************************************************)
EXTENDS RateLimit, FiniteSetTheorems, TLAPS

-----------------------------------------------------------------------------
(* What the theorems rest on, one idea at a time.                          *)

Counter == [count : Nat, until : Int]

RateTypeOK ==
    /\ now \in Nat /\ now <= MaxNow
    /\ minute \in Counter
    /\ days \in [Days -> Counter]
    /\ pc \in [Requests -> {"idle", "limiting", "counting", "counted?", "handled",
                            "minuteLimited", "dayLimited"}]
    /\ limit \in [Requests -> Limits]
    /\ planned \in [Requests -> [day : Days, ttl : Int]]
    /\ tokenAt \in [Requests -> {Never} \cup 0 .. now]
    /\ countedAt \in [Requests -> {Never} \cup 0 .. now]
    /\ endedAt \in [Requests -> {Never} \cup 0 .. now]

\* The tokens taken from a tick on, and the tick the counter was opened at.
Since(from) == {r \in Requests : tokenAt[r] # Never /\ tokenAt[r] >= from}
Opened == minute.until - Window

\* A request takes one token at most, and counts as one message at most.
OnceEach ==
    \A r \in Requests :
      /\ pc[r] \in {"idle", "limiting"} => tokenAt[r] = Never
      /\ countedAt[r] # Never => pc[r] = "handled"

\* The counter, expired or not, knows every token since it was opened by one of
\* them; the ticks of a window before that saw fewer than the limit.
MinuteInv ==
    /\ IsFiniteSet(Since(0))
    /\ \A r \in Requests : tokenAt[r] < minute.until \/ tokenAt[r] = Never
    /\ minute.count = Cardinality(Since(Opened)) /\ minute.count <= Largest
    /\ minute.count = 0 => minute.until = 0
    /\ Since(0) # {} => \E r \in Since(0) : tokenAt[r] = Opened
    /\ Cardinality(Tokens(Opened - Window + 1, Window - 1)) < Largest
    /\ LessThanTwiceTheLimit

Counted(d) == {q \in Requests : countedAt[q] # Never /\ planned[q].day = d}

\* A daily counter that expired early counts too few, never too many.
DaysInv ==
    \A d \in Days : IsFiniteSet(Counted(d)) /\ days[d].count <= Cardinality(Counted(d))

RateInv ==
    /\ RateTypeOK
    /\ OnceEach
    /\ MinuteInv
    /\ DaysInv
    /\ RefusalsAreEarned

-----------------------------------------------------------------------------
(* Arithmetic and sets.                                                    *)

\* The limits have a greatest one.
LEMMA LargestLimit ==
    Largest \in Nat \ {0} /\ \A l \in Limits : l <= Largest
    BY RateAssumption DEF Largest

\* The day of an earlier tick is no later.
LEMMA DaysInOrder ==
    ASSUME NEW t \in Nat, t <= MaxNow
    PROVE  t \div Day \in Days
    <1>1. Day \in Nat \ {0} /\ MaxNow \in Nat
        BY RateAssumption
    <1>2. PICK d \in Nat, last \in Nat : d = t \div Day /\ last = MaxNow \div Day
        BY <1>1
    <1>3. Day * d <= t /\ MaxNow < Day * last + Day
        BY <1>1, <1>2
    <1>4. ASSUME d > last PROVE FALSE
        <2>1. PICK more \in Nat : d = last + 1 + more
            BY <1>4
        <2>2. Day * d = Day * last + Day + Day * more
            BY <1>1, <2>1
        <2>3. Day * more \in Nat
            BY <1>1
        <2>4. Day * last \in Nat
            BY <1>1
        <2>5. QED
            BY <1>1, <1>3, <2>2, <2>3, <2>4
    <1>5. QED
        BY <1>2, <1>4 DEF Days

\* A lifetime is a number of ticks.
LEMMA LifetimeType == ASSUME NEW t \in Nat PROVE Lifetime(t) \in Int
    <1>1. Day \in Nat \ {0} /\ Second \in Nat \ {0} /\ MinTtl \in Nat
        BY RateAssumption
    <1>2. PICK left \in Int : left = Day - (t % Day)
        BY <1>1
    <1>3. (left \div Second) * Second \in Int
        BY <1>1
    <1>4. QED
        BY <1>1, <1>2, <1>3 DEF Lifetime

\* A smaller set of tokens has no greater number.
LEMMA Fewer ==
    ASSUME NEW S, NEW T, IsFiniteSet(T), S \subseteq T
    PROVE  /\ IsFiniteSet(S) /\ Cardinality(S) \in Nat /\ Cardinality(T) \in Nat
           /\ Cardinality(S) <= Cardinality(T)
    BY FS_Subset, FS_CardinalityType

\* All sets of tokens are finite.
LEMMA TokensFinite ==
    ASSUME RateTypeOK, MinuteInv
    PROVE  /\ \A from \in Int : IsFiniteSet(Since(from)) /\ Since(from) \subseteq Since(0)
           /\ \A from \in Int, ticks \in Int :
                IsFiniteSet(Tokens(from, ticks)) /\ Tokens(from, ticks) \subseteq Since(0)
    <1>1. \A r \in Requests : tokenAt[r] # Never => tokenAt[r] \in Nat
        BY DEF RateTypeOK
    <1>2. \A from \in Int : Since(from) \subseteq Since(0)
        BY <1>1 DEF Since
    <1>3. \A from \in Int, ticks \in Int : Tokens(from, ticks) \subseteq Since(0)
        BY <1>1 DEF Since, Tokens
    <1>4. IsFiniteSet(Since(0))
        BY DEF MinuteInv
    <1>5. QED
        BY <1>2, <1>3, <1>4, Fewer

\* At the start nothing was counted.
LEMMA RateStart == RateInit => RateInv
<1> SUFFICES ASSUME RateInit PROVE RateInv
    OBVIOUS
<1> USE DEF RateInit
<1>1. /\ \A r \in Requests : tokenAt[r] = Never /\ countedAt[r] = Never /\ pc[r] = "idle"
      /\ minute.count = 0 /\ minute.until = 0 /\ now = 0
      /\ MaxNow \in Nat /\ Window \in Nat \ {0}
    BY RateAssumption DEF Absent
<1>2. RateTypeOK
    <2>1. 0 \in Days
        BY <1>1, DaysInOrder, RateAssumption DEF Days
    <2>2. [day |-> 0, ttl |-> 0] \in [day : Days, ttl : Int]
        BY <2>1
    <2>3. Absent \in Counter
        BY DEF Absent, Counter
    <2>4. QED
        BY <1>1, <2>2, <2>3 DEF RateTypeOK
<1>3. OnceEach
    BY <1>1 DEF OnceEach
<1>4. MinuteInv
    <2>1. \A from, ticks : Tokens(from, ticks) = {} /\ Since(from) = {}
        BY <1>1 DEF Tokens, Since
    <2>2. Cardinality({}) = 0 /\ IsFiniteSet({})
        BY FS_EmptySet
    <2>3. LessThanTwiceTheLimit
        BY <2>1, <2>2, LargestLimit DEF LessThanTwiceTheLimit
    <2>4. QED
        BY <1>1, <2>1, <2>2, <2>3, LargestLimit DEF MinuteInv
<1>5. DaysInv
    <2>1. \A d : Counted(d) = {}
        BY <1>1 DEF Counted
    <2>2. \A d \in Days : days[d].count = 0
        BY DEF Absent
    <2>3. QED
        BY <2>1, <2>2, FS_EmptySet DEF DaysInv
<1>6. RefusalsAreEarned
    BY <1>1 DEF RefusalsAreEarned
<1>7. QED
    BY <1>2, <1>3, <1>4, <1>5, <1>6 DEF RateInv

-----------------------------------------------------------------------------
(* The counter of the minute.                                              *)

\* A token that opens a window: those of the window's length before it are all
\* of the last one, and not its first.
LEMMA OpeningToken ==
    ASSUME RateTypeOK, MinuteInv, NEW r \in Requests, tokenAt[r] = Never,
           minute' = [count |-> 1, until |-> now + Window],
           minute.until <= now, now' = now,
           tokenAt' = [tokenAt EXCEPT ![r] = now]
    PROVE  MinuteInv'
    <1>0. /\ Window \in Nat \ {0} /\ now \in Nat
          /\ minute.until \in Int
          /\ tokenAt'[r] = now /\ \A q \in Requests \ {r} : tokenAt'[q] = tokenAt[q]
          /\ \A q \in Requests : tokenAt[q] # Never => tokenAt[q] \in 0 .. now
          /\ Largest \in Nat \ {0}
          /\ now # Never
        BY RateAssumption, LargestLimit DEF RateTypeOK, Counter, Never
    <1>1. minute'.count = 1 /\ minute'.until = now + Window /\ Opened' = now
        BY <1>0, RateAssumption DEF Opened
    <1>2. \A q \in Requests : tokenAt[q] # Never => tokenAt[q] < minute.until
        BY DEF MinuteInv
    <1>3. /\ IsFiniteSet(Since(0)') /\ Since(0)' = Since(0) \cup {r}
        <2>1. Since(0)' = Since(0) \cup {r}
            BY <1>0 DEF Since
        <2>2. QED
            BY <2>1, FS_AddElement DEF MinuteInv
    <1>4. Since(Opened)' = {r}
        BY <1>0, <1>1, <1>2 DEF Since
    <1> DEFINE before == Tokens(now - Window + 1, Window - 1)
    <1>5. IsFiniteSet(before) /\ Cardinality(before) \in Nat /\ Cardinality(before) < Largest
        <2>0. IsFiniteSet(before)
            BY <1>0, TokensFinite
        <2>1. CASE Since(0) = {}
            <3>1. before = {}
                BY <1>0, <2>1, TokensFinite
            <3>2. QED
                BY <1>0, <3>1, FS_EmptySet
        <2>2. CASE Since(0) # {}
            <3>1. PICK first \in Since(0) : tokenAt[first] = Opened
                BY <2>2 DEF MinuteInv
            <3>2. PICK o \in Int : o = Opened
                BY <1>0 DEF Opened
            <3>3. first \in Since(o)
                BY <1>0, <3>1, <3>2 DEF Since
            <3>4. before \subseteq Since(o) \ {first}
                BY <1>0, <3>1, <3>2 DEF Since, Tokens, Opened
            <3>5. IsFiniteSet(Since(o)) /\ Cardinality(Since(o)) <= Largest
                BY <3>2, TokensFinite DEF MinuteInv
            <3>6. /\ IsFiniteSet(Since(o) \ {first})
                  /\ Cardinality(Since(o) \ {first}) = Cardinality(Since(o)) - 1
                BY <3>3, <3>5, FS_RemoveElement
            <3>7. Cardinality(Since(o)) \in Nat
                BY <3>5, FS_CardinalityType
            <3>8. QED
                BY <1>0, <3>4, <3>5, <3>6, <3>7, Fewer
        <2>3. QED
            BY <2>1, <2>2
    <1>6. Tokens(now - Window + 1, Window - 1)' = before
        BY <1>0 DEF Tokens
    <1>7. ASSUME NEW t \in 0 .. now PROVE Cardinality(Tokens(t, Window)') < 2 * Largest
        <2>1. CASE t + Window - 1 < now
            <3>1. Tokens(t, Window)' = Tokens(t, Window)
                BY <1>0, <2>1 DEF Tokens
            <3>2. QED
                BY <3>1 DEF MinuteInv, LessThanTwiceTheLimit
        <2>2. CASE t + Window - 1 >= now
            <3>1. Tokens(t, Window)' \subseteq before \cup {r}
                BY <1>0, <1>2, <2>2 DEF Tokens
            <3>2. /\ IsFiniteSet(before \cup {r})
                  /\ Cardinality(before \cup {r}) <= Cardinality(before) + 1
                <4> HIDE DEF before
                <4>1. /\ IsFiniteSet(before \cup {r})
                      /\ Cardinality(before \cup {r}) =
                           IF r \in before THEN Cardinality(before)
                           ELSE Cardinality(before) + 1
                    BY <1>5, FS_AddElement
                <4>2. QED
                    BY <1>5, <4>1
            <3>3. QED
                BY <1>0, <1>5, <3>1, <3>2, Fewer
        <2>3. QED
            BY <1>0, <2>1, <2>2
    <1>8. LessThanTwiceTheLimit'
        BY <1>0, <1>7 DEF LessThanTwiceTheLimit
    <1>9. \E q \in Since(0)' : tokenAt'[q] = Opened'
        BY <1>0, <1>1, <1>3
    <1>10. \A q \in Requests : tokenAt'[q] < minute'.until \/ tokenAt'[q] = Never
        BY <1>0, <1>1
    <1>11. minute'.count = Cardinality(Since(Opened)') /\ minute'.count <= Largest
        <2>1. Cardinality({r}) = 1
            BY FS_Singleton
        <2>2. Cardinality(Since(Opened)') = 1
            BY <1>4, <2>1
        <2>3. QED
            BY <1>0, <1>1, <2>2
    <1>12. Cardinality(Tokens(Opened - Window + 1, Window - 1)') < Largest
        BY <1>1, <1>5, <1>6
    <1>13. minute'.count # 0
        BY <1>1
    <1>14. QED
        BY <1>3, <1>8, <1>9, <1>10, <1>11, <1>12, <1>13 DEF MinuteInv

\* A token within the window adds one to those since it was opened; a stretch
\* that reaches back before it meets fewer than the limit there.
LEMMA FurtherToken ==
    ASSUME RateTypeOK, MinuteInv, NEW r \in Requests, tokenAt[r] = Never,
           minute' = [minute EXCEPT !.count = @ + 1],
           minute.until > now, minute.count > 0, minute.count < Largest, now' = now,
           tokenAt' = [tokenAt EXCEPT ![r] = now]
    PROVE  MinuteInv'
    <1>0. /\ Window \in Nat \ {0} /\ now \in Nat
          /\ minute.until \in Int /\ minute.count \in Nat
          /\ tokenAt'[r] = now /\ \A q \in Requests \ {r} : tokenAt'[q] = tokenAt[q]
          /\ \A q \in Requests : tokenAt[q] # Never => tokenAt[q] \in 0 .. now
          /\ Largest \in Nat \ {0}
          /\ now # Never
        BY RateAssumption, LargestLimit DEF RateTypeOK, Counter, Never
    <1>1. minute'.count = minute.count + 1 /\ minute'.until = minute.until
        BY DEF RateTypeOK, Counter
    <1>2. PICK o \in Int : o = Opened /\ o = Opened'
        BY <1>0, <1>1, RateAssumption DEF Opened
    <1>3. IsFiniteSet(Since(o)) /\ Cardinality(Since(o)) = minute.count
        BY <1>2, TokensFinite DEF MinuteInv
    <1>4. PICK first \in Since(0) : tokenAt[first] = o
        <2>1. Since(o) # {}
            BY <1>0, <1>3, FS_EmptySet
        <2>2. Since(0) # {}
            BY <1>2, <2>1, TokensFinite
        <2>3. QED
            BY <1>2, <2>2 DEF MinuteInv
    <1>5. o \in 0 .. now
        BY <1>0, <1>4 DEF Since
    <1>6. IsFiniteSet(Since(0)') /\ Since(0)' = Since(0) \cup {r}
        <2>1. Since(0)' = Since(0) \cup {r}
            BY <1>0 DEF Since
        <2>2. QED
            BY <2>1, FS_AddElement DEF MinuteInv
    <1>7. /\ Since(Opened)' = Since(o) \cup {r}
          /\ IsFiniteSet(Since(o) \cup {r})
          /\ Cardinality(Since(o) \cup {r}) = minute.count + 1
        <2>1. Since(Opened)' = Since(o) \cup {r}
            BY <1>0, <1>2, <1>5 DEF Since
        <2>2. r \notin Since(o)
            BY DEF Since
        <2>3. QED
            BY <1>3, <2>1, <2>2, FS_AddElement
    <1> DEFINE before == Tokens(o - Window + 1, Window - 1)
    <1>8. IsFiniteSet(before) /\ Cardinality(before) \in Nat /\ Cardinality(before) < Largest
        <2>1. IsFiniteSet(before)
            <3>1. o - Window + 1 \in Int /\ Window - 1 \in Int
                BY <1>0
            <3>2. QED
                BY <3>1, TokensFinite
        <2>2. Cardinality(before) < Largest
            BY <1>2 DEF MinuteInv
        <2>3. QED
            BY <2>1, <2>2, FS_CardinalityType
    <1>9. Tokens(Opened - Window + 1, Window - 1)' = before
        BY <1>0, <1>2, <1>5 DEF Tokens
    <1>10. ASSUME NEW t \in 0 .. now PROVE Cardinality(Tokens(t, Window)') < 2 * Largest
        <2>1. CASE t + Window - 1 < now
            <3>1. Tokens(t, Window)' = Tokens(t, Window)
                BY <1>0, <2>1 DEF Tokens
            <3>2. QED
                BY <3>1 DEF MinuteInv, LessThanTwiceTheLimit
        <2>2. CASE t + Window - 1 >= now
            <3> DEFINE since == Since(o) \cup {r}
            <3>1. Tokens(t, Window)' \subseteq before \cup since
                BY <1>0, <1>5, <2>2 DEF Tokens, Since
            <3>2. IsFiniteSet(since) /\ Cardinality(since) <= Largest
                  /\ Cardinality(since) \in Nat
                BY <1>0, <1>7
            <3> HIDE DEF before, since
            <3>3. /\ IsFiniteSet(before \cup since)
                  /\ Cardinality(before \cup since) =
                       Cardinality(before) + Cardinality(since) - Cardinality(before \cap since)
                BY <1>8, <3>2, FS_Union
            <3>4. Cardinality(before \cap since) \in Nat
                BY <3>2, Fewer
            <3>5. Cardinality(before \cup since) < 2 * Largest
                BY <1>0, <1>8, <3>2, <3>3, <3>4
            <3>6. /\ Cardinality(Tokens(t, Window)') <= Cardinality(before \cup since)
                  /\ Cardinality(Tokens(t, Window)') \in Nat
                  /\ Cardinality(before \cup since) \in Nat
                BY <3>1, <3>3, Fewer
            <3>7. QED
                BY <1>0, <3>5, <3>6
        <2>3. QED
            BY <1>0, <2>1, <2>2
    <1>11. LessThanTwiceTheLimit'
        BY <1>0, <1>10 DEF LessThanTwiceTheLimit
    <1>12. \E q \in Since(0)' : tokenAt'[q] = Opened'
        <2>1. first # r
            BY DEF Since
        <2>2. first \in Since(0)' /\ tokenAt'[first] = Opened'
            BY <1>0, <1>2, <1>4, <1>6, <2>1 DEF Since
        <2>3. QED
            BY <2>2
    <1>13. \A q \in Requests : tokenAt'[q] < minute'.until \/ tokenAt'[q] = Never
        BY <1>0, <1>1 DEF MinuteInv
    <1>14. minute'.count = Cardinality(Since(Opened)') /\ minute'.count <= Largest
        BY <1>0, <1>1, <1>7
    <1>15. Cardinality(Tokens(Opened - Window + 1, Window - 1)') < Largest
        BY <1>8, <1>9
    <1>16. minute'.count # 0
        BY <1>0, <1>1
    <1>17. QED
        BY <1>6, <1>11, <1>12, <1>13, <1>14, <1>15, <1>16 DEF MinuteInv

\* RateLimiter::check that grants, whichever window the token falls into.
LEMMA TokenKeeps ==
    ASSUME RateTypeOK, OnceEach, MinuteInv, NEW r \in Requests, pc[r] = "limiting",
           ~Full(minute, limit[r]), TakeToken(r), now' = now
    PROVE  MinuteInv'
    <1>1. tokenAt[r] = Never /\ tokenAt' = [tokenAt EXCEPT ![r] = now]
        BY DEF OnceEach, TakeToken
    <1>2. /\ minute' = Incremented(minute, Window)
          /\ minute.count \in Nat /\ minute.until \in Int /\ now \in Nat
          /\ limit[r] \in Nat /\ limit[r] <= Largest /\ Largest \in Nat
        BY RateAssumption, LargestLimit DEF RateTypeOK, Counter, TakeToken
    <1>3. CASE minute.until > now /\ minute.count > 0
        <2>1. Count(minute) = minute.count /\ minute.count # 0
            BY <1>2, <1>3 DEF Count
        <2>2. minute' = [minute EXCEPT !.count = @ + 1]
            BY <1>2, <2>1 DEF Incremented
        <2>3. minute.count < Largest
            BY <1>2, <2>1 DEF Full
        <2>4. QED
            BY <1>1, <1>3, <2>2, <2>3, FurtherToken
    <1>4. CASE ~(minute.until > now /\ minute.count > 0)
        <2>1. minute' = [count |-> 1, until |-> now + Window]
            BY <1>2, <1>4 DEF Incremented, Count
        <2>2. minute.until <= now
            BY <1>2, <1>4 DEF MinuteInv
        <2>3. QED
            BY <1>1, <2>1, <2>2, OpeningToken
    <1>5. QED
        BY <1>3, <1>4

\* While no token is taken, time alone may pass.
LEMMA NoTokenKeeps ==
    ASSUME RateTypeOK, MinuteInv, UNCHANGED <<minute, tokenAt>>,
           now' = now \/ now' = now + 1
    PROVE  MinuteInv'
    <1>0. /\ now \in Nat /\ Window \in Nat \ {0} /\ Largest \in Nat \ {0}
          /\ \A q \in Requests : tokenAt[q] # Never => tokenAt[q] \in 0 .. now
        BY RateAssumption, LargestLimit DEF RateTypeOK
    <1>1. ASSUME NEW t \in 0 .. now' PROVE Cardinality(Tokens(t, Window)) < 2 * Largest
        <2>1. CASE t \in 0 .. now
            BY <2>1 DEF MinuteInv, LessThanTwiceTheLimit
        <2>2. CASE t \notin 0 .. now
            <3>1. t > now
                BY <1>0, <2>2
            <3>2. Tokens(t, Window) = {}
                BY <1>0, <3>1 DEF Tokens
            <3>3. QED
                BY <1>0, <3>2, FS_EmptySet
        <2>3. QED
            BY <2>1, <2>2
    <1>2. LessThanTwiceTheLimit'
        BY <1>1 DEF LessThanTwiceTheLimit, Tokens
    <1>3. QED
        BY <1>2 DEF MinuteInv, Since, Opened, Tokens

-----------------------------------------------------------------------------
(* The counters of the days.                                               *)

\* While planned days stay and nothing is counted, the counters stay right.
LEMMA NoMessageKeeps ==
    ASSUME DaysInv, OnceEach, UNCHANGED <<days, countedAt>>,
           \A q \in Requests : pc[q] = "handled" => planned'[q] = planned[q]
    PROVE  DaysInv'
    <1>1. \A d : Counted(d)' = Counted(d)
        BY DEF OnceEach, Counted
    <1>2. QED
        BY <1>1 DEF DaysInv

\* A message that is counted adds one, or starts over at one.
LEMMA MessageKeeps ==
    ASSUME RateTypeOK, DaysInv, OnceEach, NEW r \in Requests, pc[r] = "counted?",
           CountMessage(r), UNCHANGED <<now, planned>>
    PROVE  /\ DaysInv' /\ days' \in [Days -> Counter]
           /\ countedAt' \in [Requests -> {Never} \cup 0 .. now]
           /\ countedAt'[r] # Never
           /\ \A q \in Requests \ {r} : countedAt'[q] = countedAt[q]
    <1>1. /\ planned[r].day \in Days /\ planned[r].ttl \in Int /\ now \in Nat
          /\ countedAt[r] = Never
          /\ days' = [days EXCEPT ![planned[r].day] = Incremented(@, planned[r].ttl)]
          /\ countedAt' = [countedAt EXCEPT ![r] = now]
        BY DEF RateTypeOK, OnceEach, CountMessage
    <1>2. PICK day \in Days : day = planned[r].day
        BY <1>1
    <1>3. PICK new : new = Incremented(days[day], planned[r].ttl)
        OBVIOUS
    <1>4. new \in Counter /\ new.count <= days[day].count + 1
        <2>1. days[day] \in Counter
            BY DEF RateTypeOK
        <2>2. CASE Count(days[day]) = 0
            BY <1>1, <1>3, <2>1, <2>2 DEF Incremented, Counter
        <2>3. CASE Count(days[day]) # 0
            <3>1. new = [days[day] EXCEPT !.count = @ + 1]
                BY <1>3, <2>3 DEF Incremented
            <3>2. QED
                BY <2>1, <3>1 DEF Counter
        <2>4. QED
            BY <2>2, <2>3
    <1>5. days' = [days EXCEPT ![day] = new] /\ days' \in [Days -> Counter]
        BY <1>1, <1>2, <1>3, <1>4 DEF RateTypeOK
    <1>6. /\ countedAt'[r] = now /\ now # Never
          /\ countedAt' \in [Requests -> {Never} \cup 0 .. now]
          /\ \A q \in Requests \ {r} : countedAt'[q] = countedAt[q]
        BY <1>1 DEF RateTypeOK, Never
    <1>7. ASSUME NEW d \in Days
          PROVE  IsFiniteSet(Counted(d)') /\ days'[d].count <= Cardinality(Counted(d)')
        <2>1. /\ IsFiniteSet(Counted(d)) /\ days[d].count <= Cardinality(Counted(d))
              /\ days[d].count \in Nat /\ Cardinality(Counted(d)) \in Nat
            BY FS_CardinalityType DEF DaysInv, RateTypeOK, Counter
        <2>2. CASE d = day
            <3>1. Counted(d)' = Counted(d) \cup {r} /\ r \notin Counted(d)
                BY <1>1, <1>2, <1>6, <2>2 DEF Counted
            <3>2. /\ IsFiniteSet(Counted(d) \cup {r})
                  /\ Cardinality(Counted(d) \cup {r}) = Cardinality(Counted(d)) + 1
                BY <2>1, <3>1, FS_AddElement
            <3>3. days'[d].count <= days[d].count + 1 /\ days'[d].count \in Nat
                BY <1>4, <1>5, <2>2 DEF RateTypeOK, Counter
            <3>4. QED
                BY <2>1, <3>1, <3>2, <3>3
        <2>3. CASE d # day
            <3>1. Counted(d)' = Counted(d) /\ days'[d] = days[d]
                BY <1>1, <1>2, <1>5, <1>6, <2>3 DEF Counted, RateTypeOK
            <3>2. QED
                BY <2>1, <3>1
        <2>4. QED
            BY <2>2, <2>3
    <1>8. DaysInv'
        BY <1>7 DEF DaysInv
    <1>9. QED
        BY <1>5, <1>6, <1>8

-----------------------------------------------------------------------------
(* Refusals.                                                               *)

Charged(r, tick) ==
    {q \in Requests : /\ countedAt[q] # Never
                      /\ countedAt[q] <= tick
                      /\ planned[q].day = planned[r].day}

Earned(r) ==
    /\ pc[r] = "minuteLimited" =>
          Cardinality(Tokens(endedAt[r] - Window + 1, Window)) >= limit[r]
    /\ pc[r] = "dayLimited" => Cardinality(Charged(r, endedAt[r])) >= DailyLimit

\* What no step undoes: tokens, counted messages and the days they count for.
Lasting ==
    \A q \in Requests :
      /\ tokenAt[q] # Never => tokenAt'[q] = tokenAt[q]
      /\ countedAt[q] # Never => countedAt'[q] = countedAt[q]
      /\ pc[q] \in {"handled", "dayLimited"} => planned'[q] = planned[q]

\* A full counter knows as many tokens within the last window.
LEMMA FullMinute ==
    ASSUME RateTypeOK, MinuteInv, NEW r \in Requests, Full(minute, limit[r])
    PROVE  Cardinality(Tokens(now - Window + 1, Window)) >= limit[r]
    <1>1. /\ now \in Nat /\ Window \in Nat \ {0} /\ limit[r] \in Nat \ {0}
          /\ minute.count \in Nat /\ minute.until \in Int
          /\ \A q \in Requests : tokenAt[q] # Never => tokenAt[q] \in 0 .. now
        BY RateAssumption DEF RateTypeOK, Counter
    <1>2. minute.until > now /\ minute.count >= limit[r]
        BY <1>1 DEF Full, Count
    <1>3. Since(Opened) \subseteq Tokens(now - Window + 1, Window)
        BY <1>1, <1>2 DEF Since, Opened, Tokens
    <1>4. IsFiniteSet(Tokens(now - Window + 1, Window))
        <2>1. now - Window + 1 \in Int /\ Window \in Int
            BY <1>1
        <2>2. QED
            BY <2>1, TokensFinite
    <1>5. minute.count = Cardinality(Since(Opened))
        BY DEF MinuteInv
    <1>6. QED
        BY <1>1, <1>2, <1>3, <1>4, <1>5, Fewer

\* A full day was charged with as many messages.
LEMMA FullDay ==
    ASSUME RateTypeOK, DaysInv, NEW r \in Requests, Full(days[planned[r].day], DailyLimit)
    PROVE  Cardinality(Charged(r, now)) >= DailyLimit
    <1>1. PICK d \in Days : d = planned[r].day
        BY DEF RateTypeOK
    <1>2. Charged(r, now) = Counted(d)
        BY <1>1 DEF Charged, Counted, RateTypeOK
    <1>3. days[d].count \in Nat /\ DailyLimit \in Nat
        BY RateAssumption DEF RateTypeOK, Counter
    <1>4. /\ days[d].count <= Cardinality(Counted(d)) /\ Cardinality(Counted(d)) \in Nat
        BY FS_CardinalityType DEF DaysInv
    <1>5. days[d].count >= DailyLimit \/ DailyLimit = 0
        BY <1>1, <1>3 DEF Full, Count
    <1>6. QED
        BY <1>2, <1>3, <1>4, <1>5

\* What a refusal rested on is there for good.
LEMMA EarnedStays ==
    ASSUME RateTypeOK, OnceEach, RateTypeOK', MinuteInv', DaysInv', Lasting,
           NEW r \in Requests, Earned(r),
           pc'[r] = pc[r], endedAt'[r] = endedAt[r], UNCHANGED limit
    PROVE  Earned(r)'
    <1>1. ASSUME pc[r] = "minuteLimited"
          PROVE  Cardinality(Tokens(endedAt[r] - Window + 1, Window)') >= limit[r]
        <2>1. endedAt[r] \in Int /\ limit[r] \in Nat
            <3>1. limit[r] \in Limits /\ endedAt[r] \in {Never} \cup 0 .. now /\ now \in Nat
                BY DEF RateTypeOK
            <3>2. Limits \subseteq Nat /\ Never \in Int
                BY RateAssumption DEF Never
            <3>3. limit[r] \in Nat
                BY <3>1, <3>2
            <3>4. endedAt[r] \in Int
                BY <3>1, <3>2
            <3>5. QED
                BY <3>3, <3>4
        <2>2. PICK from \in Int : from = endedAt[r] - Window + 1
            BY <2>1, RateAssumption
        <2>3. \A q \in Requests : tokenAt'[q] # Never => tokenAt'[q] \in Nat
            BY DEF RateTypeOK
        <2>4. Tokens(from, Window) \subseteq Tokens(from, Window)'
            BY DEF Lasting, Tokens
        <2>5. Tokens(from, Window)' \subseteq Since(0)'
            BY <2>3 DEF Tokens, Since
        <2>6. IsFiniteSet(Tokens(from, Window)')
            BY <2>5, Fewer DEF MinuteInv
        <2>7. Cardinality(Tokens(from, Window)) >= limit[r]
            BY <1>1, <2>2 DEF Earned
        <2>8. Cardinality(Tokens(from, Window)') >= limit[r]
            BY <2>1, <2>4, <2>6, <2>7, Fewer
        <2>9. Tokens(from, Window)' = Tokens(endedAt[r] - Window + 1, Window)'
            BY <2>2 DEF Tokens
        <2>10. QED
            BY <2>8, <2>9
    <1>2. ASSUME pc[r] = "dayLimited"
          PROVE  Cardinality(Charged(r, endedAt[r])') >= DailyLimit
        <2>1. planned'[r] = planned[r]
            BY <1>2 DEF Lasting
        <2>2. \A q \in Requests : countedAt[q] # Never =>
                countedAt'[q] = countedAt[q] /\ planned'[q] = planned[q]
            BY DEF OnceEach, Lasting
        <2>3. Charged(r, endedAt[r]) \subseteq Charged(r, endedAt[r])'
            BY <2>1, <2>2 DEF Charged
        <2>4. PICK d \in Days : d = planned'[r].day
            BY DEF RateTypeOK
        <2>5. Charged(r, endedAt[r])' \subseteq Counted(d)'
            BY <2>4 DEF Charged, Counted
        <2>6. IsFiniteSet(Charged(r, endedAt[r])')
            BY <2>5, Fewer DEF DaysInv
        <2>7. Cardinality(Charged(r, endedAt[r])) >= DailyLimit
            BY <1>2 DEF Earned
        <2>8. QED
            BY <2>3, <2>6, <2>7, Fewer, RateAssumption
    <1>3. QED
        BY <1>1, <1>2 DEF Earned

-----------------------------------------------------------------------------
(* The steps.                                                              *)

\* A request that ends without a refusal, and all others, keep what they earned.
LEMMA OthersEarned ==
    ASSUME RateInv, RateTypeOK', MinuteInv', DaysInv', Lasting, UNCHANGED limit,
           NEW r \in Requests, Earned(r)',
           \A q \in Requests \ {r} : pc'[q] = pc[q] /\ endedAt'[q] = endedAt[q]
    PROVE  RefusalsAreEarned'
    <1>1. ASSUME NEW q \in Requests PROVE Earned(q)'
        <2>1. CASE q = r
            BY <2>1
        <2>2. CASE q # r
            <3>1. Earned(q)
                BY DEF RateInv, RefusalsAreEarned, Earned, Charged
            <3>2. pc'[q] = pc[q] /\ endedAt'[q] = endedAt[q]
                BY <2>2
            <3>3. QED
                BY <3>1, <3>2, EarnedStays DEF RateInv
        <2>3. QED
            BY <2>1, <2>2
    <1>2. QED
        BY <1>1 DEF RefusalsAreEarned, Earned, Charged

\* Moving on without touching a counter: the type, and all but the refusal.
LEMMA ArrivalKeeps ==
    ASSUME RateInv, NEW r \in Requests, Bypass(r) \/ Arrive(r)
    PROVE  RateInv'
    <1>1. /\ pc[r] = "idle" /\ pc'[r] \in {"handled", "limiting"}
          /\ \A q \in Requests \ {r} : pc'[q] = pc[q]
          /\ UNCHANGED <<now, minute, days, limit, planned, tokenAt, countedAt, endedAt>>
          /\ RateTypeOK'
        BY DEF RateInv, RateTypeOK, Bypass, Arrive, MoveTo
    <1>2. OnceEach'
        BY <1>1 DEF RateInv, OnceEach
    <1>3. MinuteInv'
        BY <1>1, NoTokenKeeps DEF RateInv
    <1>4. DaysInv'
        BY <1>1, NoMessageKeeps DEF RateInv
    <1>5. Earned(r)' /\ Lasting
        BY <1>1 DEF Earned, Lasting
    <1>6. RefusalsAreEarned'
        BY <1>1, <1>3, <1>4, <1>5, OthersEarned
    <1>7. QED
        BY <1>1, <1>2, <1>3, <1>4, <1>6 DEF RateInv

\* A token, where one is taken, and the request goes through or on.
LEMMA TokenTaken ==
    ASSUME RateInv, NEW r \in Requests, pc[r] = "limiting",
           ~Full(minute, limit[r]), TakeToken(r),
           NEW place \in {"counting", "handled"}, MoveTo(r, place),
           UNCHANGED <<now, days, limit, planned, countedAt, endedAt>>
    PROVE  RateInv'
    <1>1. /\ pc'[r] = place /\ \A q \in Requests \ {r} : pc'[q] = pc[q]
          /\ tokenAt[r] = Never /\ countedAt[r] = Never
          /\ \A q \in Requests \ {r} : tokenAt'[q] = tokenAt[q]
        BY DEF RateInv, RateTypeOK, OnceEach, MoveTo, TakeToken
    <1>2. minute' \in Counter
        <2>1. minute \in Counter /\ now \in Nat /\ Window \in Nat
            BY RateAssumption DEF RateInv, RateTypeOK
        <2>2. minute' = Incremented(minute, Window)
            BY DEF TakeToken
        <2>3. QED
            BY <2>1, <2>2 DEF Incremented, Counter
    <1>3. RateTypeOK'
        <2>1. pc' \in [Requests -> {"idle", "limiting", "counting", "counted?", "handled",
                                    "minuteLimited", "dayLimited"}]
            BY DEF RateInv, RateTypeOK, MoveTo
        <2>2. tokenAt' \in [Requests -> {Never} \cup 0 .. now]
            BY DEF RateInv, RateTypeOK, TakeToken
        <2>3. QED
            BY <1>2, <2>1, <2>2 DEF RateInv, RateTypeOK
    <1>4. OnceEach'
        BY <1>1 DEF RateInv, OnceEach
    <1>5. MinuteInv'
        BY TokenKeeps DEF RateInv
    <1>6. DaysInv'
        BY NoMessageKeeps DEF RateInv
    <1>7. Earned(r)' /\ Lasting
        BY <1>1 DEF Earned, Lasting
    <1>8. RefusalsAreEarned'
        BY <1>1, <1>3, <1>5, <1>6, <1>7, OthersEarned
    <1>9. QED
        BY <1>3, <1>4, <1>5, <1>6, <1>8 DEF RateInv

\* Redis fails before the script: the request goes through without a token.
LEMMA NothingTaken ==
    ASSUME RateInv, NEW r \in Requests, pc[r] \in {"limiting", "counted?"},
           MoveTo(r, "handled"),
           UNCHANGED <<now, minute, days, limit, planned, tokenAt, countedAt, endedAt>>
    PROVE  RateInv'
    <1>1. /\ pc'[r] = "handled" /\ \A q \in Requests \ {r} : pc'[q] = pc[q]
          /\ RateTypeOK'
        BY DEF RateInv, RateTypeOK, MoveTo
    <1>2. OnceEach'
        BY <1>1 DEF RateInv, OnceEach
    <1>3. MinuteInv'
        BY NoTokenKeeps DEF RateInv
    <1>4. DaysInv'
        BY NoMessageKeeps DEF RateInv
    <1>5. Earned(r)' /\ Lasting
        BY <1>1 DEF Earned, Lasting
    <1>6. RefusalsAreEarned'
        BY <1>1, <1>3, <1>4, <1>5, OthersEarned
    <1>7. QED
        BY <1>1, <1>2, <1>3, <1>4, <1>6 DEF RateInv

\* A refusal of the minute.
LEMMA RefuseMinuteKeeps ==
    ASSUME RateInv, NEW r \in Requests, RefuseMinute(r)
    PROVE  RateInv'
    <1>1. /\ pc[r] = "limiting" /\ pc'[r] = "minuteLimited" /\ endedAt'[r] = now
          /\ \A q \in Requests \ {r} : pc'[q] = pc[q] /\ endedAt'[q] = endedAt[q]
          /\ UNCHANGED <<now, minute, days, limit, planned, tokenAt, countedAt>>
          /\ Full(minute, limit[r])
        BY DEF RateInv, RateTypeOK, RefuseMinute, RefuseAs, MoveTo
    <1>2. RateTypeOK'
        BY DEF RateInv, RateTypeOK, RefuseMinute, RefuseAs, MoveTo
    <1>3. OnceEach'
        BY <1>1 DEF RateInv, OnceEach
    <1>4. MinuteInv'
        BY <1>1, NoTokenKeeps DEF RateInv
    <1>5. DaysInv'
        BY <1>1, NoMessageKeeps DEF RateInv
    <1>6. Cardinality(Tokens(now - Window + 1, Window)) >= limit[r]
        BY <1>1, FullMinute DEF RateInv
    <1>7. Earned(r)' /\ Lasting
        BY <1>1, <1>6 DEF Earned, Lasting, Tokens
    <1>8. RefusalsAreEarned'
        BY <1>1, <1>2, <1>4, <1>5, <1>7, OthersEarned
    <1>9. QED
        BY <1>2, <1>3, <1>4, <1>5, <1>8 DEF RateInv

\* A refusal of the day.
LEMMA RefuseDailyKeeps ==
    ASSUME RateInv, NEW r \in Requests, RefuseDaily(r)
    PROVE  RateInv'
    <1>1. /\ pc[r] = "counted?" /\ pc'[r] = "dayLimited" /\ endedAt'[r] = now
          /\ \A q \in Requests \ {r} : pc'[q] = pc[q] /\ endedAt'[q] = endedAt[q]
          /\ UNCHANGED <<now, minute, days, limit, planned, tokenAt, countedAt>>
          /\ Full(days[planned[r].day], DailyLimit)
        BY DEF RateInv, RateTypeOK, RefuseDaily, RefuseAs, MoveTo
    <1>2. RateTypeOK'
        BY DEF RateInv, RateTypeOK, RefuseDaily, RefuseAs, MoveTo
    <1>3. OnceEach'
        BY <1>1 DEF RateInv, OnceEach
    <1>4. MinuteInv'
        BY <1>1, NoTokenKeeps DEF RateInv
    <1>5. DaysInv'
        BY <1>1, NoMessageKeeps DEF RateInv
    <1>6. Cardinality(Charged(r, now)) >= DailyLimit
        BY <1>1, FullDay DEF RateInv
    <1>7. Charged(r, now) = Charged(r, endedAt[r])'
        BY <1>1 DEF Charged
    <1>8. Earned(r)' /\ Lasting
        BY <1>1, <1>6, <1>7 DEF Earned, Lasting
    <1>9. RefusalsAreEarned'
        BY <1>1, <1>2, <1>4, <1>5, <1>8, OthersEarned
    <1>10. QED
        BY <1>2, <1>3, <1>4, <1>5, <1>9 DEF RateInv

\* check_daily_messages before its await.
LEMMA PlanDailyKeeps ==
    ASSUME RateInv, NEW r \in Requests, PlanDaily(r)
    PROVE  RateInv'
    <1>1. PICK plan : plan = [day |-> now \div Day, ttl |-> Lifetime(now)]
        OBVIOUS
    <1>2. plan \in [day : Days, ttl : Int]
        BY <1>1, DaysInOrder, LifetimeType DEF RateInv, RateTypeOK
    <1>3. /\ pc[r] = "counting" /\ pc'[r] = "counted?"
          /\ \A q \in Requests \ {r} : pc'[q] = pc[q] /\ planned'[q] = planned[q]
          /\ UNCHANGED <<now, minute, days, limit, tokenAt, countedAt, endedAt>>
          /\ planned' = [planned EXCEPT ![r] = plan]
        BY <1>1 DEF RateInv, RateTypeOK, PlanDaily, MoveTo
    <1>4. RateTypeOK'
        BY <1>2, <1>3 DEF RateInv, RateTypeOK, PlanDaily, MoveTo
    <1>5. OnceEach'
        BY <1>3 DEF RateInv, OnceEach
    <1>6. MinuteInv'
        BY <1>3, NoTokenKeeps DEF RateInv
    <1>7. \A q \in Requests : pc[q] \in {"handled", "dayLimited"} => planned'[q] = planned[q]
        BY <1>3
    <1>8. DaysInv'
        BY <1>3, <1>7, NoMessageKeeps DEF RateInv
    <1>9. Earned(r)' /\ Lasting
        BY <1>3, <1>7 DEF Earned, Lasting
    <1>10. RefusalsAreEarned'
        BY <1>3, <1>4, <1>6, <1>8, <1>9, OthersEarned
    <1>11. QED
        BY <1>4, <1>5, <1>6, <1>8, <1>10 DEF RateInv

\* The script of the day counts the message, whether or not its reply arrives.
LEMMA MessageTaken ==
    ASSUME RateInv, NEW r \in Requests, pc[r] = "counted?", CountMessage(r),
           MoveTo(r, "handled"), UNCHANGED <<now, minute, limit, planned, tokenAt, endedAt>>
    PROVE  RateInv'
    <1>1. /\ pc'[r] = "handled" /\ \A q \in Requests \ {r} : pc'[q] = pc[q]
          /\ pc' \in [Requests -> {"idle", "limiting", "counting", "counted?", "handled",
                                   "minuteLimited", "dayLimited"}]
          /\ countedAt[r] = Never
        BY DEF RateInv, RateTypeOK, OnceEach, MoveTo
    <1>2. /\ DaysInv' /\ days' \in [Days -> Counter]
          /\ countedAt' \in [Requests -> {Never} \cup 0 .. now]
          /\ \A q \in Requests \ {r} : countedAt'[q] = countedAt[q]
        BY MessageKeeps DEF RateInv
    <1>3. RateTypeOK'
        BY <1>1, <1>2 DEF RateInv, RateTypeOK
    <1>4. OnceEach'
        BY <1>1, <1>2 DEF RateInv, OnceEach
    <1>5. MinuteInv'
        BY NoTokenKeeps DEF RateInv
    <1>6. Earned(r)' /\ Lasting
        BY <1>1, <1>2 DEF Earned, Lasting
    <1>7. RefusalsAreEarned'
        BY <1>1, <1>2, <1>3, <1>5, <1>6, OthersEarned
    <1>8. QED
        BY <1>2, <1>3, <1>4, <1>5, <1>7 DEF RateInv

\* Time, or a step of something else.
LEMMA TimeKeeps ==
    ASSUME RateInv, now < MaxNow, now' = now + 1 \/ now' = now,
           UNCHANGED <<minute, days, pc, limit, planned, tokenAt, countedAt, endedAt>>
    PROVE  RateInv'
    <1>1. now' \in Nat /\ now' <= MaxNow /\ 0 .. now \subseteq 0 .. now'
        BY RateAssumption DEF RateInv, RateTypeOK
    <1>2. RateTypeOK'
        BY <1>1 DEF RateInv, RateTypeOK
    <1>3. OnceEach' /\ RefusalsAreEarned'
        BY DEF RateInv, OnceEach, RefusalsAreEarned, Tokens
    <1>4. MinuteInv'
        BY NoTokenKeeps DEF RateInv
    <1>5. DaysInv'
        BY NoMessageKeeps DEF RateInv
    <1>6. QED
        BY <1>2, <1>3, <1>4, <1>5 DEF RateInv

\* Every step keeps the invariant.
LEMMA RateStepKeeps == RateInv /\ [RateNext]_rateVars => RateInv'
<1> SUFFICES ASSUME RateInv, [RateNext]_rateVars PROVE RateInv'
    OBVIOUS
<1>1. CASE UNCHANGED rateVars
    <2>1. UNCHANGED <<now, minute, days, pc, limit, planned, tokenAt, countedAt, endedAt>>
        BY <1>1 DEF rateVars
    <2>2. RateTypeOK' /\ OnceEach' /\ DaysInv' /\ RefusalsAreEarned'
        BY <2>1 DEF RateInv, RateTypeOK, OnceEach, DaysInv, Counted, RefusalsAreEarned, Tokens
    <2>3. MinuteInv'
        BY <2>1, NoTokenKeeps DEF RateInv
    <2>4. QED
        BY <2>2, <2>3 DEF RateInv
<1>2. CASE TimePasses
    BY <1>2, TimeKeeps DEF TimePasses
<1>3. ASSUME NEW r \in Requests, Bypass(r) \/ Arrive(r) PROVE RateInv'
    BY <1>3, ArrivalKeeps
<1>4. ASSUME NEW r \in Requests, Grant(r) PROVE RateInv'
    BY <1>4, TokenTaken DEF Grant
<1>5. ASSUME NEW r \in Requests, MinuteFailsOpen(r) PROVE RateInv'
    <2>1. CASE UNCHANGED <<minute, tokenAt>>
        BY <1>5, <2>1, NothingTaken DEF MinuteFailsOpen
    <2>2. CASE ~Full(minute, limit[r]) /\ TakeToken(r)
        BY <1>5, <2>2, TokenTaken DEF MinuteFailsOpen
    <2>3. QED
        BY <1>5, <2>1, <2>2 DEF MinuteFailsOpen
<1>6. ASSUME NEW r \in Requests, CountDaily(r) PROVE RateInv'
    BY <1>6, MessageTaken DEF CountDaily
<1>7. ASSUME NEW r \in Requests, DailyFailsOpen(r) PROVE RateInv'
    <2>1. CASE UNCHANGED <<days, countedAt>>
        BY <1>7, <2>1, NothingTaken DEF DailyFailsOpen
    <2>2. CASE CountMessage(r)
        BY <1>7, <2>2, MessageTaken DEF DailyFailsOpen
    <2>3. QED
        BY <1>7, <2>1, <2>2 DEF DailyFailsOpen
<1>8. QED
    BY <1>1, <1>2, <1>3, <1>4, <1>5, <1>6, <1>7, RefuseMinuteKeeps, RefuseDailyKeeps,
       PlanDailyKeeps DEF RateNext

-----------------------------------------------------------------------------
\* Whatever the requests, lost replies and passing time do, the counters of a
\* key stay true to the tokens and messages they stand for.
THEOREM RateInvariant == RateSpec => []RateInv
<1>1. QED
    BY RateStart, RateStepKeeps, PTL DEF RateSpec

\* While it lives, the per-minute counter is the number of tokens taken in its
\* window, and no more than the largest limit (RateLimiter::check).
THEOREM CounterIsExact == RateSpec => []CounterCountsTokens
<1>1. ASSUME RateInv, Count(minute) > 0
      PROVE  /\ Count(minute) = Cardinality(Tokens(minute.until - Window, Window))
             /\ Count(minute) <= Largest
    <2>1. /\ minute.count \in Nat /\ minute.until \in Int /\ now \in Nat
          /\ Window \in Nat \ {0}
          /\ \A q \in Requests : tokenAt[q] # Never => tokenAt[q] \in Nat
          /\ \A q \in Requests : tokenAt[q] # Never => tokenAt[q] < minute.until
        <3>1. RateTypeOK /\ MinuteInv /\ Window \in Nat \ {0}
            BY <1>1, RateAssumption DEF RateInv
        <3>2. \A q \in Requests : tokenAt[q] # Never => tokenAt[q] < minute.until
            BY <3>1 DEF MinuteInv
        <3>3. QED
            BY <3>1, <3>2 DEF RateTypeOK, Counter
    <2>2. Count(minute) = minute.count
        BY <1>1, <2>1 DEF Count
    <2>3. Tokens(minute.until - Window, Window) = Since(Opened)
        BY <2>1 DEF Tokens, Since, Opened
    <2>4. minute.count = Cardinality(Since(Opened)) /\ minute.count <= Largest
        BY <1>1 DEF RateInv, MinuteInv
    <2>5. Count(minute) = Cardinality(Tokens(minute.until - Window, Window))
        BY <2>2, <2>3, <2>4, Zenon
    <2>6. QED
        BY <2>2, <2>4, <2>5
<1>2. RateInv => CounterCountsTokens
    BY <1>1 DEF CounterCountsTokens
<1>3. QED
    BY <1>2, RateInvariant, PTL

\* No stretch as long as a window admits twice the largest limit.
THEOREM NeverTwiceTheLimit == RateSpec => []LessThanTwiceTheLimit
<1>1. RateInv => LessThanTwiceTheLimit
    BY DEF RateInv, MinuteInv
<1>2. QED
    BY <1>1, RateInvariant, PTL

\* Both kinds of 429 are earned, and stay so.
THEOREM RefusalsEarned == RateSpec => []RefusalsAreEarned
<1>1. RateInv => RefusalsAreEarned
    BY DEF RateInv
<1>2. QED
    BY <1>1, RateInvariant, PTL

=============================================================================

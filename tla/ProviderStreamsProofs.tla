------------------------ MODULE ProviderStreamsProofs ------------------------
(***************************************************************************)
(* Proofs about ProviderStreams, for every script, every bound and every   *)
(* way the network cuts the bytes: each line reaches its handler once, in  *)
(* order and with its own text; every adapter implements EventStream; and  *)
(* an adapter with a queue passes on all the text that was sent.           *)
(***************************************************************************)
EXTENDS ProviderStreams, FiniteSetTheorems, SequenceTheorems,
        WellFoundedInduction, TLAPS

-----------------------------------------------------------------------------
(* Recursion over the places of a list.                                    *)

\* A set of natural numbers that has zero and, with a number, the next one,
\* has them all.
LEMMA EveryNumber ==
    ASSUME NEW G, 0 \in G, \A n \in Nat : n \in G => n + 1 \in G
    PROVE  Nat \subseteq G
    <1> DEFINE R == OpToRel(<, Nat)
               B == Nat \ G
    <1>1. SUFFICES ASSUME B # {} PROVE FALSE
        OBVIOUS
    <1>2. IsWellFoundedOn(R, Nat)
        BY NatLessThanWellFounded
    <1>3. PICK x \in B : \A y \in B : <<y, x>> \notin R
        <2> HIDE DEF R
        <2> B \subseteq Nat
            OBVIOUS
        <2> HIDE DEF B
        <2> QED BY <1>1, <1>2, WFMin
    <1>4. x \in Nat /\ x # 0 /\ x - 1 \in Nat /\ x - 1 < x
        OBVIOUS
    <1>5. <<x - 1, x>> \in R
        BY <1>4 DEF OpToRel
    <1>6. x - 1 \in G
        BY <1>3, <1>4, <1>5
    <1>7. (x - 1) + 1 = x
        BY <1>4
    <1>8. QED
        BY <1>4, <1>6, <1>7

\* Two histories that start alike and go on alike are alike.
LEMMA SameHistory ==
    ASSUME NEW n \in Nat, NEW g, NEW h, g[0] = h[0],
           \A i \in 1 .. n : g[i - 1] = h[i - 1] => g[i] = h[i]
    PROVE  \A i \in 0 .. n : g[i] = h[i]
    <1> DEFINE A == {i \in Nat : i <= n => g[i] = h[i]}
    <1>1. 0 \in A
        OBVIOUS
    <1>2. ASSUME NEW i \in Nat, i \in A PROVE i + 1 \in A
        <2>1. SUFFICES ASSUME i + 1 <= n PROVE g[i + 1] = h[i + 1]
            OBVIOUS
        <2>2. i + 1 \in 1 .. n /\ (i + 1) - 1 = i /\ i <= n
            BY <2>1
        <2>3. g[i] = h[i]
            BY <1>2, <2>2
        <2>4. QED
            BY <2>2, <2>3
    <1>3. Nat \subseteq A
        <2> HIDE DEF A
        <2> QED BY <1>1, <1>2, EveryNumber
    <1>4. QED
        BY <1>3

\* A history in X: it starts with x0 and goes on as the steps say.
Steps(X, n) == [1 .. n -> [X -> X]]

History(X, x0, n, step, h) ==
    /\ h = [i \in 0 .. n |-> h[i]]
    /\ \A i \in 0 .. n : h[i] \in X
    /\ h[0] = x0
    /\ \A i \in 1 .. n : h[i] = step[i][h[i - 1]]

\* There is a history for every way to go on.
LEMMA Recursion ==
    ASSUME NEW X, NEW x0 \in X, NEW n \in Nat, NEW step \in Steps(X, n)
    PROVE  \E h : History(X, x0, n, step, h)
    <1> DEFINE Upto(m, h) == /\ h \in [0 .. n -> X]
                             /\ h[0] = x0
                             /\ \A i \in 1 .. n : i <= m => h[i] = step[i][h[i - 1]]
               H == {m \in Nat : \E h : Upto(m, h)}
    <1>1. 0 \in H
        <2>1. PICK h : h = [i \in 0 .. n |-> x0]
            OBVIOUS
        <2>2. Upto(0, h)
            BY <2>1
        <2>3. QED
            BY <2>2
    <1>2. ASSUME NEW m \in Nat, m \in H PROVE m + 1 \in H
        <2>1. PICK g : Upto(m, g)
            BY <1>2
        <2>2. \A i \in 1 .. n : step[i][g[i - 1]] \in X
            <3>1. TAKE i \in 1 .. n
            <3>2. g[i - 1] \in X
                BY <2>1
            <3>3. step[i] \in [X -> X]
                BY DEF Steps
            <3>4. QED
                BY <3>2, <3>3
        <2>3. PICK h : h = [i \in 0 .. n |-> IF i = 0 THEN x0
                                             ELSE step[i][g[i - 1]]]
            OBVIOUS
        <2>4. h \in [0 .. n -> X] /\ h[0] = x0
            BY <2>2, <2>3
        <2>5. \A i \in 1 .. n : h[i] = step[i][g[i - 1]]
            BY <2>3
        <2>6. \A i \in 0 .. n : i <= m => h[i] = g[i]
            BY <2>1, <2>4, <2>5
        <2>7. ASSUME NEW i \in 1 .. n, i <= m + 1 PROVE h[i] = step[i][h[i - 1]]
            <3>1. i - 1 \in 0 .. n /\ i - 1 <= m
                BY <2>7
            <3>2. h[i - 1] = g[i - 1]
                BY <2>6, <3>1
            <3>3. QED
                BY <2>5, <3>2
        <2>8. Upto(m + 1, h)
            BY <2>4, <2>7
        <2> HIDE DEF Upto
        <2>9. QED
            BY <2>8
    <1>3. Nat \subseteq H
        <2> HIDE DEF H
        <2> QED BY <1>1, <1>2, EveryNumber
    <1>4. PICK h : Upto(n, h)
        BY <1>3
    <1>5. History(X, x0, n, step, h)
        BY <1>4 DEF History
    <1>6. QED
        BY <1>5

-----------------------------------------------------------------------------
(* The bytes of the wire and the text decoded from them.                   *)

\* Bytes and characters.
Signs == {"newline", "replacement", "ascii", "lead", "continuation", "character"}
Letters == [b : Signs, f : Nat]

LEMMA SignsAreLetters ==
    /\ Newline \in Letters /\ Replacement \in Letters
    /\ \A f \in Nat : /\ Ascii(f) \in Letters /\ Lead(f) \in Letters
                      /\ Continuation(f) \in Letters /\ Character(f) \in Letters
    <1>1. \A b \in Signs, f \in Nat : [b |-> b, f |-> f] \in Letters
        BY DEF Letters
    <1>2. 0 \in Nat
        OBVIOUS
    <1>3. /\ "newline" \in Signs /\ "replacement" \in Signs
          /\ "ascii" \in Signs /\ "lead" \in Signs
          /\ "continuation" \in Signs /\ "character" \in Signs
        BY DEF Signs
    <1>4. QED
        BY <1>1, <1>2, <1>3, Zenon
            DEF Newline, Replacement, Ascii, Lead, Continuation, Character

\* A list t that has three letters more than a list s of L letters.
ThreeMore(s, L, t, x, y, z) ==
    /\ t \in Seq(Letters) /\ Len(t) = L + 3
    /\ \A i \in 1 .. L : t[i] = s[i]
    /\ t[L + 1] = x
    /\ t[L + 2] = y
    /\ t[L + 3] = z

LEMMA AppendThree ==
    ASSUME NEW s \in Seq(Letters), NEW x \in Letters, NEW y \in Letters,
           NEW z \in Letters
    PROVE  ThreeMore(s, Len(s), s \o <<x, y, z>>, x, y, z)
    BY DEF ThreeMore

\* A list t that has four letters more than a list s of L letters.
FourMore(s, L, t, x, y, z, w) ==
    /\ t \in Seq(Letters) /\ Len(t) = L + 4
    /\ \A i \in 1 .. L : t[i] = s[i]
    /\ t[L + 1] = x
    /\ t[L + 2] = y
    /\ t[L + 3] = z
    /\ t[L + 4] = w

LEMMA AppendFour ==
    ASSUME NEW s \in Seq(Letters), NEW x \in Letters, NEW y \in Letters,
           NEW z \in Letters, NEW w \in Letters
    PROVE  FourMore(s, Len(s), s \o <<x, y, z, w>>, x, y, z, w)
    BY DEF FourMore

\* The bytes of n lines, the last of which may be damaged.
AreLines(n, dm, bytes) ==
    /\ bytes \in Seq(Letters)
    /\ Len(bytes) = 4 * n - (IF n = dm /\ n # 0 THEN 1 ELSE 0)
    /\ \A f \in 1 .. n :
        /\ bytes[4 * f - 3] = Ascii(f)
        /\ bytes[4 * f - 2] = Lead(f)
        /\ bytes[4 * f - 1] = IF f = dm THEN Newline ELSE Continuation(f)
        /\ f # dm => bytes[4 * f] = Newline

\* One line more.
LEMMA OneLineMore ==
    ASSUME NEW n \in Nat, NEW dm \in Nat, NEW bytes, n # dm \/ n = 0,
           AreLines(n, dm, bytes)
    PROVE  AreLines(n + 1, dm, bytes \o Line(n + 1, dm))
    <1>1. bytes \in Seq(Letters) /\ Len(bytes) = 4 * n
        BY DEF AreLines
    <1>2. /\ Ascii(n + 1) \in Letters /\ Lead(n + 1) \in Letters
          /\ Continuation(n + 1) \in Letters /\ Newline \in Letters
        BY SignsAreLetters
    <1>3. PICK more : more = bytes \o Line(n + 1, dm)
        OBVIOUS
    <1>4. CASE n + 1 = dm
        <2>1. more = bytes \o <<Ascii(n + 1), Lead(n + 1), Newline>>
            <3>1. Line(n + 1, dm) = <<Ascii(n + 1), Lead(n + 1), Newline>>
                BY <1>4, Zenon DEF Line
            <3>2. QED
                BY <1>3, <3>1
        <2>2. /\ more \in Seq(Letters) /\ Len(more) = 4 * n + 3
              /\ \A i \in 1 .. 4 * n : more[i] = bytes[i]
              /\ more[4 * n + 1] = Ascii(n + 1)
              /\ more[4 * n + 2] = Lead(n + 1)
              /\ more[4 * n + 3] = Newline
            <3>1. ThreeMore(bytes, Len(bytes),
                      bytes \o <<Ascii(n + 1), Lead(n + 1), Newline>>,
                      Ascii(n + 1), Lead(n + 1), Newline)
                BY <1>1, <1>2, AppendThree, Zenon
            <3>2. QED
                BY <1>1, <2>1, <3>1, Zenon DEF ThreeMore
        <2>3. \A f \in 1 .. n + 1 :
                /\ more[4 * f - 3] = Ascii(f)
                /\ more[4 * f - 2] = Lead(f)
                /\ more[4 * f - 1] = IF f = dm THEN Newline ELSE Continuation(f)
                /\ f # dm => more[4 * f] = Newline
            <3>1. TAKE f \in 1 .. n + 1
            <3>2. CASE f = n + 1
                <4>1. /\ 4 * f - 3 = 4 * n + 1 /\ 4 * f - 2 = 4 * n + 2
                      /\ 4 * f - 1 = 4 * n + 3
                    BY <3>2
                <4>2. QED
                    BY <1>4, <2>2, <3>2, <4>1
            <3>3. CASE f # n + 1
                <4>1. f \in 1 .. n /\ f # dm
                    BY <1>4, <3>3
                <4>2. /\ 4 * f - 3 \in 1 .. 4 * n /\ 4 * f - 2 \in 1 .. 4 * n
                      /\ 4 * f - 1 \in 1 .. 4 * n /\ 4 * f \in 1 .. 4 * n
                    BY <4>1
                <4>3. QED
                    BY <2>2, <4>1, <4>2 DEF AreLines
            <3>4. QED
                BY <3>2, <3>3
        <2>4. Len(more) = 4 * (n + 1) - (IF n + 1 = dm /\ n + 1 # 0 THEN 1 ELSE 0)
            BY <1>4, <2>2
        <2>5. AreLines(n + 1, dm, more)
            BY <2>2, <2>3, <2>4, Zenon DEF AreLines
        <2>6. QED
            BY <1>3, <2>5
    <1>5. CASE n + 1 # dm
        <2>1. more = bytes \o <<Ascii(n + 1), Lead(n + 1), Continuation(n + 1), Newline>>
            <3>1. Line(n + 1, dm)
                    = <<Ascii(n + 1), Lead(n + 1), Continuation(n + 1), Newline>>
                BY <1>5, Zenon DEF Line
            <3>2. QED
                BY <1>3, <3>1
        <2>2. /\ more \in Seq(Letters) /\ Len(more) = 4 * n + 4
              /\ \A i \in 1 .. 4 * n : more[i] = bytes[i]
              /\ more[4 * n + 1] = Ascii(n + 1)
              /\ more[4 * n + 2] = Lead(n + 1)
              /\ more[4 * n + 3] = Continuation(n + 1)
              /\ more[4 * n + 4] = Newline
            <3>1. FourMore(bytes, Len(bytes),
                      bytes \o <<Ascii(n + 1), Lead(n + 1), Continuation(n + 1), Newline>>,
                      Ascii(n + 1), Lead(n + 1), Continuation(n + 1), Newline)
                BY <1>1, <1>2, AppendFour, Zenon
            <3>2. QED
                BY <1>1, <2>1, <3>1, Zenon DEF FourMore
        <2>3. \A f \in 1 .. n + 1 :
                /\ more[4 * f - 3] = Ascii(f)
                /\ more[4 * f - 2] = Lead(f)
                /\ more[4 * f - 1] = IF f = dm THEN Newline ELSE Continuation(f)
                /\ f # dm => more[4 * f] = Newline
            <3>1. TAKE f \in 1 .. n + 1
            <3>2. CASE f = n + 1
                <4>1. /\ 4 * f - 3 = 4 * n + 1 /\ 4 * f - 2 = 4 * n + 2
                      /\ 4 * f - 1 = 4 * n + 3 /\ 4 * f = 4 * n + 4
                    BY <3>2
                <4>2. QED
                    BY <1>5, <2>2, <3>2, <4>1
            <3>3. CASE f # n + 1
                <4>1. f \in 1 .. n
                    BY <3>3
                <4>3. /\ 4 * f - 3 \in 1 .. 4 * n /\ 4 * f - 2 \in 1 .. 4 * n
                      /\ 4 * f - 1 \in 1 .. 4 * n /\ 4 * f \in 1 .. 4 * n
                    BY <4>1
                <4>4. QED
                    BY <2>2, <4>1, <4>3 DEF AreLines
            <3>4. QED
                BY <3>2, <3>3
        <2>4. Len(more) = 4 * (n + 1) - (IF n + 1 = dm /\ n + 1 # 0 THEN 1 ELSE 0)
            BY <1>5, <2>2
        <2>5. AreLines(n + 1, dm, more)
            BY <2>2, <2>3, <2>4, Zenon DEF AreLines
        <2>6. QED
            BY <1>3, <2>5
    <1>6. QED
        BY <1>4, <1>5

\* The bytes of a script, line by line.
BytesSoFar(n, dm, bytes) ==
    bytes = [f \in 0 .. n |->
                IF f = 0 THEN <<>> ELSE bytes[f - 1] \o Line(f, dm)]

LEMMA LinesAreLetters ==
    ASSUME NEW f \in Nat, NEW dm
    PROVE  Line(f, dm) \in Seq(Letters)
    <1>1. /\ Ascii(f) \in Letters /\ Lead(f) \in Letters
          /\ Continuation(f) \in Letters /\ Newline \in Letters
        BY SignsAreLetters
    <1>2. QED
        BY <1>1 DEF Line

LEMMA BytesAre ==
    ASSUME NEW n \in Nat, NEW dm \in {0, n}
    PROVE  AreLines(n, dm, Bytes(n, dm))
    <1> DEFINE X == Seq(Letters)
    <1>1. PICK step \in Steps(X, n) :
              \A f \in 1 .. n : \A x \in X : step[f][x] = x \o Line(f, dm)
        <2>1. PICK step : step = [f \in 1 .. n |-> [x \in X |-> x \o Line(f, dm)]]
            OBVIOUS
        <2>2. \A f \in 1 .. n : \A x \in X : x \o Line(f, dm) \in X
            BY LinesAreLetters
        <2> HIDE DEF X
        <2>3. step \in Steps(X, n)
            BY <2>1, <2>2, Zenon DEF Steps
        <2>4. \A f \in 1 .. n : \A x \in X : step[f][x] = x \o Line(f, dm)
            BY <2>1, Zenon
        <2>5. QED
            BY <2>3, <2>4, Zenon
    <1>2. <<>> \in X
        OBVIOUS
    <1>3. PICK h : History(X, <<>>, n, step, h)
        <2> HIDE DEF X
        <2> QED BY <1>2, Recursion, Zenon
    <1>4. \A f \in 1 .. n : h[f] = h[f - 1] \o Line(f, dm)
        <2>1. \A f \in 1 .. n : f - 1 \in 0 .. n
            OBVIOUS
        <2>2. \A f \in 1 .. n : h[f - 1] \in X
            BY <1>3, <2>1, Zenon DEF History
        <2> HIDE DEF X
        <2>3. QED
            BY <1>1, <1>3, <2>2, Zenon DEF History
    <1>5. BytesSoFar(n, dm, h)
        <2>1. \A f \in 0 .. n : f = 0 \/ f \in 1 .. n
            OBVIOUS
        <2>2. \A f \in 0 .. n :
                 h[f] = IF f = 0 THEN <<>> ELSE h[f - 1] \o Line(f, dm)
            <3>1. \A f \in 1 .. n : f # 0
                OBVIOUS
            <3>2. QED
                BY <1>3, <1>4, <2>1, <3>1, Zenon DEF History
        <2> HIDE DEF X
        <2>3. h = [f \in 0 .. n |-> h[f]]
            BY <1>3, Zenon DEF History
        <2>4. QED
            BY <2>2, <2>3, Zenon DEF BytesSoFar
    <1> DEFINE chosen == CHOOSE bytes : BytesSoFar(n, dm, bytes)
    <1>6. BytesSoFar(n, dm, chosen)
        BY <1>5
    <1>7. Bytes(n, dm) = chosen[n]
        BY DEF Bytes, BytesSoFar
    <1> HIDE DEF chosen
    <1>8. PICK c : BytesSoFar(n, dm, c) /\ Bytes(n, dm) = c[n]
        BY <1>6, <1>7
    <1>9. c[0] = <<>> /\ \A f \in 1 .. n : c[f] = c[f - 1] \o Line(f, dm)
        <2>1. 0 \in 0 .. n /\ \A f \in 1 .. n : f \in 0 .. n /\ f # 0
            OBVIOUS
        <2>2. QED
            BY <1>8, <2>1, Zenon DEF BytesSoFar
    <1> DEFINE A == {f \in Nat : f <= n => AreLines(f, dm, c[f])}
    <1>10. 0 \in A
        <2>1. AreLines(0, dm, <<>>)
            BY DEF AreLines
        <2>2. QED
            BY <1>9, <2>1, Zenon
    <1>11. ASSUME NEW f \in Nat, f \in A PROVE f + 1 \in A
        <2>1. SUFFICES ASSUME f + 1 <= n PROVE AreLines(f + 1, dm, c[f + 1])
            OBVIOUS
        <2>2. /\ f <= n /\ f + 1 \in 1 .. n /\ (f + 1) - 1 = f
              /\ f # dm \/ f = 0
            BY <2>1
        <2>3. AreLines(f, dm, c[f])
            BY <1>11, <2>2
        <2>4. AreLines(f + 1, dm, c[f] \o Line(f + 1, dm))
            BY <2>2, <2>3, OneLineMore
        <2>5. QED
            BY <1>9, <2>2, <2>4
    <1>12. Nat \subseteq A
        <2> HIDE DEF A
        <2> QED BY <1>10, <1>11, EveryNumber
    <1>13. QED
        BY <1>8, <1>12

-----------------------------------------------------------------------------
(* Decoding.                                                               *)

Buffers == [text : Seq(Letters), pending : Seq(Letters)]

\* The character at place p of the text of all lines.
IsChar(dm, p, c) ==
    \A f \in Nat :
        /\ p = 3 * f - 2 => c = Ascii(f)
        /\ p = 3 * f - 1 => c = IF f = dm THEN Replacement ELSE Character(f)
        /\ p = 3 * f => c = Newline

\* The text of the lines after the first h.
CharsAre(dm, chars, h) ==
    \A i \in 1 .. Len(chars) : IsChar(dm, i + 3 * h, chars[i])

\* Where g bytes of n lines end: l lines and k bytes, which decode to so many
\* characters.
EndsAt(n, dm, g, l, k) ==
    /\ l \in 0 .. n /\ k \in 0 .. 3 /\ g = 4 * l + k
    /\ l = n => k = 0 /\ dm = 0

DecodedLen(dm, l, k) ==
    3 * l + (IF k = 0 THEN 0 ELSE IF k # 3 THEN 1 ELSE IF l + 1 = dm THEN 3 ELSE 2)

\* A buffer has the text of g bytes of n lines, without the first h lines.
DecodingAt(dm, d, h, l, k) ==
    /\ d.pending = IF k = 2 THEN <<Lead(l + 1)>> ELSE <<>>
    /\ 3 * h + Len(d.text) = DecodedLen(dm, l, k)

Decoding(n, dm, d, g, h) ==
    /\ d \in Buffers
    /\ CharsAre(dm, d.text, h)
    /\ \E l, k \in Nat : EndsAt(n, dm, g, l, k) /\ DecodingAt(dm, d, h, l, k)

LEMMA CharsOfALine ==
    ASSUME NEW l \in Nat, NEW dm \in Nat
    PROVE  /\ IsChar(dm, 3 * l + 1, Ascii(l + 1))
           /\ IsChar(dm, 3 * l + 2, IF l + 1 = dm THEN Replacement
                                    ELSE Character(l + 1))
           /\ IsChar(dm, 3 * l + 3, Newline)
    <1>1. \A f \in Nat : 3 * l + 1 = 3 * f - 2 => f = l + 1
        OBVIOUS
    <1>2. \A f \in Nat : 3 * l + 1 # 3 * f - 1 /\ 3 * l + 1 # 3 * f
        OBVIOUS
    <1>3. \A f \in Nat : 3 * l + 2 = 3 * f - 1 => f = l + 1
        OBVIOUS
    <1>4. \A f \in Nat : 3 * l + 2 # 3 * f - 2 /\ 3 * l + 2 # 3 * f
        OBVIOUS
    <1>5. \A f \in Nat : 3 * l + 3 # 3 * f - 2 /\ 3 * l + 3 # 3 * f - 1
        OBVIOUS
    <1>6. QED
        BY <1>1, <1>2, <1>3, <1>4, <1>5, Zenon DEF IsChar

\* Text that goes to place p of the text of all lines.
TextTo(dm, chars, h, p) ==
    /\ chars \in Seq(Letters)
    /\ CharsAre(dm, chars, h)
    /\ 3 * h + Len(chars) = p

\* One character more.
LEMMA CharMore ==
    ASSUME NEW dm, NEW chars, NEW h \in Nat, NEW p \in Nat,
           TextTo(dm, chars, h, p), NEW c \in Letters, NEW q, q = p + 1,
           IsChar(dm, q, c)
    PROVE  TextTo(dm, Append(chars, c), h, q)
    <1>0. chars \in Seq(Letters) /\ CharsAre(dm, chars, h) /\ 3 * h + Len(chars) = p
        BY DEF TextTo
    <1>1. /\ Append(chars, c) \in Seq(Letters)
          /\ Len(Append(chars, c)) = Len(chars) + 1
          /\ \A i \in 1 .. Len(chars) : Append(chars, c)[i] = chars[i]
          /\ Append(chars, c)[Len(chars) + 1] = c
        BY <1>0, AppendProperties
    <1>2. PICK more : more = Append(chars, c)
        OBVIOUS
    <1>3. Len(chars) \in Nat
        BY <1>0
    <1>4. ASSUME NEW i \in 1 .. Len(more) PROVE IsChar(dm, i + 3 * h, more[i])
        <2>1. CASE i = Len(chars) + 1
            <3>1. i + 3 * h = q
                BY <1>0, <1>3, <2>1
            <3>2. more[i] = c
                BY <1>1, <1>2, <2>1, Zenon
            <3>3. QED
                BY <3>1, <3>2, Zenon
        <2>2. CASE i # Len(chars) + 1
            <3>1. i \in 1 .. Len(chars)
                BY <1>1, <1>2, <1>3, <2>2
            <3>2. QED
                BY <1>0, <1>1, <1>2, <3>1, Zenon DEF CharsAre
        <2>3. QED
            BY <2>1, <2>2
    <1>5. CharsAre(dm, more, h)
        BY <1>4 DEF CharsAre
    <1>6. 3 * h + Len(more) = q
        BY <1>0, <1>1, <1>2, <1>3
    <1>7. QED
        BY <1>1, <1>2, <1>5, <1>6, Zenon DEF TextTo

\* What the bytes of a line do to a buffer.
LEMMA DecodeCases ==
    ASSUME NEW d, NEW f
    PROVE  /\ d.pending = <<>> =>
                /\ DecodeByte(d, Ascii(f)) = [text |-> Append(d.text, Ascii(f)),
                                              pending |-> <<>>]
                /\ DecodeByte(d, Lead(f)) = [text |-> d.text, pending |-> <<Lead(f)>>]
                /\ DecodeByte(d, Newline) = [text |-> Append(d.text, Newline),
                                             pending |-> <<>>]
           /\ d.pending # <<>> =>
                /\ DecodeByte(d, Continuation(f))
                     = [text |-> Append(d.text, Character(f)), pending |-> <<>>]
                /\ DecodeByte(d, Newline)
                     = [text |-> Append(Append(d.text, Replacement), Newline),
                        pending |-> <<>>]
    <1>1. /\ Ascii(f).b = "ascii" /\ Lead(f).b = "lead" /\ Newline.b = "newline"
          /\ Continuation(f).b = "continuation" /\ Continuation(f).f = f
        BY DEF Ascii, Lead, Newline, Continuation
    <1>2. /\ "ascii" # "lead" /\ "ascii" # "continuation" /\ "lead" # "continuation"
          /\ "newline" # "lead" /\ "newline" # "continuation"
        OBVIOUS
    <1>3. ASSUME d.pending = <<>>
          PROVE  /\ DecodeByte(d, Ascii(f)) = [text |-> Append(d.text, Ascii(f)),
                                               pending |-> <<>>]
                 /\ DecodeByte(d, Newline) = [text |-> Append(d.text, Newline),
                                              pending |-> <<>>]
        BY <1>1, <1>2, <1>3 DEF DecodeByte
    <1>4. ASSUME d.pending = <<>>
          PROVE  DecodeByte(d, Lead(f)) = [text |-> d.text, pending |-> <<Lead(f)>>]
        BY <1>1, <1>2, <1>4 DEF DecodeByte
    <1>5. ASSUME d.pending # <<>>
          PROVE  DecodeByte(d, Continuation(f))
                    = [text |-> Append(d.text, Character(f)), pending |-> <<>>]
        BY <1>1, <1>2, <1>5 DEF DecodeByte
    <1>6. ASSUME d.pending # <<>>
          PROVE  DecodeByte(d, Newline)
                    = [text |-> Append(Append(d.text, Replacement), Newline),
                       pending |-> <<>>]
        BY <1>1, <1>2, <1>6 DEF DecodeByte
    <1>7. QED
        BY <1>3, <1>4, <1>5, <1>6, Zenon

\* How to show that a buffer is right.
LEMMA DecodingIs ==
    ASSUME NEW n, NEW dm, NEW g, NEW h, NEW t, NEW q \in Seq(Letters),
           NEW l \in Nat, NEW k \in Nat, EndsAt(n, dm, g, l, k),
           q = IF k = 2 THEN <<Lead(l + 1)>> ELSE <<>>,
           TextTo(dm, t, h, DecodedLen(dm, l, k))
    PROVE  Decoding(n, dm, [text |-> t, pending |-> q], g, h)
    <1>1. PICK d : d = [text |-> t, pending |-> q]
        OBVIOUS
    <1>2. d.text = t /\ d.pending = q
        BY <1>1
    <1>3. d \in Buffers
        BY <1>1 DEF Buffers, TextTo
    <1>4. DecodingAt(dm, d, h, l, k)
        BY <1>2, Zenon DEF DecodingAt, TextTo
    <1>5. Decoding(n, dm, d, g, h)
        BY <1>2, <1>3, <1>4, Zenon DEF Decoding, TextTo
    <1>6. QED
        BY <1>1, <1>5

\* One byte more.
LEMMA DecodeStep ==
    ASSUME NEW n \in Nat, NEW dm \in {0, n}, NEW bytes, AreLines(n, dm, bytes),
           NEW d, NEW g \in Nat, NEW h \in Nat, Decoding(n, dm, d, g, h),
           g < Len(bytes)
    PROVE  Decoding(n, dm, DecodeByte(d, bytes[g + 1]), g + 1, h)
    <1>1. PICK l \in Nat, k \in Nat : EndsAt(n, dm, g, l, k) /\ DecodingAt(dm, d, h, l, k)
        BY DEF Decoding
    <1>2. /\ d.pending = IF k = 2 THEN <<Lead(l + 1)>> ELSE <<>>
          /\ TextTo(dm, d.text, h, DecodedLen(dm, l, k))
        BY <1>1 DEF Decoding, Buffers, DecodingAt, TextTo
    <1>3. Len(bytes) = 4 * n - (IF n = dm /\ n # 0 THEN 1 ELSE 0)
        BY DEF AreLines
    <1>4. l \in 0 .. n /\ k \in 0 .. 3 /\ g = 4 * l + k /\ (l = n => k = 0 /\ dm = 0)
        BY <1>1 DEF EndsAt
    <1>5. l < n /\ l + 1 \in 1 .. n
        BY <1>3, <1>4
    <1>6. /\ bytes[4 * (l + 1) - 3] = Ascii(l + 1)
          /\ bytes[4 * (l + 1) - 2] = Lead(l + 1)
          /\ bytes[4 * (l + 1) - 1] = IF l + 1 = dm THEN Newline
                                      ELSE Continuation(l + 1)
          /\ l + 1 # dm => bytes[4 * (l + 1)] = Newline
        BY <1>5, Zenon DEF AreLines
    <1>7. /\ IsChar(dm, 3 * l + 1, Ascii(l + 1))
          /\ IsChar(dm, 3 * l + 2, IF l + 1 = dm THEN Replacement
                                   ELSE Character(l + 1))
          /\ IsChar(dm, 3 * l + 3, Newline)
        BY CharsOfALine
    <1>8. /\ Ascii(l + 1) \in Letters /\ Lead(l + 1) \in Letters
          /\ Character(l + 1) \in Letters /\ Newline \in Letters
          /\ Replacement \in Letters
        BY SignsAreLetters
    <1>9. /\ <<>> \in Seq(Letters) /\ <<Lead(l + 1)>> \in Seq(Letters)
          /\ <<Lead(l + 1)>> # <<>>
        BY <1>8
    <1>10. /\ 3 * l \in Nat /\ 3 * l + 1 \in Nat /\ 3 * l + 2 \in Nat
           /\ 3 * l + 2 = (3 * l + 1) + 1 /\ 3 * l + 3 = (3 * l + 2) + 1
        OBVIOUS
    <1>11. CASE k = 0
        <2>1. d.pending = <<>> /\ TextTo(dm, d.text, h, 3 * l)
            <3>1. DecodedLen(dm, l, k) = 3 * l
                BY <1>11 DEF DecodedLen
            <3>2. k # 2
                BY <1>11
            <3>3. QED
                BY <1>2, <3>1, <3>2, Zenon
        <2>2. bytes[g + 1] = Ascii(l + 1)
            <3>1. g + 1 = 4 * (l + 1) - 3
                BY <1>4, <1>11
            <3>2. QED
                BY <1>6, <3>1, Zenon
        <2>3. PICK t : t = Append(d.text, Ascii(l + 1))
            OBVIOUS
        <2>4. TextTo(dm, t, h, 3 * l + 1)
            BY <1>7, <1>8, <1>10, <2>1, <2>3, CharMore, Zenon
        <2>5. EndsAt(n, dm, g + 1, l, 1)
            BY <1>4, <1>5, <1>11 DEF EndsAt
        <2>6. DecodedLen(dm, l, 1) = 3 * l + 1
            BY DEF DecodedLen
        <2>7. <<>> = IF 1 = 2 THEN <<Lead(l + 1)>> ELSE <<>>
            OBVIOUS
        <2>8. Decoding(n, dm, [text |-> t, pending |-> <<>>], g + 1, h)
            BY <1>9, <2>4, <2>5, <2>6, <2>7, DecodingIs
        <2>9. QED
            BY <2>1, <2>2, <2>3, <2>8, DecodeCases, Zenon
    <1>12. CASE k = 1
        <2>1. d.pending = <<>> /\ TextTo(dm, d.text, h, 3 * l + 1)
            <3>1. DecodedLen(dm, l, k) = 3 * l + 1
                BY <1>12 DEF DecodedLen
            <3>2. k # 2
                BY <1>12
            <3>3. QED
                BY <1>2, <3>1, <3>2, Zenon
        <2>2. bytes[g + 1] = Lead(l + 1)
            <3>1. g + 1 = 4 * (l + 1) - 2
                BY <1>4, <1>12
            <3>2. QED
                BY <1>6, <3>1, Zenon
        <2>3. EndsAt(n, dm, g + 1, l, 2)
            BY <1>4, <1>5, <1>12 DEF EndsAt
        <2>4. DecodedLen(dm, l, 2) = 3 * l + 1
            BY DEF DecodedLen
        <2>5. <<Lead(l + 1)>> = IF 2 = 2 THEN <<Lead(l + 1)>> ELSE <<>>
            OBVIOUS
        <2>6. Decoding(n, dm, [text |-> d.text, pending |-> <<Lead(l + 1)>>], g + 1, h)
            BY <1>9, <2>1, <2>3, <2>4, <2>5, DecodingIs, Zenon
        <2>7. QED
            BY <2>1, <2>2, <2>6, DecodeCases, Zenon
    <1>13. CASE k = 2
        <2>1. d.pending # <<>> /\ TextTo(dm, d.text, h, 3 * l + 1)
            <3>1. DecodedLen(dm, l, k) = 3 * l + 1
                BY <1>13 DEF DecodedLen
            <3>2. d.pending = <<Lead(l + 1)>>
                BY <1>2, <1>13
            <3>3. QED
                BY <1>2, <1>9, <3>1, <3>2, Zenon
        <2>2. g + 1 = 4 * (l + 1) - 1
            BY <1>4, <1>13
        <2>3. EndsAt(n, dm, g + 1, l, 3)
            BY <1>4, <1>5, <1>13 DEF EndsAt
        <2>4. <<>> = IF 3 = 2 THEN <<Lead(l + 1)>> ELSE <<>>
            OBVIOUS
        <2>5. CASE l + 1 = dm
            <3>1. bytes[g + 1] = Newline
                BY <1>6, <2>2, <2>5, Zenon
            <3>2. PICK s : s = Append(d.text, Replacement)
                OBVIOUS
            <3>3. TextTo(dm, s, h, 3 * l + 2)
                BY <1>7, <1>8, <1>10, <2>1, <2>5, <3>2, CharMore, Zenon
            <3>4. PICK t : t = Append(s, Newline)
                OBVIOUS
            <3>5. TextTo(dm, t, h, 3 * l + 3)
                BY <1>7, <1>8, <1>10, <3>3, <3>4, CharMore, Zenon
            <3>6. DecodedLen(dm, l, 3) = 3 * l + 3
                BY <2>5 DEF DecodedLen
            <3>7. Decoding(n, dm, [text |-> t, pending |-> <<>>], g + 1, h)
                BY <1>9, <2>3, <2>4, <3>5, <3>6, DecodingIs
            <3>8. QED
                BY <2>1, <3>1, <3>2, <3>4, <3>7, DecodeCases, Zenon
        <2>6. CASE l + 1 # dm
            <3>1. bytes[g + 1] = Continuation(l + 1)
                BY <1>6, <2>2, <2>6, Zenon
            <3>2. PICK t : t = Append(d.text, Character(l + 1))
                OBVIOUS
            <3>3. TextTo(dm, t, h, 3 * l + 2)
                BY <1>7, <1>8, <1>10, <2>1, <2>6, <3>2, CharMore, Zenon
            <3>4. DecodedLen(dm, l, 3) = 3 * l + 2
                BY <2>6 DEF DecodedLen
            <3>5. Decoding(n, dm, [text |-> t, pending |-> <<>>], g + 1, h)
                BY <1>9, <2>3, <2>4, <3>3, <3>4, DecodingIs
            <3>6. QED
                BY <2>1, <3>1, <3>2, <3>5, DecodeCases, Zenon
        <2>7. QED
            BY <2>5, <2>6
    <1>14. CASE k = 3
        <2>1. l + 1 # dm
            BY <1>3, <1>4, <1>5, <1>14
        <2>2. d.pending = <<>> /\ TextTo(dm, d.text, h, 3 * l + 2)
            <3>1. DecodedLen(dm, l, k) = 3 * l + 2
                BY <1>14, <2>1 DEF DecodedLen
            <3>2. k # 2
                BY <1>14
            <3>3. QED
                BY <1>2, <3>1, <3>2, Zenon
        <2>3. bytes[g + 1] = Newline
            <3>1. g + 1 = 4 * (l + 1)
                BY <1>4, <1>14
            <3>2. QED
                BY <1>6, <2>1, <3>1, Zenon
        <2>4. PICK t : t = Append(d.text, Newline)
            OBVIOUS
        <2>5. TextTo(dm, t, h, 3 * l + 3)
            BY <1>7, <1>8, <1>10, <2>2, <2>4, CharMore, Zenon
        <2>6. EndsAt(n, dm, g + 1, l + 1, 0)
            BY <1>4, <1>5, <1>14, <2>1 DEF EndsAt
        <2>7. DecodedLen(dm, l + 1, 0) = 3 * l + 3
            BY DEF DecodedLen
        <2>8. <<>> = IF 0 = 2 THEN <<Lead((l + 1) + 1)>> ELSE <<>>
            OBVIOUS
        <2>9. Decoding(n, dm, [text |-> t, pending |-> <<>>], g + 1, h)
            <3>1. l + 1 \in Nat /\ 0 \in Nat
                OBVIOUS
            <3>2. QED
                BY <1>9, <2>5, <2>6, <2>7, <2>8, <3>1, DecodingIs
        <2>10. QED
            BY <2>2, <2>3, <2>4, <2>9, DecodeCases, Zenon
    <1>15. QED
        BY <1>4, <1>11, <1>12, <1>13, <1>14

LEMMA DecodeByteIsABuffer ==
    ASSUME NEW d \in Buffers, NEW byte \in Letters
    PROVE  DecodeByte(d, byte) \in Buffers
    <1> DEFINE kept == IF d.pending # <<>> /\ byte.b # "continuation"
                       THEN Append(d.text, Replacement) ELSE d.text
    <1>1. d.text \in Seq(Letters) /\ Replacement \in Letters
        BY SignsAreLetters DEF Buffers
    <1>2. kept \in Seq(Letters)
        BY <1>1
    <1>3. byte.f \in Nat
        BY DEF Letters
    <1>4. Character(byte.f) \in Letters
        BY <1>3, SignsAreLetters
    <1> DEFINE char == IF d.pending # <<>> THEN Character(byte.f) ELSE Replacement
    <1>5. char \in Letters
        BY <1>1, <1>4
    <1>6. DecodeByte(d, byte) =
            CASE byte.b = "lead" -> [text |-> kept, pending |-> <<byte>>]
              [] byte.b = "continuation" ->
                   [text |-> Append(kept, char), pending |-> <<>>]
              [] OTHER -> [text |-> Append(kept, byte), pending |-> <<>>]
        BY DEF DecodeByte
    <1> HIDE DEF kept, char
    <1>7. /\ [text |-> kept, pending |-> <<byte>>] \in Buffers
          /\ [text |-> Append(kept, char), pending |-> <<>>] \in Buffers
          /\ [text |-> Append(kept, byte), pending |-> <<>>] \in Buffers
        BY <1>2, <1>5 DEF Buffers
    <1>8. PICK x, y, z : /\ x = [text |-> kept, pending |-> <<byte>>]
                         /\ y = [text |-> Append(kept, char), pending |-> <<>>]
                         /\ z = [text |-> Append(kept, byte), pending |-> <<>>]
        OBVIOUS
    <1>9. x \in Buffers /\ y \in Buffers /\ z \in Buffers
        BY <1>7, <1>8, Zenon
    <1>10. DecodeByte(d, byte) = CASE byte.b = "lead" -> x
                                   [] byte.b = "continuation" -> y
                                   [] OTHER -> z
        BY <1>6, <1>8, Zenon
    <1>11. QED
        BY <1>9, <1>10

\* The buffer after each byte of a chunk.
PushSoFar(d, bytes, decoded) ==
    decoded = [i \in 0 .. Len(bytes) |->
                 IF i = 0 THEN d ELSE DecodeByte(decoded[i - 1], bytes[i])]

LEMMA PushIs ==
    ASSUME NEW d \in Buffers, NEW bytes \in Seq(Letters)
    PROVE  \E c : /\ c[0] = d
                  /\ \A i \in 1 .. Len(bytes) : c[i] = DecodeByte(c[i - 1], bytes[i])
                  /\ PushUtf8(d, bytes) = c[Len(bytes)]
    <1>0. PICK n \in Nat : n = Len(bytes)
        OBVIOUS
    <1>1. PICK step \in Steps(Buffers, n) :
              \A i \in 1 .. n : \A x \in Buffers : step[i][x] = DecodeByte(x, bytes[i])
        <2>1. PICK step : step = [i \in 1 .. n |->
                                    [x \in Buffers |-> DecodeByte(x, bytes[i])]]
            OBVIOUS
        <2>2. \A i \in 1 .. n : bytes[i] \in Letters
            BY <1>0
        <2>3. step \in Steps(Buffers, n)
            BY <2>1, <2>2, DecodeByteIsABuffer, Zenon DEF Steps
        <2>4. \A i \in 1 .. n : \A x \in Buffers : step[i][x] = DecodeByte(x, bytes[i])
            BY <2>1, Zenon
        <2>5. QED
            BY <2>3, <2>4, Zenon
    <1>2. PICK h : History(Buffers, d, n, step, h)
        BY Recursion, Zenon
    <1>3. PushSoFar(d, bytes, h)
        <2>1. \A i \in 1 .. n : i - 1 \in 0 .. n
            OBVIOUS
        <2>2. \A i \in 1 .. n : h[i] = DecodeByte(h[i - 1], bytes[i])
            BY <1>1, <1>2, <2>1, Zenon DEF History
        <2>3. /\ \A i \in 0 .. n : i = 0 \/ i \in 1 .. n
              /\ \A i \in 1 .. n : i # 0
            OBVIOUS
        <2>4. \A i \in 0 .. n :
                 h[i] = IF i = 0 THEN d ELSE DecodeByte(h[i - 1], bytes[i])
            BY <1>2, <2>2, <2>3, Zenon DEF History
        <2>5. h = [i \in 0 .. n |-> h[i]]
            BY <1>2, Zenon DEF History
        <2>6. QED
            BY <1>0, <2>4, <2>5, Zenon DEF PushSoFar
    <1> DEFINE chosen == CHOOSE decoded : PushSoFar(d, bytes, decoded)
    <1>4. PushSoFar(d, bytes, chosen)
        BY <1>3
    <1>5. PushUtf8(d, bytes) = chosen[Len(bytes)]
        BY DEF PushUtf8, PushSoFar
    <1> HIDE DEF chosen
    <1>6. PICK c : PushSoFar(d, bytes, c) /\ PushUtf8(d, bytes) = c[Len(bytes)]
        BY <1>4, <1>5
    <1>7. 0 \in 0 .. Len(bytes)
          /\ \A i \in 1 .. Len(bytes) : i \in 0 .. Len(bytes) /\ i # 0
        OBVIOUS
    <1>8. c[0] = d /\ \A i \in 1 .. Len(bytes) : c[i] = DecodeByte(c[i - 1], bytes[i])
        BY <1>6, <1>7, Zenon DEF PushSoFar
    <1>9. QED
        BY <1>6, <1>8

\* However the bytes are cut, a buffer stays right.
LEMMA DecodeChunk ==
    ASSUME NEW n \in Nat, NEW dm \in {0, n}, NEW bytes, AreLines(n, dm, bytes),
           NEW d, NEW g \in Nat, NEW h \in Nat, Decoding(n, dm, d, g, h),
           NEW m \in Nat, g + m <= Len(bytes)
    PROVE  Decoding(n, dm, PushUtf8(d, SubSeq(bytes, g + 1, g + m)), g + m, h)
    <1>1. bytes \in Seq(Letters)
        BY DEF AreLines
    <1>2. PICK chunk : chunk = SubSeq(bytes, g + 1, g + m)
        OBVIOUS
    <1>3. /\ chunk \in Seq(Letters) /\ Len(chunk) = m
          /\ \A i \in 1 .. m : chunk[i] = bytes[g + i]
        <2>1. \A i \in g + 1 .. g + m : bytes[i] \in Letters
            BY <1>1
        <2>2. g + 1 \in Int /\ g + m \in Int
            OBVIOUS
        <2>3. /\ chunk \in Seq(Letters)
              /\ Len(chunk) = IF g + 1 <= g + m THEN (g + m) - (g + 1) + 1 ELSE 0
              /\ \A i \in 1 .. (g + m) - (g + 1) + 1 : chunk[i] = bytes[(g + 1) + i - 1]
            BY <1>2, <2>1, <2>2, SubSeqProperties
        <2>4. (g + m) - (g + 1) + 1 = m /\ (m # 0 => g + 1 <= g + m)
              /\ (m = 0 => ~(g + 1 <= g + m))
            OBVIOUS
        <2>5. \A i \in 1 .. m : (g + 1) + i - 1 = g + i
            OBVIOUS
        <2>6. Len(chunk) = m
            BY <2>3, <2>4
        <2>7. \A i \in 1 .. m : chunk[i] = bytes[g + i]
            BY <2>3, <2>4, <2>5, Zenon
        <2>8. QED
            BY <2>3, <2>6, <2>7
    <1>4. d \in Buffers
        BY DEF Decoding
    <1>5. PICK c : /\ c[0] = d
                   /\ \A i \in 1 .. Len(chunk) : c[i] = DecodeByte(c[i - 1], chunk[i])
                   /\ PushUtf8(d, chunk) = c[Len(chunk)]
        BY <1>3, <1>4, PushIs, Zenon
    <1> DEFINE A == {i \in Nat : i <= m => Decoding(n, dm, c[i], g + i, h)}
    <1>6. 0 \in A
        <2>1. g + 0 = g
            OBVIOUS
        <2>2. QED
            BY <1>5, <2>1
    <1>7. ASSUME NEW i \in Nat, i \in A PROVE i + 1 \in A
        <2>1. SUFFICES ASSUME i + 1 <= m
                       PROVE  Decoding(n, dm, c[i + 1], g + (i + 1), h)
            OBVIOUS
        <2>2. i <= m /\ i + 1 \in 1 .. m /\ (i + 1) - 1 = i
            BY <2>1
        <2>3. Decoding(n, dm, c[i], g + i, h)
            BY <1>7, <2>2
        <2>4. /\ g + i \in Nat /\ g + i < Len(bytes)
              /\ (g + i) + 1 = g + (i + 1)
            BY <1>1, <2>1
        <2>5. Decoding(n, dm, DecodeByte(c[i], bytes[(g + i) + 1]), (g + i) + 1, h)
            BY <2>3, <2>4, DecodeStep
        <2>6. c[i + 1] = DecodeByte(c[i], bytes[g + (i + 1)])
            BY <1>3, <1>5, <2>2, Zenon
        <2>7. QED
            BY <2>4, <2>5, <2>6, Zenon
    <1>8. Nat \subseteq A
        <2> HIDE DEF A
        <2> QED BY <1>6, <1>7, EveryNumber
    <1>9. Decoding(n, dm, c[m], g + m, h)
        BY <1>8
    <1>10. QED
        BY <1>2, <1>3, <1>5, <1>9, Zenon

-----------------------------------------------------------------------------
(* The lines in a buffer.                                                  *)

LEMMA Thirds ==
    ASSUME NEW p \in Nat
    PROVE  \E j \in Nat : p = 3 * j \/ p = 3 * j + 1 \/ p = 3 * j + 2
    <1> DEFINE A == {q \in Nat : \E j \in Nat : \/ q = 3 * j \/ q = 3 * j + 1
                                                \/ q = 3 * j + 2}
    <1>1. 0 \in A
        <2>1. 0 \in Nat /\ 0 = 3 * 0
            OBVIOUS
        <2>2. QED
            BY <2>1
    <1>2. ASSUME NEW q \in Nat, q \in A PROVE q + 1 \in A
        <2>1. PICK j \in Nat : q = 3 * j \/ q = 3 * j + 1 \/ q = 3 * j + 2
            BY <1>2
        <2>2. CASE q = 3 * j
            <3>1. q + 1 = 3 * j + 1
                BY <2>2
            <3>2. QED
                BY <3>1
        <2>3. CASE q = 3 * j + 1
            <3>1. q + 1 = 3 * j + 2
                BY <2>3
            <3>2. QED
                BY <3>1
        <2>4. CASE q = 3 * j + 2
            <3>1. PICK m \in Nat : m = j + 1
                OBVIOUS
            <3>2. q + 1 = 3 * m
                BY <2>4, <3>1
            <3>3. QED
                BY <3>2
        <2>5. QED
            BY <2>1, <2>2, <2>3, <2>4
    <1>3. Nat \subseteq A
        <2> HIDE DEF A
        <2> QED BY <1>1, <1>2, EveryNumber
    <1>4. QED
        BY <1>3

\* Every third character of a buffer is a newline, and no other.
LEMMA Newlines ==
    ASSUME NEW dm, NEW h \in Nat, NEW chars \in Seq(Letters), CharsAre(dm, chars, h)
    PROVE  \A i \in 1 .. Len(chars) :
              chars[i] = Newline <=> \E j \in Nat : i = 3 * j
    <1>1. SUFFICES ASSUME NEW i \in 1 .. Len(chars)
                   PROVE  chars[i] = Newline <=> \E j \in Nat : i = 3 * j
        OBVIOUS
    <1>2. IsChar(dm, i + 3 * h, chars[i])
        BY DEF CharsAre
    <1>3. PICK j \in Nat : i = 3 * j \/ i = 3 * j + 1 \/ i = 3 * j + 2
        <2>1. i \in Nat
            OBVIOUS
        <2>2. QED
            BY <2>1, Thirds, Zenon
    <1>4. j + h \in Nat /\ (j + h) + 1 \in Nat
        OBVIOUS
    <1>5. CASE i = 3 * j
        <2>1. i + 3 * h = 3 * (j + h)
            BY <1>5
        <2>2. chars[i] = Newline
            BY <1>2, <1>4, <2>1, Zenon DEF IsChar
        <2>3. QED
            BY <1>5, <2>2
    <1>6. CASE i = 3 * j + 1
        <2>1. i + 3 * h = 3 * ((j + h) + 1) - 2
            BY <1>6
        <2>2. chars[i] = Ascii((j + h) + 1)
            BY <1>2, <1>4, <2>1, Zenon DEF IsChar
        <2>3. chars[i] # Newline
            BY <2>2 DEF Ascii, Newline
        <2>4. \A m \in Nat : i # 3 * m
            BY <1>6
        <2>5. QED
            BY <2>3, <2>4
    <1>7. CASE i = 3 * j + 2
        <2>1. i + 3 * h = 3 * ((j + h) + 1) - 1
            BY <1>7
        <2>2. chars[i] \in {Character((j + h) + 1), Replacement}
            BY <1>2, <1>4, <2>1, Zenon DEF IsChar
        <2>3. chars[i] # Newline
            BY <2>2 DEF Character, Replacement, Newline
        <2>4. \A m \in Nat : i # 3 * m
            BY <1>7
        <2>5. QED
            BY <2>3, <2>4
    <1>8. QED
        BY <1>3, <1>5, <1>6, <1>7

\* The first line of a buffer.
LEMMA LineEndIs ==
    ASSUME NEW dm, NEW h \in Nat, buffer.text \in Seq(Letters),
           CharsAre(dm, buffer.text, h)
    PROVE  /\ Len(buffer.text) >= 3 => LineEnd = 3
           /\ Len(buffer.text) < 3 => LineEnd = 0
    <1>1. PICK chars : chars = buffer.text
        OBVIOUS
    <1>2. \A i \in 1 .. Len(chars) : chars[i] = Newline <=> \E j \in Nat : i = 3 * j
        BY <1>1, Newlines
    <1>3. DOMAIN chars = 1 .. Len(chars) /\ Len(chars) \in Nat
        BY <1>1
    <1>4. ASSUME Len(chars) < 3 PROVE LineEnd = 0
        <2>1. \A i \in 1 .. Len(chars) : \A j \in Nat : i # 3 * j
            BY <1>3, <1>4
        <2>2. ~\E i \in DOMAIN chars : chars[i] = Newline
            BY <1>2, <1>3, <2>1, Zenon
        <2>3. QED
            BY <1>1, <2>2, Zenon DEF LineEnd
    <1>5. ASSUME Len(chars) >= 3 PROVE LineEnd = 3
        <2>1. 3 \in 1 .. Len(chars) /\ 3 = 3 * 1 /\ 1 \in Nat
            BY <1>3, <1>5
        <2>2. 3 \in DOMAIN chars /\ chars[3] = Newline
            BY <1>2, <1>3, <2>1, Zenon
        <2>3. \A i \in 1 .. 2 : chars[i] # Newline
            <3>1. \A i \in 1 .. 2 : i \in 1 .. Len(chars) /\ \A j \in Nat : i # 3 * j
                BY <1>3, <1>5
            <3>2. QED
                BY <1>2, <3>1, Zenon
        <2> DEFINE First(i) == /\ chars[i] = Newline
                               /\ \A j \in 1 .. i - 1 : chars[j] # Newline
        <2>4. First(3)
            BY <2>2, <2>3
        <2>5. \A i \in DOMAIN chars : First(i) => i = 3
            <3>1. SUFFICES ASSUME NEW i \in 1 .. Len(chars), First(i) PROVE i = 3
                BY <1>3
            <3>2. ~(i < 3)
                BY <2>3, <3>1
            <3>3. ~(3 < i)
                <4>1. SUFFICES ASSUME 3 < i PROVE FALSE
                    OBVIOUS
                <4>2. 3 \in 1 .. i - 1
                    BY <4>1
                <4>3. QED
                    BY <2>2, <3>1, <4>2
            <3>4. QED
                BY <3>2, <3>3
        <2>6. LineEnd = CHOOSE i \in DOMAIN chars : First(i)
            BY <1>1, <2>2 DEF LineEnd
        <2> HIDE DEF First
        <2>7. (CHOOSE i \in DOMAIN chars : First(i)) = 3
            BY <2>2, <2>4, <2>5
        <2>8. QED
            BY <2>6, <2>7
    <1>6. QED
        BY <1>1, <1>4, <1>5

WithoutLine(d) == [d EXCEPT !.text = SubSeq(@, 3 + 1, Len(@))]

\* The first line is that of the frame after the first h.
FirstLineIs(n, dm, d, g, h) ==
    /\ d.text[1].f = h + 1
    /\ h + 1 \in 1 .. n
    /\ Decoding(n, dm, WithoutLine(d), g, h + 1)

\* Taking the first line out of a buffer: it is the line of the next frame.
LEMMA LineTaken ==
    ASSUME NEW n \in Nat, NEW dm \in {0, n}, NEW d, NEW g \in Nat, NEW h \in Nat,
           Decoding(n, dm, d, g, h), Len(d.text) >= 3
    PROVE  FirstLineIs(n, dm, d, g, h)
    <1>1. PICK l \in Nat, k \in Nat : EndsAt(n, dm, g, l, k) /\ DecodingAt(dm, d, h, l, k)
        BY DEF Decoding
    <1>2. d.text \in Seq(Letters) /\ CharsAre(dm, d.text, h) /\ d \in Buffers
        BY DEF Decoding, Buffers
    <1>3. PICK L \in Nat : L = Len(d.text)
        BY <1>2
    <1>4. d.pending = (IF k = 2 THEN <<Lead(l + 1)>> ELSE <<>>)
          /\ 3 * h + L = DecodedLen(dm, l, k)
        BY <1>1, <1>3 DEF DecodingAt
    <1>5. l \in 0 .. n /\ k \in 0 .. 3 /\ (l = n => k = 0)
        BY <1>1 DEF EndsAt
    <1>6. L >= 3
        BY <1>3
    <1>7. h + 1 \in 1 .. n
        BY <1>4, <1>5, <1>6 DEF DecodedLen
    <1>8. d.text[1].f = h + 1
        <2>1. 1 \in 1 .. Len(d.text)
            BY <1>3, <1>6
        <2>2. IsChar(dm, 1 + 3 * h, d.text[1])
            BY <1>2, <2>1, Zenon DEF CharsAre
        <2>3. 1 + 3 * h = 3 * (h + 1) - 2 /\ h + 1 \in Nat
            OBVIOUS
        <2>4. d.text[1] = Ascii(h + 1)
            BY <2>2, <2>3, Zenon DEF IsChar
        <2>5. QED
            BY <2>4 DEF Ascii
    <1>9. PICK t : t = SubSeq(d.text, 3 + 1, Len(d.text))
        OBVIOUS
    <1>10. /\ t \in Seq(Letters) /\ Len(t) = L - 3
           /\ \A i \in 1 .. L - 3 : t[i] = d.text[i + 3]
        <2>1. \A i \in 4 .. L : d.text[i] \in Letters
            BY <1>2, <1>3
        <2>2. /\ t \in Seq(Letters)
              /\ Len(t) = IF 4 <= L THEN L - 4 + 1 ELSE 0
              /\ \A i \in 1 .. L - 4 + 1 : t[i] = d.text[4 + i - 1]
            <3>1. t = SubSeq(d.text, 4, L) /\ 4 \in Int /\ L \in Int
                BY <1>3, <1>9
            <3>2. QED
                BY <2>1, <3>1, SubSeqProperties
        <2>3. L - 4 + 1 = L - 3 /\ (~(4 <= L) => 0 = L - 3)
            BY <1>6
        <2>4. \A i \in 1 .. L - 3 : 4 + i - 1 = i + 3
            OBVIOUS
        <2>5. Len(t) = L - 3
            BY <2>2, <2>3
        <2>6. \A i \in 1 .. L - 3 : t[i] = d.text[i + 3]
            BY <2>2, <2>3, <2>4, Zenon
        <2>7. QED
            BY <2>2, <2>5, <2>6
    <1>11. CharsAre(dm, t, h + 1)
        <2>1. SUFFICES ASSUME NEW i \in 1 .. Len(t)
                       PROVE  IsChar(dm, i + 3 * (h + 1), t[i])
            BY DEF CharsAre
        <2>2. i + 3 \in 1 .. Len(d.text) /\ i \in 1 .. L - 3
            BY <1>3, <1>10
        <2>3. IsChar(dm, (i + 3) + 3 * h, d.text[i + 3])
            BY <1>2, <2>2, Zenon DEF CharsAre
        <2>4. (i + 3) + 3 * h = i + 3 * (h + 1)
            BY <2>2
        <2>5. QED
            BY <1>10, <2>2, <2>3, <2>4, Zenon
    <1>12. 3 * (h + 1) + Len(t) = DecodedLen(dm, l, k)
        <2>1. 3 * (h + 1) + (L - 3) = 3 * h + L
            OBVIOUS
        <2>2. QED
            BY <1>4, <1>10, <2>1, Zenon
    <1>13. TextTo(dm, t, h + 1, DecodedLen(dm, l, k))
        BY <1>10, <1>11, <1>12, Zenon DEF TextTo
    <1>14. d.pending \in Seq(Letters)
        BY <1>2 DEF Buffers
    <1>15. Decoding(n, dm, [text |-> t, pending |-> d.pending], g, h + 1)
        BY <1>1, <1>4, <1>13, <1>14, DecodingIs, Zenon
    <1>16. WithoutLine(d) = [text |-> t, pending |-> d.pending]
        <2>1. WithoutLine(d) = [d EXCEPT !.text = t]
            BY <1>9, Zenon DEF WithoutLine
        <2>2. PICK x, q : d = [text |-> x, pending |-> q]
            BY <1>2 DEF Buffers
        <2>3. [d EXCEPT !.text = t] = [text |-> t, pending |-> q] /\ d.pending = q
            BY <2>2
        <2>4. QED
            BY <2>1, <2>3, Zenon
    <1>17. QED
        BY <1>7, <1>8, <1>15, <1>16, Zenon DEF FirstLineIs

\* When all bytes are in and there is no line left, every frame was handled.
LEMMA AllTaken ==
    ASSUME NEW n \in Nat, NEW dm \in {0, n}, NEW d, NEW h \in Nat,
           NEW bytes, AreLines(n, dm, bytes),
           Decoding(n, dm, d, Len(bytes), h), Len(d.text) < 3
    PROVE  h = n
    <1>1. PICK l \in Nat, k \in Nat : /\ EndsAt(n, dm, Len(bytes), l, k)
                                      /\ DecodingAt(dm, d, h, l, k)
        BY DEF Decoding
    <1>2. PICK L \in Nat : L = Len(d.text)
        BY DEF Decoding, Buffers
    <1>3. 3 * h + L = DecodedLen(dm, l, k)
        BY <1>1, <1>2 DEF DecodingAt
    <1>4. Len(bytes) = 4 * n - (IF n = dm /\ n # 0 THEN 1 ELSE 0)
        BY DEF AreLines
    <1>5. /\ l \in 0 .. n /\ k \in 0 .. 3 /\ Len(bytes) = 4 * l + k
          /\ l = n => k = 0 /\ dm = 0
        BY <1>1 DEF EndsAt
    <1>6. CASE dm = 0 \/ n = 0
        <2>1. 4 * l + k = 4 * n
            BY <1>4, <1>5, <1>6
        <2>2. l = n /\ k = 0
            BY <1>5, <2>1
        <2>3. DecodedLen(dm, l, k) = 3 * n
            BY <2>2 DEF DecodedLen
        <2>4. 3 * h + L = 3 * n /\ L < 3
            BY <1>2, <1>3, <2>3, Zenon
        <2>5. QED
            BY <2>4
    <1>7. CASE dm = n /\ n # 0
        <2>1. 4 * l + k = 4 * n - 1
            BY <1>4, <1>5, <1>7
        <2>2. l + 1 = n /\ k = 3
            BY <1>5, <2>1
        <2>3. DecodedLen(dm, l, k) = 3 * n
            BY <1>7, <2>2 DEF DecodedLen
        <2>4. 3 * h + L = 3 * n /\ L < 3
            BY <1>2, <1>3, <2>3, Zenon
        <2>5. QED
            BY <2>4
    <1>8. QED
        BY <1>6, <1>7

\* A list that has, from some place on, what another list has.
LEMMA SuffixIs ==
    ASSUME NEW S, NEW s \in Seq(S), NEW t \in Seq(S), NEW a \in Nat,
           Len(t) = Len(s) + a, \A i \in 1 .. Len(s) : s[i] = t[i + a]
    PROVE  IsSuffix(s, t)
    <1>1. PICK n \in Nat, m \in Nat : n = Len(s) /\ m = Len(t)
        OBVIOUS
    <1>2. m = n + a
        BY <1>1
    <1>3. PICK u, v : u = Reverse(s) /\ v = Reverse(t)
        OBVIOUS
    <1>4. u = [i \in 1 .. n |-> s[(n - i) + 1]] /\ v = [i \in 1 .. m |-> t[(m - i) + 1]]
        BY <1>1, <1>3, Zenon DEF Reverse
    <1>5. /\ \A i \in 1 .. n : s[(n - i) + 1] \in S
          /\ \A i \in 1 .. m : t[(m - i) + 1] \in S
        BY <1>1
    <1>6. u \in Seq(S) /\ Len(u) = n /\ v \in Seq(S) /\ Len(v) = m
        <2>1. u \in [1 .. n -> S] /\ v \in [1 .. m -> S]
            BY <1>4, <1>5, Zenon
        <2>2. QED
            BY <2>1
    <1>7. \A i \in 1 .. n : u[i] = v[i]
        <2>1. TAKE i \in 1 .. n
        <2>2. (n - i) + 1 \in 1 .. n /\ (m - i) + 1 = ((n - i) + 1) + a /\ i \in 1 .. m
            BY <1>2
        <2>3. s[(n - i) + 1] = t[((n - i) + 1) + a]
            BY <1>1, <2>2
        <2>4. QED
            BY <1>4, <2>2, <2>3, Zenon
    <1>8. SubSeq(u, 1, n) = SubSeq(v, 1, n)
        <2>1. PICK x, y : x = SubSeq(u, 1, n) /\ y = SubSeq(v, 1, n)
            OBVIOUS
        <2>2. (\A i \in 1 .. n : u[i] \in S) /\ (\A i \in 1 .. n : v[i] \in S)
            BY <1>2, <1>6
        <2>3. 1 \in Int /\ n \in Int
            OBVIOUS
        <2>4. /\ x \in Seq(S) /\ Len(x) = (IF 1 <= n THEN n - 1 + 1 ELSE 0)
              /\ \A i \in 1 .. n - 1 + 1 : x[i] = u[1 + i - 1]
            BY <2>1, <2>2, <2>3, SubSeqProperties
        <2>5. /\ y \in Seq(S) /\ Len(y) = (IF 1 <= n THEN n - 1 + 1 ELSE 0)
              /\ \A i \in 1 .. n - 1 + 1 : y[i] = v[1 + i - 1]
            BY <2>1, <2>2, <2>3, SubSeqProperties
        <2>6. n - 1 + 1 = n /\ (\A i \in 1 .. n : 1 + i - 1 = i)
            OBVIOUS
        <2>7. \A i \in 1 .. n : x[i] = y[i]
            BY <1>7, <2>4, <2>5, <2>6, Zenon
        <2>8. Len(x) = n /\ Len(y) = n
            BY <2>4, <2>5, <2>6
        <2>9. x = y
            BY <2>4, <2>5, <2>7, <2>8, SeqEqual, Zenon
        <2>10. QED
            BY <2>1, <2>9
    <1>9. n <= m
        BY <1>2
    <1>10. QED
        BY <1>3, <1>6, <1>8, <1>9, Zenon DEF IsSuffix, IsPrefix

\* A place has one character.
LEMMA OneChar ==
    ASSUME NEW dm, NEW p \in Nat, p # 0, NEW c, NEW e,
           IsChar(dm, p, c), IsChar(dm, p, e)
    PROVE  c = e
    <1>1. PICK q \in Nat : p = q + 1
        <2>1. p - 1 \in Nat /\ p = (p - 1) + 1
            OBVIOUS
        <2>2. QED
            BY <2>1, Zenon
    <1>2. PICK j \in Nat : q = 3 * j \/ q = 3 * j + 1 \/ q = 3 * j + 2
        BY Thirds
    <1>3. j + 1 \in Nat
        OBVIOUS
    <1>4. \/ p = 3 * (j + 1) - 2 \/ p = 3 * (j + 1) - 1 \/ p = 3 * (j + 1)
        BY <1>1, <1>2
    <1>5. CASE p = 3 * (j + 1) - 2
        BY <1>3, <1>5, Zenon DEF IsChar
    <1>6. CASE p = 3 * (j + 1) - 1
        BY <1>3, <1>6, Zenon DEF IsChar
    <1>7. CASE p = 3 * (j + 1)
        BY <1>3, <1>7, Zenon DEF IsChar
    <1>8. QED
        BY <1>4, <1>5, <1>6, <1>7

\* So many third places there are.
LEMMA ThirdPlaces ==
    ASSUME NEW m \in Nat
    PROVE  /\ IsFiniteSet({3 * j : j \in 1 .. m})
           /\ Cardinality({3 * j : j \in 1 .. m}) = m
    <1> DEFINE P(n) == {3 * j : j \in 1 .. n}
               A == {n \in Nat : IsFiniteSet(P(n)) /\ Cardinality(P(n)) = n}
    <1>1. 0 \in A
        <2>1. P(0) = {}
            OBVIOUS
        <2>2. QED
            BY <2>1, FS_EmptySet
    <1>2. ASSUME NEW n \in Nat, n \in A PROVE n + 1 \in A
        <2>1. P(n + 1) = P(n) \cup {3 * (n + 1)}
            <3>1. 1 .. n + 1 = (1 .. n) \cup {n + 1}
                OBVIOUS
            <3>2. QED
                BY <3>1, Zenon
        <2>2. 3 * (n + 1) \notin P(n)
            OBVIOUS
        <2>3. IsFiniteSet(P(n)) /\ Cardinality(P(n)) = n
            BY <1>2
        <2> HIDE DEF P
        <2>4. /\ IsFiniteSet(P(n) \cup {3 * (n + 1)})
              /\ Cardinality(P(n) \cup {3 * (n + 1)}) = n + 1
            BY <2>2, <2>3, FS_AddElement, Zenon
        <2>5. QED
            BY <2>1, <2>4
    <1>3. Nat \subseteq A
        <2> HIDE DEF A
        <2> QED BY <1>1, <1>2, EveryNumber
    <1>4. QED
        BY <1>3

\* The complete lines in a text of so many characters.
LEMMA LinesCounted ==
    ASSUME NEW dm, NEW h \in Nat, NEW chars \in Seq(Letters), CharsAre(dm, chars, h),
           NEW m \in Nat,
           \/ Len(chars) = 3 * m \/ Len(chars) = 3 * m + 1 \/ Len(chars) = 3 * m + 2
    PROVE  Cardinality({i \in DOMAIN chars : chars[i] = Newline}) = m
    <1>1. PICK L \in Nat : L = Len(chars) /\ DOMAIN chars = 1 .. L
        OBVIOUS
    <1>2. \A i \in 1 .. L : chars[i] = Newline <=> \E j \in Nat : i = 3 * j
        BY <1>1, Newlines
    <1>3. \A j \in Nat : 3 * j \in 1 .. L <=> j \in 1 .. m
        BY <1>1
    <1>4. {i \in DOMAIN chars : chars[i] = Newline} = {3 * j : j \in 1 .. m}
        <2>1. ASSUME NEW i \in 1 .. L, chars[i] = Newline
              PROVE  i \in {3 * j : j \in 1 .. m}
            <3>1. PICK j \in Nat : i = 3 * j
                BY <1>2, <2>1
            <3>2. j \in 1 .. m
                BY <1>3, <3>1
            <3>3. QED
                BY <3>1, <3>2
        <2>2. ASSUME NEW j \in 1 .. m
              PROVE  3 * j \in 1 .. L /\ chars[3 * j] = Newline
            <3>1. j \in Nat
                OBVIOUS
            <3>2. 3 * j \in 1 .. L
                BY <1>3, <3>1
            <3>3. QED
                BY <1>2, <3>1, <3>2, Zenon
        <2>3. QED
            BY <1>1, <2>1, <2>2, Zenon
    <1>5. QED
        BY <1>4, ThirdPlaces

-----------------------------------------------------------------------------
(* The wire: what arrives in the buffer and leaves it line by line.        *)

ScriptOK ==
    /\ adapter \in Adapters
    /\ script \in Seq(Frames(adapter.family))
    /\ WellFormed(script)
    /\ damaged \in {0, Len(script)}

WireOK ==
    /\ ScriptOK
    /\ got \in Nat /\ got <= Len(Sent)
    /\ handled \in Nat
    /\ Decoding(Len(script), damaged, buffer, got, handled)

LEMMA SentLines ==
    ASSUME ScriptOK
    PROVE  /\ Len(script) \in Nat
           /\ AreLines(Len(script), damaged, Sent)
           /\ Sent \in Seq(Letters) /\ Len(Sent) \in Nat
    <1>1. Len(script) \in Nat /\ damaged \in {0, Len(script)}
        BY DEF ScriptOK
    <1>2. AreLines(Len(script), damaged, Sent)
        BY <1>1, BytesAre DEF Sent
    <1>3. QED
        BY <1>1, <1>2 DEF AreLines

LEMMA InitScript ==
    ASSUME Init
    PROVE  ScriptOK
    <1>1. /\ adapter \in Adapters
          /\ script \in BoundedSeq(Frames(adapter.family), MaxFrames)
          /\ WellFormed(script) /\ damaged \in {0, Len(script)}
        BY DEF Init, Scripts
    <1>2. MaxFrames \in Nat
        BY StreamsAssumption
    <1>3. PICK F : F = Frames(adapter.family)
        OBVIOUS
    <1>4. script \in UNION {[1 .. m -> F] : m \in 0 .. MaxFrames}
        BY <1>1, <1>3 DEF BoundedSeq, SeqOf
    <1>5. PICK m \in 0 .. MaxFrames : script \in [1 .. m -> F]
        BY <1>4
    <1>6. m \in Nat
        BY <1>2
    <1>7. script \in Seq(F)
        BY <1>5, <1>6
    <1>8. QED
        BY <1>1, <1>3, <1>7 DEF ScriptOK

LEMMA InitWire ==
    ASSUME Init
    PROVE  WireOK
    <1>1. ScriptOK
        BY InitScript
    <1>2. PICK n \in Nat : n = Len(script)
        BY <1>1, SentLines
    <1>3. damaged \in {0, n}
        BY <1>1, <1>2 DEF ScriptOK
    <1>4. got = 0 /\ handled = 0 /\ buffer = [text |-> <<>>, pending |-> <<>>]
        BY DEF Init, NothingYet
    <1>5. CharsAre(damaged, <<>>, 0)
        BY DEF CharsAre
    <1>6. DecodedLen(damaged, 0, 0) = 0
        BY DEF DecodedLen
    <1>7. TextTo(damaged, <<>>, 0, DecodedLen(damaged, 0, 0))
        BY <1>5, <1>6 DEF TextTo
    <1>8. EndsAt(n, damaged, 0, 0, 0)
        BY <1>3 DEF EndsAt
    <1>9. <<>> = IF 0 = 2 THEN <<Lead(0 + 1)>> ELSE <<>>
        OBVIOUS
    <1>10. <<>> \in Seq(Letters) /\ 0 \in Nat
        OBVIOUS
    <1>11. Decoding(n, damaged, [text |-> <<>>, pending |-> <<>>], 0, 0)
        BY <1>7, <1>8, <1>9, <1>10, DecodingIs, Zenon
    <1>12. got \in Nat /\ got <= Len(Sent) /\ handled \in Nat
        BY <1>1, <1>4, SentLines
    <1>13. QED
        BY <1>1, <1>2, <1>4, <1>11, <1>12, Zenon DEF WireOK

\* The line that is taken is that of the next frame.
LEMMA NextFrame ==
    ASSUME WireOK, NEW f, TakeLine(f)
    PROVE  f = handled + 1 /\ f \in 1 .. Len(script) /\ handled' = f /\ WireOK'
    <1>1. ScriptOK
        BY DEF WireOK
    <1>2. PICK n \in Nat : n = Len(script)
        BY <1>1, SentLines
    <1>3. damaged \in {0, n} /\ Decoding(n, damaged, buffer, got, handled)
        BY <1>1, <1>2 DEF ScriptOK, WireOK
    <1>4. got \in Nat /\ got <= Len(Sent) /\ handled \in Nat
        BY DEF WireOK
    <1>5. buffer.text \in Seq(Letters) /\ CharsAre(damaged, buffer.text, handled)
        BY <1>3 DEF Decoding, Buffers
    <1>6. LineEnd # 0
        BY DEF TakeLine
    <1>7. Len(buffer.text) \in Nat
        BY <1>5
    <1>8. Len(buffer.text) >= 3 /\ LineEnd = 3
        BY <1>4, <1>5, <1>6, <1>7, LineEndIs
    <1>9. /\ buffer.text[1].f = handled + 1 /\ handled + 1 \in 1 .. n
          /\ Decoding(n, damaged, WithoutLine(buffer), got, handled + 1)
        <2>1. n \in Nat /\ damaged \in {0, n} /\ Len(buffer.text) >= 3
            BY <1>3, <1>8
        <2>2. FirstLineIs(n, damaged, buffer, got, handled)
            BY <1>3, <1>4, <2>1, LineTaken, Zenon
        <2>3. QED
            BY <2>2, Zenon DEF FirstLineIs
    <1>10. f = handled + 1 /\ handled' = handled + 1
        BY <1>9 DEF TakeLine
    <1>11. buffer' = WithoutLine(buffer)
        BY <1>8, Zenon DEF TakeLine, WithoutLine
    <1>12. got' = got /\ script' = script /\ damaged' = damaged /\ adapter' = adapter
        BY DEF TakeLine, wire
    <1>13. Sent' = Sent
        BY <1>12 DEF Sent
    <1>14. ScriptOK'
        BY <1>1, <1>12 DEF ScriptOK
    <1>15. Decoding(n, damaged, buffer', got, handled')
        BY <1>9, <1>10, <1>11, Zenon
    <1>16. handled' \in Nat
        BY <1>4, <1>10
    <1>17. WireOK'
        BY <1>2, <1>4, <1>12, <1>13, <1>14, <1>15, <1>16, Zenon DEF WireOK
    <1>18. QED
        BY <1>2, <1>9, <1>10, <1>17

\* Nothing is left to handle once all bytes are in and no line is complete.
LEMMA NoFrameLeft ==
    ASSUME WireOK, got = Len(Sent), LineEnd = 0
    PROVE  handled = Len(script)
    <1>1. ScriptOK
        BY DEF WireOK
    <1>2. PICK n \in Nat : n = Len(script)
        BY <1>1, SentLines
    <1>3. /\ damaged \in {0, n} /\ Decoding(n, damaged, buffer, Len(Sent), handled)
          /\ handled \in Nat
        BY <1>1, <1>2 DEF ScriptOK, WireOK
    <1>4. buffer.text \in Seq(Letters) /\ CharsAre(damaged, buffer.text, handled)
        BY <1>3 DEF Decoding, Buffers
    <1>5. Len(buffer.text) \in Nat
        BY <1>4
    <1>6. Len(buffer.text) < 3
        BY <1>3, <1>4, <1>5, LineEndIs
    <1>7. AreLines(n, damaged, Sent)
        BY <1>1, <1>2, SentLines
    <1>8. QED
        BY <1>2, <1>3, <1>6, <1>7, AllTaken

LEMMA ReceiveKeepsWire ==
    ASSUME WireOK, Receive
    PROVE  WireOK'
    <1>1. ScriptOK
        BY DEF WireOK
    <1>2. PICK n \in Nat : n = Len(script)
        BY <1>1, SentLines
    <1>3. damaged \in {0, n} /\ Decoding(n, damaged, buffer, got, handled)
        BY <1>1, <1>2 DEF ScriptOK, WireOK
    <1>4. got \in Nat /\ got <= Len(Sent) /\ handled \in Nat
        BY DEF WireOK
    <1>5. AreLines(n, damaged, Sent) /\ Len(Sent) \in Nat
        BY <1>1, <1>2, SentLines
    <1>6. PICK m \in 1 .. Len(Sent) - got :
              got' = got + m /\ buffer' = PushUtf8(buffer, SubSeq(Sent, got + 1, got + m))
        BY DEF Receive
    <1>7. m \in Nat /\ got + m <= Len(Sent) /\ got + m \in Nat
        BY <1>4, <1>5, <1>6
    <1>8. Decoding(n, damaged, PushUtf8(buffer, SubSeq(Sent, got + 1, got + m)),
                   got + m, handled)
        BY <1>3, <1>4, <1>5, <1>7, DecodeChunk
    <1>9. /\ script' = script /\ damaged' = damaged /\ adapter' = adapter
          /\ handled' = handled
        BY DEF Receive, wire
    <1>10. Sent' = Sent
        BY <1>9 DEF Sent
    <1>11. ScriptOK'
        BY <1>1, <1>9 DEF ScriptOK
    <1>12. QED
        BY <1>2, <1>4, <1>6, <1>7, <1>8, <1>9, <1>10, <1>11, Zenon DEF WireOK

\* The other steps leave the wire alone.
LEMMA WireUntouched ==
    ASSUME WireOK, UNCHANGED <<wire, got, buffer, handled>>
    PROVE  WireOK'
    <1>1. /\ script' = script /\ damaged' = damaged /\ adapter' = adapter
          /\ handled' = handled /\ got' = got /\ buffer' = buffer
        BY DEF wire
    <1>2. Sent' = Sent
        BY <1>1 DEF Sent
    <1>3. ScriptOK'
        BY <1>1 DEF WireOK, ScriptOK
    <1>4. QED
        BY <1>1, <1>2, <1>3, Zenon DEF WireOK

LEMMA NextKeepsWire ==
    ASSUME WireOK, [Next]_vars
    PROVE  WireOK'
    <1>1. CASE Announce
        BY <1>1, WireUntouched DEF Announce
    <1>2. CASE PopPending
        BY <1>2, WireUntouched DEF PopPending
    <1>3. CASE HandleChunk
        BY <1>3, NextFrame DEF HandleChunk
    <1>4. CASE HandleDone
        BY <1>4, NextFrame DEF HandleDone
    <1>5. CASE HandleBlock
        BY <1>5, NextFrame DEF HandleBlock
    <1>6. CASE HandleParts
        BY <1>6, NextFrame DEF HandleParts
    <1>7. CASE Receive
        BY <1>7, ReceiveKeepsWire
    <1>8. CASE StreamEnds
        BY <1>8, WireUntouched DEF StreamEnds
    <1>9. CASE StopsWhenDone
        BY <1>9, WireUntouched DEF StopsWhenDone
    <1>10. CASE Break
        BY <1>10, WireUntouched DEF Break
    <1>11. CASE UNCHANGED vars
        BY <1>11, WireUntouched DEF vars, wire
    <1>12. QED
        BY <1>1, <1>2, <1>3, <1>4, <1>5, <1>6, <1>7, <1>8, <1>9, <1>10, <1>11
            DEF Next, Poll

LEMMA WireInvariant == Spec => []WireOK
    <1>1. Init => WireOK
        BY InitWire
    <1>2. WireOK /\ [Next]_vars => WireOK'
        BY NextKeepsWire
    <1>3. QED
        BY <1>1, <1>2, PTL DEF Spec

\* Each line is decoded once, in order and with its own text, however the
\* bytes are cut: what is in the buffer is the end of the decoded text, and
\* the lines before it are those that were handled (push_utf8).
LEMMA WireDecodes ==
    ASSUME WireOK
    PROVE  DecodedAsSent
    <1>1. ScriptOK
        BY DEF WireOK
    <1>2. PICK n \in Nat : n = Len(script)
        BY <1>1, SentLines
    <1>3. damaged \in {0, n} /\ Decoding(n, damaged, buffer, got, handled)
        BY <1>1, <1>2 DEF ScriptOK, WireOK
    <1>4. got \in Nat /\ got <= Len(Sent) /\ handled \in Nat /\ damaged \in Nat
        BY <1>3 DEF WireOK
    <1>5. AreLines(n, damaged, Sent)
        BY <1>1, <1>2, SentLines
    <1>6. PICK e : e = PushUtf8(NothingYet, SubSeq(Sent, 1, got))
        OBVIOUS
    <1>7. Decoding(n, damaged, e, got, 0)
        <2>1. Decoding(n, damaged, NothingYet, 0, 0)
            <3>1. CharsAre(damaged, <<>>, 0)
                BY DEF CharsAre
            <3>2. DecodedLen(damaged, 0, 0) = 0
                BY DEF DecodedLen
            <3>3. TextTo(damaged, <<>>, 0, DecodedLen(damaged, 0, 0))
                BY <3>1, <3>2 DEF TextTo
            <3>4. EndsAt(n, damaged, 0, 0, 0)
                BY <1>3 DEF EndsAt
            <3>5. <<>> = IF 0 = 2 THEN <<Lead(0 + 1)>> ELSE <<>>
                OBVIOUS
            <3>6. <<>> \in Seq(Letters) /\ 0 \in Nat
                OBVIOUS
            <3>7. QED
                BY <3>3, <3>4, <3>5, <3>6, DecodingIs, Zenon DEF NothingYet
        <2>2. 0 + 1 = 1 /\ 0 + got = got /\ 0 \in Nat
            BY <1>4
        <2>3. Decoding(n, damaged, PushUtf8(NothingYet, SubSeq(Sent, 0 + 1, 0 + got)),
                       0 + got, 0)
            BY <1>3, <1>4, <1>5, <2>1, <2>2, DecodeChunk
        <2>4. QED
            BY <1>6, <2>2, <2>3, Zenon
    <1>8. PICK l \in Nat, k \in Nat : EndsAt(n, damaged, got, l, k)
                                      /\ DecodingAt(damaged, buffer, handled, l, k)
        BY <1>3 DEF Decoding
    <1>9. PICK l2 \in Nat, k2 \in Nat : EndsAt(n, damaged, got, l2, k2)
                                        /\ DecodingAt(damaged, e, 0, l2, k2)
        BY <1>7 DEF Decoding
    <1>10. l2 = l /\ k2 = k
        BY <1>8, <1>9 DEF EndsAt
    <1>11. buffer.text \in Seq(Letters) /\ CharsAre(damaged, buffer.text, handled)
        BY <1>3 DEF Decoding, Buffers
    <1>12. e.text \in Seq(Letters) /\ CharsAre(damaged, e.text, 0)
        BY <1>7 DEF Decoding, Buffers
    <1>13. PICK L \in Nat, M \in Nat : L = Len(buffer.text) /\ M = Len(e.text)
        BY <1>11, <1>12
    <1>14. /\ 3 * handled + L = DecodedLen(damaged, l, k)
           /\ 3 * 0 + M = DecodedLen(damaged, l, k)
        <2>1. 3 * handled + Len(buffer.text) = DecodedLen(damaged, l, k)
            BY <1>8, Zenon DEF DecodingAt
        <2>2. 3 * 0 + Len(e.text) = DecodedLen(damaged, l2, k2)
            BY <1>9, Zenon DEF DecodingAt
        <2>3. QED
            BY <1>10, <1>13, <2>1, <2>2, Zenon
    <1>15. M = L + 3 * handled
        BY <1>4, <1>14
    <1>16. buffer.pending = e.pending
        <2>1. buffer.pending = IF k = 2 THEN <<Lead(l + 1)>> ELSE <<>>
            BY <1>8, Zenon DEF DecodingAt
        <2>2. e.pending = IF k2 = 2 THEN <<Lead(l2 + 1)>> ELSE <<>>
            BY <1>9, Zenon DEF DecodingAt
        <2>3. QED
            BY <1>10, <2>1, <2>2
    <1>17. IsSuffix(buffer.text, e.text)
        <2>1. ASSUME NEW i \in 1 .. L
              PROVE  buffer.text[i] = e.text[i + 3 * handled]
            <3>1. /\ i + 3 * handled \in 1 .. M /\ i + 3 * handled # 0
                  /\ i + 3 * handled \in Nat /\ (i + 3 * handled) + 3 * 0 = i + 3 * handled
                BY <1>4, <1>15
            <3>2. IsChar(damaged, i + 3 * handled, buffer.text[i])
                BY <1>11, <1>13, Zenon DEF CharsAre
            <3>3. IsChar(damaged, i + 3 * handled, e.text[i + 3 * handled])
                BY <1>12, <1>13, <3>1, Zenon DEF CharsAre
            <3>4. QED
                BY <3>1, <3>2, <3>3, OneChar, Zenon
        <2>2. 3 * handled \in Nat
            BY <1>4
        <2>3. QED
            BY <1>11, <1>12, <1>13, <1>15, <2>1, <2>2, SuffixIs, Zenon
    <1>18. PICK m \in Nat : L = 3 * m \/ L = 3 * m + 1 \/ L = 3 * m + 2
        BY Thirds
    <1>19. Cardinality({i \in DOMAIN buffer.text : buffer.text[i] = Newline}) = m
        BY <1>4, <1>11, <1>13, <1>18, LinesCounted
    <1>20. Cardinality({i \in DOMAIN e.text : e.text[i] = Newline}) = m + handled
        <2>1. m + handled \in Nat
            BY <1>4
        <2>2. \/ Len(e.text) = 3 * (m + handled) \/ Len(e.text) = 3 * (m + handled) + 1
              \/ Len(e.text) = 3 * (m + handled) + 2
            <3>1. \/ M = 3 * (m + handled) \/ M = 3 * (m + handled) + 1
                  \/ M = 3 * (m + handled) + 2
                BY <1>4, <1>15, <1>18
            <3>2. QED
                BY <1>13, <3>1, Zenon
        <2>3. 0 \in Nat
            OBVIOUS
        <2>4. QED
            BY <1>12, <2>1, <2>2, <2>3, LinesCounted, Zenon
    <1>21. handled + m = m + handled
        BY <1>4
    <1>22. QED
        BY <1>6, <1>16, <1>17, <1>19, <1>20, <1>21, Zenon DEF DecodedAsSent

\* The same of every behavior.
THEOREM DecodedText == Spec => []DecodedAsSent
    <1>1. WireOK => DecodedAsSent
        BY WireDecodes
    <1>2. QED
        BY <1>1, WireInvariant, PTL

-----------------------------------------------------------------------------
(* The events of a response, and what they show.                           *)

Fragments == Nat \X Nat

CallMaps == UNION {[D -> Seq(Fragments)] : D \in SUBSET Nat}

PlainTypes == {"created", "in_progress", "item", "part", "text_done", "error"}

EventSet ==
    [type : PlainTypes]
      \cup [type : {"delta"}, piece : Fragments]
      \cup [type : {"args"}, index : Nat, piece : Fragments]
      \cup [type : {"completed"}, text : Seq(Fragments), calls : CallMaps,
            usage : BOOLEAN]

LEMMA EventsAre ==
    /\ \A type \in PlainTypes : Event(type) \in EventSet /\ Event(type).type = type
    /\ \A piece \in Fragments : /\ Delta(piece) \in EventSet
                                /\ Delta(piece).type = "delta"
                                /\ Delta(piece).piece = piece
    /\ \A index \in Nat, piece \in Fragments :
            /\ Args(index, piece) \in EventSet
            /\ Args(index, piece).type = "args"
            /\ Args(index, piece).index = index
            /\ Args(index, piece).piece = piece
    /\ \A t \in Seq(Fragments), c \in CallMaps, u \in BOOLEAN :
            /\ Completed(t, c, u) \in EventSet
            /\ Completed(t, c, u).type = "completed"
            /\ Completed(t, c, u).text = t
            /\ Completed(t, c, u).calls = c
    <1>1. \A type \in PlainTypes : Event(type) \in EventSet /\ Event(type).type = type
        BY DEF Event, EventSet
    <1>2. \A piece \in Fragments : /\ Delta(piece) \in EventSet
                                   /\ Delta(piece).type = "delta"
                                   /\ Delta(piece).piece = piece
        BY DEF Delta, EventSet
    <1>3. \A index \in Nat, piece \in Fragments :
            /\ Args(index, piece) \in EventSet
            /\ Args(index, piece).type = "args"
            /\ Args(index, piece).index = index
            /\ Args(index, piece).piece = piece
        BY DEF Args, EventSet
    <1>4. \A t \in Seq(Fragments), c \in CallMaps, u \in BOOLEAN :
            /\ Completed(t, c, u) \in EventSet
            /\ Completed(t, c, u).type = "completed"
            /\ Completed(t, c, u).text = t
            /\ Completed(t, c, u).calls = c
        BY DEF Completed, EventSet
    <1>5. QED
        BY <1>1, <1>2, <1>3, <1>4

LEMMA PiecesAreFragments ==
    ASSUME NEW e \in EventSet, e.type = "delta" \/ e.type = "args"
    PROVE  e.piece \in Fragments /\ (e.type = "args" => e.index \in Nat)
    BY DEF EventSet, PlainTypes

\* The pieces shown by the first events, event by event.
PiecesSoFar(es, places, h) ==
    h = [i \in 0 .. Len(es) |->
            IF i = 0 THEN <<>>
            ELSE IF i \in places THEN Append(h[i - 1], es[i].piece)
            ELSE h[i - 1]]

\* The steps of that history.
PieceSteps(es, places, h) ==
    /\ h[0] = <<>>
    /\ \A i \in 1 .. Len(es) :
          h[i] = IF i \in places THEN Append(h[i - 1], es[i].piece) ELSE h[i - 1]

LEMMA PiecesAre ==
    ASSUME NEW E, NEW es \in Seq(E), NEW places,
           \A i \in 1 .. Len(es) : i \in places => es[i].piece \in Fragments
    PROVE  /\ Client!Pieces(es, places) \in Seq(Fragments)
           /\ \E c : /\ PieceSteps(es, places, c)
                     /\ Client!Pieces(es, places) = c[Len(es)]
    <1> DEFINE X == Seq(Fragments)
    <1>0. PICK n \in Nat : n = Len(es)
        OBVIOUS
    <1>1. PICK step \in Steps(X, n) :
              \A i \in 1 .. n : \A x \in X :
                 step[i][x] = IF i \in places THEN Append(x, es[i].piece) ELSE x
        <2>1. PICK step : step = [i \in 1 .. n |-> [x \in X |->
                                    IF i \in places THEN Append(x, es[i].piece) ELSE x]]
            OBVIOUS
        <2>2. \A i \in 1 .. n : \A x \in X :
                 (IF i \in places THEN Append(x, es[i].piece) ELSE x) \in X
            BY <1>0
        <2> HIDE DEF X
        <2>3. step \in Steps(X, n)
            BY <2>1, <2>2, Zenon DEF Steps
        <2>4. \A i \in 1 .. n : \A x \in X :
                 step[i][x] = IF i \in places THEN Append(x, es[i].piece) ELSE x
            BY <2>1, Zenon
        <2>5. QED
            BY <2>3, <2>4, Zenon
    <1>2. <<>> \in X
        OBVIOUS
    <1> HIDE DEF X
    <1>3. PICK h : History(X, <<>>, n, step, h)
        BY <1>2, Recursion, Zenon
    <1>4. PiecesSoFar(es, places, h)
        <2>1. \A i \in 1 .. n : i - 1 \in 0 .. n
            OBVIOUS
        <2>2. \A i \in 1 .. n :
                 h[i] = IF i \in places THEN Append(h[i - 1], es[i].piece) ELSE h[i - 1]
            BY <1>1, <1>3, <2>1, Zenon DEF History
        <2>3. /\ \A i \in 0 .. n : i = 0 \/ i \in 1 .. n
              /\ \A i \in 1 .. n : i # 0
            OBVIOUS
        <2>4. \A i \in 0 .. n :
                 h[i] = IF i = 0 THEN <<>>
                        ELSE IF i \in places THEN Append(h[i - 1], es[i].piece)
                        ELSE h[i - 1]
            BY <1>3, <2>2, <2>3, Zenon DEF History
        <2>5. h = [i \in 0 .. n |-> h[i]]
            BY <1>3, Zenon DEF History
        <2>6. QED
            BY <1>0, <2>4, <2>5, Zenon DEF PiecesSoFar
    <1> DEFINE chosen == CHOOSE c : PiecesSoFar(es, places, c)
    <1>5. PiecesSoFar(es, places, chosen)
        BY <1>4
    <1>6. Client!Pieces(es, places) = chosen[Len(es)]
        BY DEF Client!Pieces, PiecesSoFar
    <1> HIDE DEF chosen
    <1>7. PICK c : PiecesSoFar(es, places, c) /\ Client!Pieces(es, places) = c[Len(es)]
        BY <1>5, <1>6
    <1>8. PieceSteps(es, places, c)
        <2>1. 0 \in 0 .. Len(es) /\ \A i \in 1 .. Len(es) : i \in 0 .. Len(es) /\ i # 0
            OBVIOUS
        <2>2. QED
            BY <1>7, <2>1, Zenon DEF PiecesSoFar, PieceSteps
    <1> DEFINE A == {i \in Nat : i <= n => c[i] \in X}
    <1>9. 0 \in A
        BY <1>2, <1>8 DEF PieceSteps
    <1>10. ASSUME NEW i \in Nat, i \in A PROVE i + 1 \in A
        <2>1. SUFFICES ASSUME i + 1 <= n PROVE c[i + 1] \in X
            OBVIOUS
        <2>2. i <= n /\ i + 1 \in 1 .. n /\ (i + 1) - 1 = i
            BY <2>1
        <2>3. c[i] \in X
            BY <1>10, <2>2
        <2>4. c[i + 1] = IF i + 1 \in places THEN Append(c[i], es[i + 1].piece) ELSE c[i]
            BY <1>0, <1>8, <2>2, Zenon DEF PieceSteps
        <2>5. i + 1 \in places => es[i + 1].piece \in Fragments
            BY <1>0, <2>2
        <2>6. QED
            BY <2>3, <2>4, <2>5 DEF X
    <1>11. Nat \subseteq A
        <2> HIDE DEF A
        <2> QED BY <1>9, <1>10, EveryNumber
    <1>12. c[n] \in X
        BY <1>11
    <1>13. QED
        BY <1>0, <1>7, <1>8, <1>12 DEF X

\* One event more.
PlacesGoOn(es, e, P, Q) ==
    /\ \A i \in 1 .. Len(es) : i \in P <=> i \in Q
    /\ \A i \in 1 .. Len(es) : i \in P => es[i].piece \in Fragments
    /\ Len(es) + 1 \in Q => e.piece \in Fragments

PiecesGoOn(es, e, P, Q) ==
    /\ Len(es) + 1 \in Q => Client!Pieces(Append(es, e), Q)
                              = Append(Client!Pieces(es, P), e.piece)
    /\ Len(es) + 1 \notin Q => Client!Pieces(Append(es, e), Q) = Client!Pieces(es, P)

LEMMA PiecesMore ==
    ASSUME NEW es \in Seq(EventSet), NEW e \in EventSet, NEW P, NEW Q,
           PlacesGoOn(es, e, P, Q)
    PROVE  PiecesGoOn(es, e, P, Q)
    <1>0. /\ \A i \in 1 .. Len(es) : i \in P <=> i \in Q
          /\ \A i \in 1 .. Len(es) : i \in P => es[i].piece \in Fragments
          /\ Len(es) + 1 \in Q => e.piece \in Fragments
        BY DEF PlacesGoOn
    <1>1. PICK n \in Nat : n = Len(es)
        OBVIOUS
    <1>2. PICK more : more = Append(es, e)
        OBVIOUS
    <1>3. /\ more \in Seq(EventSet) /\ Len(more) = n + 1
          /\ \A i \in 1 .. n : more[i] = es[i]
          /\ more[n + 1] = e
        BY <1>1, <1>2, AppendProperties
    <1>4. \A i \in 1 .. n + 1 : i \in 1 .. n \/ i = n + 1
        OBVIOUS
    <1>5. \A i \in 1 .. Len(more) : i \in Q => more[i].piece \in Fragments
        BY <1>0, <1>1, <1>3, <1>4, Zenon
    <1>6. PICK c : PieceSteps(es, P, c) /\ Client!Pieces(es, P) = c[Len(es)]
        BY <1>0, PiecesAre
    <1>7. PICK d : PieceSteps(more, Q, d) /\ Client!Pieces(more, Q) = d[Len(more)]
        BY <1>3, <1>5, PiecesAre
    <1>8. \A i \in 0 .. n : c[i] = d[i]
        <2>1. c[0] = d[0]
            BY <1>6, <1>7, Zenon DEF PieceSteps
        <2>2. ASSUME NEW i \in 1 .. n, c[i - 1] = d[i - 1] PROVE c[i] = d[i]
            <3>1. i \in 1 .. Len(es) /\ i \in 1 .. Len(more)
                BY <1>1, <1>3
            <3>2. c[i] = IF i \in P THEN Append(c[i - 1], es[i].piece) ELSE c[i - 1]
                BY <1>6, <3>1, Zenon DEF PieceSteps
            <3>3. d[i] = IF i \in Q THEN Append(d[i - 1], more[i].piece) ELSE d[i - 1]
                BY <1>7, <3>1, Zenon DEF PieceSteps
            <3>4. more[i] = es[i] /\ (i \in P <=> i \in Q)
                BY <1>0, <1>3, <3>1, Zenon
            <3>5. QED
                BY <2>2, <3>2, <3>3, <3>4
        <2>3. QED
            BY <2>1, <2>2, SameHistory
    <1>9. c[n] = d[n]
        BY <1>8
    <1>10. d[n + 1] = IF n + 1 \in Q THEN Append(d[n], e.piece) ELSE d[n]
        <2>1. n + 1 \in 1 .. Len(more) /\ (n + 1) - 1 = n
            BY <1>3
        <2>2. QED
            BY <1>3, <1>7, <2>1, Zenon DEF PieceSteps
    <1>11. QED
        BY <1>1, <1>2, <1>3, <1>6, <1>7, <1>9, <1>10, Zenon DEF PiecesGoOn

LEMMA HasMore ==
    ASSUME NEW es \in Seq(EventSet), NEW e \in EventSet, NEW type
    PROVE  Client!Has(Append(es, e), type) <=> Client!Has(es, type) \/ e.type = type
    <1>1. PICK n \in Nat : n = Len(es)
        OBVIOUS
    <1>2. PICK more : more = Append(es, e)
        OBVIOUS
    <1>3. /\ more \in Seq(EventSet) /\ Len(more) = n + 1
          /\ \A i \in 1 .. n : more[i] = es[i]
          /\ more[n + 1] = e
        BY <1>1, <1>2, AppendProperties
    <1>4. DOMAIN more = 1 .. n + 1 /\ DOMAIN es = 1 .. n
        BY <1>1, <1>3
    <1>5. /\ \A i \in 1 .. n + 1 : i \in 1 .. n \/ i = n + 1
          /\ n + 1 \in 1 .. n + 1 /\ \A i \in 1 .. n : i \in 1 .. n + 1
        OBVIOUS
    <1>6. Client!Has(more, type) <=> Client!Has(es, type) \/ e.type = type
        BY <1>3, <1>4, <1>5, Zenon DEF Client!Has
    <1>7. QED
        BY <1>2, <1>6

LEMMA ShownMore ==
    ASSUME NEW es \in Seq(EventSet), NEW e \in EventSet
    PROVE  /\ Client!Shown(es) \in Seq(Fragments)
           /\ e.type = "delta" =>
                 Client!Shown(Append(es, e)) = Append(Client!Shown(es), e.piece)
           /\ e.type # "delta" => Client!Shown(Append(es, e)) = Client!Shown(es)
    <1>1. PICK n \in Nat : n = Len(es)
        OBVIOUS
    <1>2. PICK more : more = Append(es, e)
        OBVIOUS
    <1>3. /\ more \in Seq(EventSet) /\ Len(more) = n + 1
          /\ \A i \in 1 .. n : more[i] = es[i]
          /\ more[n + 1] = e
        BY <1>1, <1>2, AppendProperties
    <1>4. DOMAIN more = 1 .. n + 1 /\ DOMAIN es = 1 .. n
        BY <1>1, <1>3
    <1>5. /\ n + 1 \in 1 .. n + 1 /\ \A i \in 1 .. n : i \in 1 .. n + 1
        OBVIOUS
    <1>6. PICK P, Q : /\ P = {i \in DOMAIN es : es[i].type = "delta"}
                      /\ Q = {i \in DOMAIN more : more[i].type = "delta"}
        OBVIOUS
    <1>7. \A i \in 1 .. n : i \in P <=> i \in Q
        BY <1>3, <1>4, <1>5, <1>6, Zenon
    <1>8. \A i \in 1 .. n : i \in P => es[i].piece \in Fragments
        <2>1. \A i \in 1 .. n : es[i] \in EventSet
            BY <1>1
        <2>2. QED
            BY <1>6, <2>1, PiecesAreFragments, Zenon
    <1>9. n + 1 \in Q <=> e.type = "delta"
        BY <1>3, <1>4, <1>5, <1>6, Zenon
    <1>10. n + 1 \in Q => e.piece \in Fragments
        BY <1>9, PiecesAreFragments, Zenon
    <1>11. /\ Client!Shown(es) = Client!Pieces(es, P)
           /\ Client!Shown(more) = Client!Pieces(more, Q)
        BY <1>6, Zenon DEF Client!Shown
    <1>12. Client!Pieces(es, P) \in Seq(Fragments)
        BY <1>1, <1>8, PiecesAre, Zenon
    <1>13. /\ n + 1 \in Q => Client!Pieces(more, Q)
                               = Append(Client!Pieces(es, P), e.piece)
           /\ n + 1 \notin Q => Client!Pieces(more, Q) = Client!Pieces(es, P)
        <2>1. PlacesGoOn(es, e, P, Q)
            BY <1>1, <1>7, <1>8, <1>10, Zenon DEF PlacesGoOn
        <2>2. PiecesGoOn(es, e, P, Q)
            BY <2>1, PiecesMore, Zenon
        <2>3. QED
            BY <1>1, <1>2, <2>2, Zenon DEF PiecesGoOn
    <1>14. QED
        BY <1>2, <1>9, <1>11, <1>12, <1>13, Zenon

LEMMA ShownArgsMore ==
    ASSUME NEW es \in Seq(EventSet), NEW e \in EventSet, NEW index
    PROVE  /\ Client!ShownArgs(es, index) \in Seq(Fragments)
           /\ e.type = "args" /\ e.index = index =>
                 Client!ShownArgs(Append(es, e), index)
                    = Append(Client!ShownArgs(es, index), e.piece)
           /\ ~(e.type = "args" /\ e.index = index) =>
                 Client!ShownArgs(Append(es, e), index) = Client!ShownArgs(es, index)
    <1>1. PICK n \in Nat : n = Len(es)
        OBVIOUS
    <1>2. PICK more : more = Append(es, e)
        OBVIOUS
    <1>3. /\ more \in Seq(EventSet) /\ Len(more) = n + 1
          /\ \A i \in 1 .. n : more[i] = es[i]
          /\ more[n + 1] = e
        BY <1>1, <1>2, AppendProperties
    <1>4. DOMAIN more = 1 .. n + 1 /\ DOMAIN es = 1 .. n
        BY <1>1, <1>3
    <1>5. /\ n + 1 \in 1 .. n + 1 /\ \A i \in 1 .. n : i \in 1 .. n + 1
        OBVIOUS
    <1>6. PICK P, Q :
            /\ P = {i \in DOMAIN es : es[i].type = "args" /\ es[i].index = index}
            /\ Q = {i \in DOMAIN more : more[i].type = "args" /\ more[i].index = index}
        OBVIOUS
    <1>7. \A i \in 1 .. n : i \in P <=> i \in Q
        BY <1>3, <1>4, <1>5, <1>6, Zenon
    <1>8. \A i \in 1 .. n : i \in P => es[i].piece \in Fragments
        <2>1. \A i \in 1 .. n : es[i] \in EventSet
            BY <1>1
        <2>2. QED
            BY <1>6, <2>1, PiecesAreFragments, Zenon
    <1>9. n + 1 \in Q <=> e.type = "args" /\ e.index = index
        BY <1>3, <1>4, <1>5, <1>6, Zenon
    <1>10. n + 1 \in Q => e.piece \in Fragments
        BY <1>9, PiecesAreFragments, Zenon
    <1>11. /\ Client!ShownArgs(es, index) = Client!Pieces(es, P)
           /\ Client!ShownArgs(more, index) = Client!Pieces(more, Q)
        BY <1>6, Zenon DEF Client!ShownArgs
    <1>12. Client!Pieces(es, P) \in Seq(Fragments)
        BY <1>1, <1>8, PiecesAre, Zenon
    <1>13. /\ n + 1 \in Q => Client!Pieces(more, Q)
                               = Append(Client!Pieces(es, P), e.piece)
           /\ n + 1 \notin Q => Client!Pieces(more, Q) = Client!Pieces(es, P)
        <2>1. PlacesGoOn(es, e, P, Q)
            BY <1>1, <1>7, <1>8, <1>10, Zenon DEF PlacesGoOn
        <2>2. PiecesGoOn(es, e, P, Q)
            BY <2>1, PiecesMore, Zenon
        <2>3. QED
            BY <1>1, <1>2, <2>2, Zenon DEF PiecesGoOn
    <1>14. QED
        BY <1>2, <1>9, <1>11, <1>12, <1>13, Zenon

LEMMA NothingShown ==
    /\ Client!Shown(<<>>) = <<>>
    /\ \A index : Client!ShownArgs(<<>>, index) = <<>>
    /\ \A type : ~Client!Has(<<>>, type)
    <1>1. ASSUME NEW places PROVE Client!Pieces(<<>>, places) = <<>>
        <2>1. <<>> \in Seq({}) /\ Len(<<>>) = 0
            OBVIOUS
        <2>2. \A i \in 1 .. Len(<<>>) : i \in places => <<>>[i].piece \in Fragments
            BY <2>1
        <2>3. PICK c : PieceSteps(<<>>, places, c)
                       /\ Client!Pieces(<<>>, places) = c[Len(<<>>)]
            BY <2>1, <2>2, PiecesAre
        <2>4. QED
            BY <2>1, <2>3, Zenon DEF PieceSteps
    <1>2. Client!Shown(<<>>) = <<>>
        BY <1>1, Zenon DEF Client!Shown
    <1>3. \A index : Client!ShownArgs(<<>>, index) = <<>>
        BY <1>1, Zenon DEF Client!ShownArgs
    <1>4. \A type : ~Client!Has(<<>>, type)
        BY DEF Client!Has
    <1>5. QED
        BY <1>2, <1>3, <1>4

-----------------------------------------------------------------------------
(* Events that follow the protocol.                                        *)

Follows(es, e, exact) ==
    /\ Client!MayFollow(es, e, exact)
    /\ Client!Has(es, "completed") => e.type = "error"

\* Every event of the list may follow the events before it.
Legal(es, exact) == \A i \in 1 .. Len(es) : Follows(SubSeq(es, 1, i - 1), es[i], exact)

LEMMA LegalMore ==
    ASSUME NEW exact, NEW es \in Seq(EventSet), NEW e \in EventSet,
           Legal(es, exact), Follows(es, e, exact)
    PROVE  Append(es, e) \in Seq(EventSet) /\ Legal(Append(es, e), exact)
    <1>1. PICK n \in Nat : n = Len(es)
        OBVIOUS
    <1>2. PICK more : more = Append(es, e)
        OBVIOUS
    <1>3. /\ more \in Seq(EventSet) /\ Len(more) = n + 1
          /\ \A i \in 1 .. n : more[i] = es[i]
          /\ more[n + 1] = e
        BY <1>1, <1>2, AppendProperties
    <1>4. \A i \in 1 .. n + 1 : SubSeq(more, 1, i - 1) = SubSeq(es, 1, i - 1)
        <2>1. TAKE i \in 1 .. n + 1
        <2>2. PICK k \in Nat : k = i - 1 /\ k <= n
            OBVIOUS
        <2>3. PICK x, y : x = SubSeq(more, 1, k) /\ y = SubSeq(es, 1, k)
            OBVIOUS
        <2>4. (\A j \in 1 .. k : more[j] \in EventSet) /\ 1 \in Int /\ k \in Int
            BY <1>3, <2>2
        <2>5. \A j \in 1 .. k : es[j] \in EventSet
            BY <1>1, <2>2
        <2>6. /\ x \in Seq(EventSet) /\ Len(x) = (IF 1 <= k THEN k - 1 + 1 ELSE 0)
              /\ \A j \in 1 .. k - 1 + 1 : x[j] = more[1 + j - 1]
            BY <2>3, <2>4, SubSeqProperties
        <2>7. /\ y \in Seq(EventSet) /\ Len(y) = (IF 1 <= k THEN k - 1 + 1 ELSE 0)
              /\ \A j \in 1 .. k - 1 + 1 : y[j] = es[1 + j - 1]
            BY <2>3, <2>4, <2>5, SubSeqProperties
        <2>8. k - 1 + 1 = k /\ \A j \in 1 .. k : 1 + j - 1 = j /\ j \in 1 .. n
            BY <2>2
        <2>9. \A j \in 1 .. k : x[j] = y[j]
            BY <1>3, <2>6, <2>7, <2>8, Zenon
        <2>10. Len(x) = k /\ Len(y) = k
            BY <2>6, <2>7, <2>8
        <2>11. x = y
            BY <2>6, <2>7, <2>9, <2>10, SeqEqual, Zenon
        <2>12. QED
            BY <2>2, <2>3, <2>11
    <1>5. SubSeq(es, 1, (n + 1) - 1) = es
        BY <1>1, SubSeqFull
    <1>6. \A i \in 1 .. n + 1 : i \in 1 .. n \/ i = n + 1
        OBVIOUS
    <1>7. ASSUME NEW i \in 1 .. n + 1 PROVE Follows(SubSeq(more, 1, i - 1), more[i], exact)
        <2>1. CASE i \in 1 .. n
            <3>1. Follows(SubSeq(es, 1, i - 1), es[i], exact)
                BY <1>1, <2>1, Zenon DEF Legal
            <3>2. QED
                BY <1>3, <1>4, <2>1, <3>1, Zenon
        <2>2. CASE i = n + 1
            <3>1. SubSeq(more, 1, i - 1) = es
                BY <1>4, <1>5, <2>2, Zenon
            <3>2. more[i] = e
                BY <1>3, <2>2, Zenon
            <3>3. QED
                BY <3>1, <3>2, Zenon
        <2>3. QED
            BY <1>6, <2>1, <2>2
    <1>8. Legal(more, exact)
        BY <1>3, <1>7, Zenon DEF Legal
    <1>9. QED
        BY <1>2, <1>3, <1>8

-----------------------------------------------------------------------------
(* What an adapter has said, and what it has accumulated.                  *)

LEMMA SameSuffix ==
    ASSUME NEW s, NEW t
    PROVE  Client!IsSuffix(s, t) <=> IsSuffix(s, t)
    BY DEF Client!IsSuffix, Client!IsPrefix, Client!Reverse, IsSuffix, IsPrefix, Reverse

\* The accumulated calls are what was shown of them.
CallsTold(es, c, exact) ==
    /\ c \in CallMaps
    /\ \A i \in DOMAIN c : /\ IsSuffix(c[i], Client!ShownArgs(es, i))
                           /\ exact => c[i] = Client!ShownArgs(es, i)
    /\ \A i \in Nat \ DOMAIN c : Client!ShownArgs(es, i) = <<>>

\* The events follow the protocol, and what has been accumulated is what they
\* showed.
Told(es, it, pt, t, c, exact) ==
    /\ es \in Seq(EventSet)
    /\ Legal(es, exact)
    /\ it \in BOOLEAN /\ (it <=> Client!Has(es, "item"))
    /\ pt \in BOOLEAN /\ (pt <=> Client!Has(es, "part"))
    /\ t = Client!Shown(es)
    /\ CallsTold(es, c, exact)

\* The response was announced and is not complete.
Talking(es) ==
    /\ Client!Has(es, "created") /\ Client!Has(es, "in_progress")
    /\ ~Client!Has(es, "completed")

LEMMA TalkingMore ==
    ASSUME NEW es \in Seq(EventSet), NEW e \in EventSet, Talking(es),
           e.type # "completed"
    PROVE  Talking(Append(es, e))
    BY HasMore, Zenon DEF Talking

LEMMA FollowsIf ==
    ASSUME NEW exact, NEW es \in Seq(EventSet), Talking(es)
    PROVE  /\ Follows(es, Event("in_progress"), exact) /\ Follows(es, Event("error"), exact)
           /\ ~Client!Has(es, "item") => Follows(es, Event("item"), exact)
           /\ Client!Has(es, "item") /\ ~Client!Has(es, "part") =>
                 Follows(es, Event("part"), exact)
           /\ \A piece \in Fragments :
                 Client!Has(es, "part") => Follows(es, Delta(piece), exact)
           /\ \A index \in Nat, piece \in Fragments : Follows(es, Args(index, piece), exact)
           /\ Client!Shown(es) # <<>> /\ ~Client!Has(es, "text_done") =>
                 Follows(es, Event("text_done"), exact)
    <1>1. ASSUME NEW e, e.type = "in_progress" \/ e.type = "error" \/ e.type = "args"
          PROVE  Follows(es, e, exact)
        BY <1>1 DEF Talking, Follows, Client!MayFollow
    <1>2. ASSUME NEW e, e.type = "item", ~Client!Has(es, "item") PROVE Follows(es, e, exact)
        BY <1>2 DEF Talking, Follows, Client!MayFollow
    <1>3. ASSUME NEW e, e.type = "part", Client!Has(es, "item"), ~Client!Has(es, "part")
          PROVE  Follows(es, e, exact)
        BY <1>3 DEF Talking, Follows, Client!MayFollow
    <1>4. ASSUME NEW e, e.type = "delta", Client!Has(es, "part") PROVE Follows(es, e, exact)
        BY <1>4 DEF Talking, Follows, Client!MayFollow
    <1>5. ASSUME NEW e, e.type = "text_done", Client!Shown(es) # <<>>,
                 ~Client!Has(es, "text_done")
          PROVE  Follows(es, e, exact)
        BY <1>5 DEF Talking, Follows, Client!MayFollow
    <1>6. \A type \in PlainTypes : Event(type).type = type
        BY EventsAre
    <1>7. /\ Event("in_progress").type = "in_progress" /\ Event("error").type = "error"
          /\ Event("item").type = "item" /\ Event("part").type = "part"
          /\ Event("text_done").type = "text_done"
        BY <1>6 DEF PlainTypes
    <1>8. /\ \A piece \in Fragments : Delta(piece).type = "delta"
          /\ \A index \in Nat, piece \in Fragments : Args(index, piece).type = "args"
        BY EventsAre
    <1>9. QED
        BY <1>1, <1>2, <1>3, <1>4, <1>5, <1>7, <1>8, Zenon

\* A completion that repeats what was told may follow.
LEMMA CompletionFollows ==
    ASSUME NEW exact, NEW es, NEW it, NEW pt, NEW t, NEW c,
           Told(es, it, pt, t, c, exact),
           Talking(es), NEW u \in BOOLEAN
    PROVE  Completed(t, c, u) \in EventSet /\ Follows(es, Completed(t, c, u), exact)
    <1>1. /\ t \in Seq(Fragments) /\ t = Client!Shown(es)
          /\ CallsTold(es, c, exact) /\ c \in CallMaps
        <2>1. es \in Seq(EventSet) /\ t = Client!Shown(es) /\ CallsTold(es, c, exact)
            BY DEF Told
        <2>2. Event("error") \in EventSet
            BY EventsAre DEF PlainTypes
        <2>3. Client!Shown(es) \in Seq(Fragments)
            BY <2>1, <2>2, ShownMore
        <2>4. QED
            BY <2>1, <2>3 DEF CallsTold
    <1>2. PICK e : e = Completed(t, c, u)
        OBVIOUS
    <1>3. e \in EventSet /\ e.type = "completed" /\ e.text = t /\ e.calls = c
        BY <1>1, <1>2, EventsAre
    <1>4. Client!Repeats(es, e, exact)
        <2>1. \A i \in DOMAIN c : /\ Client!IsSuffix(c[i], Client!ShownArgs(es, i))
                                  /\ exact
                                        => c[i] = Client!ShownArgs(es, i)
            BY <1>1, SameSuffix, Zenon DEF CallsTold
        <2>2. QED
            BY <1>1, <1>3, <2>1, Zenon DEF Client!Repeats
    <1>5. Follows(es, e, exact)
        BY <1>3, <1>4 DEF Follows, Client!MayFollow, Talking
    <1>6. QED
        BY <1>2, <1>3, <1>5

\* Events that show nothing.
LEMMA ToldOther ==
    ASSUME NEW exact, NEW es, NEW it, NEW pt, NEW t, NEW c,
           Told(es, it, pt, t, c, exact),
           NEW e \in EventSet, Follows(es, e, exact),
           e.type \in {"created", "in_progress", "text_done", "error", "completed"}
    PROVE  Told(Append(es, e), it, pt, t, c, exact)
    <1>1. es \in Seq(EventSet) /\ Legal(es, exact)
        BY DEF Told
    <1>2. Append(es, e) \in Seq(EventSet) /\ Legal(Append(es, e), exact)
        BY <1>1, LegalMore
    <1>3. e.type # "item" /\ e.type # "part" /\ e.type # "delta" /\ e.type # "args"
        OBVIOUS
    <1>4. /\ Client!Has(Append(es, e), "item") <=> Client!Has(es, "item")
          /\ Client!Has(Append(es, e), "part") <=> Client!Has(es, "part")
        BY <1>1, <1>3, HasMore, Zenon
    <1>5. Client!Shown(Append(es, e)) = Client!Shown(es)
        BY <1>1, <1>3, ShownMore, Zenon
    <1>6. \A i : Client!ShownArgs(Append(es, e), i) = Client!ShownArgs(es, i)
        BY <1>1, <1>3, ShownArgsMore, Zenon
    <1>7. CallsTold(Append(es, e), c, exact)
        BY <1>6, Zenon DEF Told, CallsTold
    <1>8. QED
        BY <1>2, <1>4, <1>5, <1>7, Zenon DEF Told

LEMMA ToldItem ==
    ASSUME NEW exact, NEW es, NEW it, NEW pt, NEW t, NEW c,
           Told(es, it, pt, t, c, exact),
           Talking(es), it = FALSE
    PROVE  Told(Append(es, Event("item")), TRUE, pt, t, c, exact)
    <1>1. es \in Seq(EventSet) /\ Legal(es, exact) /\ ~Client!Has(es, "item")
        BY DEF Told
    <1>2. PICK e \in EventSet : e = Event("item") /\ e.type = "item"
        BY EventsAre DEF PlainTypes
    <1>3. Follows(es, e, exact)
        BY <1>1, <1>2, FollowsIf, Zenon
    <1>4. Append(es, e) \in Seq(EventSet) /\ Legal(Append(es, e), exact)
        BY <1>1, <1>3, LegalMore
    <1>5. e.type # "part" /\ e.type # "delta" /\ e.type # "args"
        BY <1>2
    <1>6. /\ Client!Has(Append(es, e), "item")
          /\ Client!Has(Append(es, e), "part") <=> Client!Has(es, "part")
        BY <1>1, <1>2, <1>5, HasMore, Zenon
    <1>7. Client!Shown(Append(es, e)) = Client!Shown(es)
        BY <1>1, <1>5, ShownMore, Zenon
    <1>8. \A i : Client!ShownArgs(Append(es, e), i) = Client!ShownArgs(es, i)
        BY <1>1, <1>5, ShownArgsMore, Zenon
    <1>9. CallsTold(Append(es, e), c, exact)
        BY <1>8, Zenon DEF Told, CallsTold
    <1>10. Told(Append(es, e), TRUE, pt, t, c, exact)
        BY <1>4, <1>6, <1>7, <1>9, Zenon DEF Told
    <1>11. QED
        BY <1>2, <1>10

LEMMA ToldPart ==
    ASSUME NEW exact, NEW es, NEW it, NEW pt, NEW t, NEW c,
           Told(es, it, pt, t, c, exact),
           Talking(es), Client!Has(es, "item"), pt = FALSE
    PROVE  Told(Append(es, Event("part")), it, TRUE, t, c, exact)
    <1>1. es \in Seq(EventSet) /\ Legal(es, exact) /\ Client!Has(es, "item")
          /\ ~Client!Has(es, "part")
        BY DEF Told
    <1>2. PICK e \in EventSet : e = Event("part") /\ e.type = "part"
        BY EventsAre DEF PlainTypes
    <1>3. Follows(es, e, exact)
        BY <1>1, <1>2, FollowsIf, Zenon
    <1>4. Append(es, e) \in Seq(EventSet) /\ Legal(Append(es, e), exact)
        BY <1>1, <1>3, LegalMore
    <1>5. e.type # "item" /\ e.type # "delta" /\ e.type # "args"
        BY <1>2
    <1>6. /\ Client!Has(Append(es, e), "part")
          /\ Client!Has(Append(es, e), "item") <=> Client!Has(es, "item")
        BY <1>1, <1>2, <1>5, HasMore, Zenon
    <1>7. Client!Shown(Append(es, e)) = Client!Shown(es)
        BY <1>1, <1>5, ShownMore, Zenon
    <1>8. \A i : Client!ShownArgs(Append(es, e), i) = Client!ShownArgs(es, i)
        BY <1>1, <1>5, ShownArgsMore, Zenon
    <1>9. CallsTold(Append(es, e), c, exact)
        BY <1>8, Zenon DEF Told, CallsTold
    <1>10. Told(Append(es, e), it, TRUE, t, c, exact)
        BY <1>4, <1>6, <1>7, <1>9, Zenon DEF Told
    <1>11. QED
        BY <1>2, <1>10

LEMMA ToldDelta ==
    ASSUME NEW exact, NEW es, NEW it, NEW pt, NEW t, NEW c,
           Told(es, it, pt, t, c, exact),
           Talking(es), Client!Has(es, "part"), NEW piece \in Fragments
    PROVE  Told(Append(es, Delta(piece)), it, pt, Append(t, piece), c, exact)
    <1>1. es \in Seq(EventSet) /\ Legal(es, exact) /\ Client!Has(es, "part")
        BY DEF Told
    <1>2. PICK e \in EventSet : e = Delta(piece) /\ e.type = "delta" /\ e.piece = piece
        BY EventsAre
    <1>3. Follows(es, e, exact)
        BY <1>1, <1>2, FollowsIf, Zenon
    <1>4. Append(es, e) \in Seq(EventSet) /\ Legal(Append(es, e), exact)
        BY <1>1, <1>3, LegalMore
    <1>5. e.type # "item" /\ e.type # "part" /\ e.type # "args"
        BY <1>2
    <1>6. /\ Client!Has(Append(es, e), "part") <=> Client!Has(es, "part")
          /\ Client!Has(Append(es, e), "item") <=> Client!Has(es, "item")
        BY <1>1, <1>2, <1>5, HasMore, Zenon
    <1>7. Client!Shown(Append(es, e)) = Append(Client!Shown(es), piece)
        BY <1>1, <1>2, ShownMore, Zenon
    <1>8. \A i : Client!ShownArgs(Append(es, e), i) = Client!ShownArgs(es, i)
        BY <1>1, <1>5, ShownArgsMore, Zenon
    <1>9. CallsTold(Append(es, e), c, exact)
        BY <1>8, Zenon DEF Told, CallsTold
    <1>10. Told(Append(es, e), it, pt, Append(t, piece), c, exact)
        BY <1>4, <1>6, <1>7, <1>9, Zenon DEF Told
    <1>11. QED
        BY <1>2, <1>10

\* An event with arguments, and the calls as they become.
LEMMA ToldArgs ==
    ASSUME NEW exact, NEW es, NEW it, NEW pt, NEW t, NEW c,
           Told(es, it, pt, t, c, exact),
           Talking(es), NEW index \in Nat, NEW piece \in Fragments, NEW c2,
           CallsTold(Append(es, Args(index, piece)), c2, exact)
    PROVE  Told(Append(es, Args(index, piece)), it, pt, t, c2, exact)
    <1>1. es \in Seq(EventSet) /\ Legal(es, exact)
        BY DEF Told
    <1>2. PICK e \in EventSet : e = Args(index, piece) /\ e.type = "args"
        BY EventsAre
    <1>3. Follows(es, e, exact)
        BY <1>1, <1>2, FollowsIf, Zenon
    <1>4. Append(es, e) \in Seq(EventSet) /\ Legal(Append(es, e), exact)
        BY <1>1, <1>3, LegalMore
    <1>5. e.type # "item" /\ e.type # "part" /\ e.type # "delta"
        BY <1>2
    <1>6. /\ Client!Has(Append(es, e), "part") <=> Client!Has(es, "part")
          /\ Client!Has(Append(es, e), "item") <=> Client!Has(es, "item")
        BY <1>1, <1>2, <1>5, HasMore, Zenon
    <1>7. Client!Shown(Append(es, e)) = Client!Shown(es)
        BY <1>1, <1>5, ShownMore, Zenon
    <1>8. CallsTold(Append(es, e), c2, exact)
        BY <1>2
    <1>9. Told(Append(es, e), it, pt, t, c2, exact)
        BY <1>4, <1>6, <1>7, <1>8, Zenon DEF Told
    <1>10. QED
        BY <1>2, <1>9

LEMMA CallMapIs ==
    ASSUME NEW c \in CallMaps
    PROVE  DOMAIN c \subseteq Nat /\ \A i \in DOMAIN c : c[i] \in Seq(Fragments)
    <1>1. PICK D \in SUBSET Nat : c \in [D -> Seq(Fragments)]
        BY Zenon DEF CallMaps
    <1>2. QED
        BY <1>1

LEMMA CallMapOf ==
    ASSUME NEW D \in SUBSET Nat, NEW c \in [D -> Seq(Fragments)]
    PROVE  c \in CallMaps
    BY Zenon DEF CallMaps

LEMMA IsOwnSuffix ==
    ASSUME NEW s \in Seq(Fragments)
    PROVE  IsSuffix(s, s)
    <1>1. 0 \in Nat /\ Len(s) = Len(s) + 0 /\ \A i \in 1 .. Len(s) : s[i] = s[i + 0]
        OBVIOUS
    <1>2. QED
        BY <1>1, SuffixIs, Zenon

\* Calls of which one has pieces more.
GrownCalls(c, index, pieces, w) ==
    /\ w \in CallMaps
    /\ DOMAIN w = DOMAIN c \cup {index}
    /\ \A i \in DOMAIN c : i # index => w[i] = c[i]
    /\ w[index] = IF index \in DOMAIN c THEN c[index] \o pieces ELSE pieces

\* accumulated_tool_calls.entry(index).or_default(), then push_str.
LEMMA WithArgsIs ==
    ASSUME NEW c \in CallMaps, NEW index \in Nat, NEW pieces \in Seq(Fragments)
    PROVE  GrownCalls(c, index, pieces, WithArgs(c, index, pieces))
    <1>1. DOMAIN c \subseteq Nat /\ \A i \in DOMAIN c : c[i] \in Seq(Fragments)
        BY CallMapIs
    <1>2. PICK D : D = DOMAIN c \cup {index}
        OBVIOUS
    <1>3. PICK w : w = WithArgs(c, index, pieces)
        OBVIOUS
    <1>4. w = [i \in D |-> IF i # index THEN c[i]
                           ELSE IF i \in DOMAIN c THEN c[i] \o pieces ELSE pieces]
        BY <1>2, <1>3 DEF WithArgs
    <1>5. \A i \in D : (IF i # index THEN c[i]
                        ELSE IF i \in DOMAIN c THEN c[i] \o pieces ELSE pieces)
                          \in Seq(Fragments)
        <2>1. TAKE i \in D
        <2>2. CASE i # index
            BY <1>1, <1>2, <2>2
        <2>3. CASE i = index /\ i \in DOMAIN c
            <3>1. c[i] \in Seq(Fragments)
                BY <1>1, <2>3
            <3>2. c[i] \o pieces \in Seq(Fragments)
                BY <3>1
            <3>3. QED
                BY <2>3, <3>2
        <2>4. CASE i = index /\ i \notin DOMAIN c
            BY <2>4
        <2>5. QED
            BY <2>2, <2>3, <2>4
    <1>6. w \in [D -> Seq(Fragments)]
        BY <1>4, <1>5, Zenon
    <1>7. D \in SUBSET Nat
        BY <1>1, <1>2
    <1>8. w \in CallMaps
        BY <1>6, <1>7, CallMapOf
    <1>9. /\ DOMAIN w = D
          /\ \A i \in DOMAIN c : i # index => w[i] = c[i]
          /\ w[index] = IF index \in DOMAIN c THEN c[index] \o pieces ELSE pieces
        BY <1>2, <1>4, Zenon
    <1>10. GrownCalls(c, index, pieces, w)
        BY <1>2, <1>8, <1>9, Zenon DEF GrownCalls
    <1>11. QED
        BY <1>3, <1>10

\* A piece of a call's arguments is shown and kept.
LEMMA CallGrows ==
    ASSUME NEW exact, NEW es \in Seq(EventSet), NEW c, CallsTold(es, c, exact), exact,
           NEW index \in Nat, NEW piece \in Fragments
    PROVE  CallsTold(Append(es, Args(index, piece)), WithArgs(c, index, <<piece>>), exact)
    <1>1. PICK e \in EventSet : e = Args(index, piece) /\ e.type = "args"
                                /\ e.index = index /\ e.piece = piece
        BY EventsAre
    <1>2. PICK more : more = Append(es, e)
        OBVIOUS
    <1>3. c \in CallMaps /\ DOMAIN c \subseteq Nat
          /\ \A i \in DOMAIN c : c[i] \in Seq(Fragments)
        BY CallMapIs DEF CallsTold
    <1>4. <<piece>> \in Seq(Fragments)
        OBVIOUS
    <1>5. PICK w : w = WithArgs(c, index, <<piece>>)
        OBVIOUS
    <1>6. /\ w \in CallMaps /\ DOMAIN w = DOMAIN c \cup {index}
          /\ \A i \in DOMAIN c : i # index => w[i] = c[i]
          /\ w[index] = IF index \in DOMAIN c THEN c[index] \o <<piece>> ELSE <<piece>>
        <2>1. GrownCalls(c, index, <<piece>>, w)
            BY <1>3, <1>4, <1>5, WithArgsIs, Zenon
        <2>2. QED
            BY <2>1, Zenon DEF GrownCalls
    <1>7. /\ Client!ShownArgs(more, index) = Append(Client!ShownArgs(es, index), piece)
          /\ Client!ShownArgs(es, index) \in Seq(Fragments)
        <2>1. /\ Client!ShownArgs(es, index) \in Seq(Fragments)
              /\ Client!ShownArgs(Append(es, e), index)
                   = Append(Client!ShownArgs(es, index), e.piece)
            BY <1>1, ShownArgsMore
        <2>2. QED
            BY <1>1, <1>2, <2>1, Zenon
    <1>8. \A i : i # index => Client!ShownArgs(more, i) = Client!ShownArgs(es, i)
        BY <1>1, <1>2, ShownArgsMore, Zenon
    <1>9. w[index] = Client!ShownArgs(more, index)
        <2>1. CASE index \in DOMAIN c
            <3>1. c[index] = Client!ShownArgs(es, index)
                BY <2>1, Zenon DEF CallsTold
            <3>2. w[index] = Client!ShownArgs(es, index) \o <<piece>>
                BY <1>6, <2>1, <3>1, Zenon
            <3>3. PICK s \in Seq(Fragments) : s = Client!ShownArgs(es, index)
                BY <1>7
            <3>4. s \o <<piece>> = Append(s, piece)
                BY AppendIsConcat
            <3>5. QED
                BY <1>7, <3>2, <3>3, <3>4, Zenon
        <2>2. CASE index \notin DOMAIN c
            <3>1. Client!ShownArgs(es, index) = <<>>
                BY <2>2, Zenon DEF CallsTold
            <3>2. Append(<<>>, piece) = <<piece>>
                OBVIOUS
            <3>3. QED
                BY <1>6, <1>7, <2>2, <3>1, <3>2, Zenon
        <2>3. QED
            BY <2>1, <2>2
    <1>10. \A i \in DOMAIN w : w[i] = Client!ShownArgs(more, i)
        <2>1. TAKE i \in DOMAIN w
        <2>2. CASE i = index
            BY <1>9, <2>2, Zenon
        <2>3. CASE i # index
            <3>1. i \in DOMAIN c
                BY <1>6, <2>3, Zenon
            <3>2. c[i] = Client!ShownArgs(es, i)
                BY <3>1, Zenon DEF CallsTold
            <3>3. QED
                BY <1>6, <1>8, <2>3, <3>1, <3>2, Zenon
        <2>4. QED
            BY <2>2, <2>3
    <1>11. \A i \in DOMAIN w : IsSuffix(w[i], Client!ShownArgs(more, i))
        <2>1. \A i \in DOMAIN w : w[i] \in Seq(Fragments)
            BY <1>6, CallMapIs
        <2>2. QED
            BY <1>10, <2>1, IsOwnSuffix, Zenon
    <1>12. \A i \in Nat \ DOMAIN w : Client!ShownArgs(more, i) = <<>>
        <2>1. TAKE i \in Nat \ DOMAIN w
        <2>2. i \in Nat \ DOMAIN c /\ i # index
            BY <1>6, Zenon
        <2>3. Client!ShownArgs(es, i) = <<>>
            BY <2>2, Zenon DEF CallsTold
        <2>4. QED
            BY <1>8, <2>2, <2>3, Zenon
    <1>13. CallsTold(more, w, exact)
        BY <1>6, <1>10, <1>11, <1>12, Zenon DEF CallsTold
    <1>14. QED
        BY <1>1, <1>2, <1>5, <1>13, Zenon

\* A call that starts has no arguments yet, and none were shown.
LEMMA CallStarts ==
    ASSUME NEW exact, NEW es \in Seq(EventSet), NEW c, CallsTold(es, c, exact), exact,
           NEW index \in Nat
    PROVE  CallsTold(es, WithArgs(c, index, <<>>), exact)
    <1>1. c \in CallMaps /\ DOMAIN c \subseteq Nat
          /\ \A i \in DOMAIN c : c[i] \in Seq(Fragments)
        BY CallMapIs DEF CallsTold
    <1>2. <<>> \in Seq(Fragments)
        OBVIOUS
    <1>3. PICK w : w = WithArgs(c, index, <<>>)
        OBVIOUS
    <1>4. /\ w \in CallMaps /\ DOMAIN w = DOMAIN c \cup {index}
          /\ \A i \in DOMAIN c : i # index => w[i] = c[i]
          /\ w[index] = IF index \in DOMAIN c THEN c[index] \o <<>> ELSE <<>>
        <2>1. GrownCalls(c, index, <<>>, w)
            BY <1>1, <1>2, <1>3, WithArgsIs, Zenon
        <2>2. QED
            BY <2>1, Zenon DEF GrownCalls
    <1>5. \A i \in DOMAIN w : w[i] = Client!ShownArgs(es, i)
        <2>1. TAKE i \in DOMAIN w
        <2>2. CASE i \in DOMAIN c
            <3>1. c[i] = Client!ShownArgs(es, i) /\ c[i] \in Seq(Fragments)
                BY <1>1, <2>2, Zenon DEF CallsTold
            <3>2. c[i] \o <<>> = c[i]
                BY <3>1, ConcatEmptySeq
            <3>3. w[i] = c[i]
                BY <1>4, <2>2, <3>2, Zenon
            <3>4. QED
                BY <3>1, <3>3
        <2>3. CASE i \notin DOMAIN c
            <3>1. i = index /\ i \in Nat \ DOMAIN c
                BY <1>4, <2>3
            <3>2. Client!ShownArgs(es, i) = <<>>
                BY <3>1, Zenon DEF CallsTold
            <3>3. w[index] = <<>>
                BY <1>4, <2>3, <3>1, Zenon
            <3>4. QED
                BY <3>1, <3>2, <3>3, Zenon
        <2>4. QED
            BY <2>2, <2>3
    <1>6. \A i \in DOMAIN w : IsSuffix(w[i], Client!ShownArgs(es, i))
        <2>1. \A i \in DOMAIN w : w[i] \in Seq(Fragments)
            BY <1>4, CallMapIs
        <2>2. QED
            BY <1>5, <2>1, IsOwnSuffix, Zenon
    <1>7. \A i \in Nat \ DOMAIN w : Client!ShownArgs(es, i) = <<>>
        BY <1>4, Zenon DEF CallsTold
    <1>8. CallsTold(es, w, exact)
        BY <1>4, <1>5, <1>6, <1>7, Zenon DEF CallsTold
    <1>9. QED
        BY <1>3, <1>8

\* Gemini's adapter keeps the last call at a position.
CallAt(c, index, pieces) ==
    [j \in DOMAIN c \cup {index} |-> IF j = index THEN pieces ELSE c[j]]

LEMMA CallIsReplaced ==
    ASSUME NEW exact, NEW es \in Seq(EventSet), NEW c, CallsTold(es, c, exact),
           exact = FALSE,
           NEW index \in Nat, NEW piece \in Fragments
    PROVE  CallsTold(Append(es, Args(index, piece)), CallAt(c, index, <<piece>>), exact)
    <1>1. PICK e \in EventSet : e = Args(index, piece) /\ e.type = "args"
                                /\ e.index = index /\ e.piece = piece
        BY EventsAre
    <1>2. PICK more : more = Append(es, e)
        OBVIOUS
    <1>3. c \in CallMaps /\ DOMAIN c \subseteq Nat
          /\ \A i \in DOMAIN c : c[i] \in Seq(Fragments)
        BY CallMapIs DEF CallsTold
    <1>4. <<piece>> \in Seq(Fragments)
        OBVIOUS
    <1>5. PICK D \in SUBSET Nat : D = DOMAIN c \cup {index}
        BY <1>3
    <1>6. PICK w : w = [j \in D |-> IF j = index THEN <<piece>> ELSE c[j]]
        OBVIOUS
    <1>7. w = CallAt(c, index, <<piece>>)
        BY <1>5, <1>6 DEF CallAt
    <1>8. /\ DOMAIN w = D /\ w[index] = <<piece>>
          /\ \A i \in DOMAIN c : i # index => w[i] = c[i]
        BY <1>5, <1>6, Zenon
    <1>9. w \in CallMaps
        <2>1. \A j \in D : (IF j = index THEN <<piece>> ELSE c[j]) \in Seq(Fragments)
            BY <1>3, <1>4, <1>5, Zenon
        <2>2. w \in [D -> Seq(Fragments)]
            BY <1>6, <2>1, Zenon
        <2>3. QED
            BY <2>2, CallMapOf
    <1>10. /\ Client!ShownArgs(more, index) = Append(Client!ShownArgs(es, index), piece)
           /\ Client!ShownArgs(es, index) \in Seq(Fragments)
        <2>1. /\ Client!ShownArgs(es, index) \in Seq(Fragments)
              /\ Client!ShownArgs(Append(es, e), index)
                   = Append(Client!ShownArgs(es, index), e.piece)
            BY <1>1, ShownArgsMore
        <2>2. QED
            BY <1>1, <1>2, <2>1, Zenon
    <1>11. \A i : i # index => Client!ShownArgs(more, i) = Client!ShownArgs(es, i)
        BY <1>1, <1>2, ShownArgsMore, Zenon
    <1>12. IsSuffix(<<piece>>, Client!ShownArgs(more, index))
        <2>1. PICK s \in Seq(Fragments) : s = Client!ShownArgs(es, index)
            BY <1>10
        <2>2. PICK a \in Nat : a = Len(s)
            OBVIOUS
        <2>3. PICK t, u : t = Append(s, piece) /\ u = <<piece>>
            OBVIOUS
        <2>4. t \in Seq(Fragments) /\ Len(t) = a + 1 /\ t[a + 1] = piece
            BY <2>2, <2>3, AppendProperties
        <2>5. u \in Seq(Fragments) /\ Len(u) = 1 /\ u[1] = piece
            BY <2>3
        <2>6. Len(t) = Len(u) + a /\ 1 + a = a + 1
            BY <2>4, <2>5
        <2>7. \A i \in 1 .. Len(u) : u[i] = t[i + a]
            <3>1. \A i \in 1 .. 1 : i = 1
                OBVIOUS
            <3>2. QED
                BY <2>4, <2>5, <2>6, <3>1, Zenon
        <2>8. IsSuffix(u, t)
            BY <2>4, <2>5, <2>6, <2>7, SuffixIs, Zenon
        <2>9. QED
            BY <1>10, <2>1, <2>3, <2>8, Zenon
    <1>13. \A i \in DOMAIN w : IsSuffix(w[i], Client!ShownArgs(more, i))
        <2>1. TAKE i \in DOMAIN w
        <2>2. CASE i = index
            BY <1>8, <1>12, <2>2, Zenon
        <2>3. CASE i # index
            <3>1. i \in DOMAIN c
                BY <1>5, <1>8, <2>3, Zenon
            <3>2. IsSuffix(c[i], Client!ShownArgs(es, i))
                BY <3>1, Zenon DEF CallsTold
            <3>3. QED
                BY <1>8, <1>11, <2>3, <3>1, <3>2, Zenon
        <2>4. QED
            BY <2>2, <2>3
    <1>14. \A i \in Nat \ DOMAIN w : Client!ShownArgs(more, i) = <<>>
        <2>1. TAKE i \in Nat \ DOMAIN w
        <2>2. i \in Nat \ DOMAIN c /\ i # index
            BY <1>5, <1>8, Zenon
        <2>3. Client!ShownArgs(es, i) = <<>>
            BY <2>2, Zenon DEF CallsTold
        <2>4. QED
            BY <1>11, <2>2, <2>3, Zenon
    <1>15. CallsTold(more, w, exact)
        BY <1>9, <1>13, <1>14, Zenon DEF CallsTold
    <1>16. QED
        BY <1>1, <1>2, <1>7, <1>15, Zenon

-----------------------------------------------------------------------------
(* The adapters and their frames.                                          *)

Families == {"chunks", "blocks", "parts"}

LEMMA AdapterOf ==
    ASSUME NEW family, NEW flags, NEW a, a = Adapter(family, flags)
    PROVE  /\ a.family = family
           /\ a.queues \in BOOLEAN /\ a.usage \in BOOLEAN /\ a.sdk \in BOOLEAN
           /\ "queues" \notin flags => ~a.queues
           /\ "queues" \in flags => a.queues
           /\ "sdk" \notin flags => ~a.sdk
    <1>1. /\ a.family = family
          /\ a.queues = ("queues" \in flags)
          /\ a.usage = ("usage" \in flags)
          /\ a.sdk = ("sdk" \in flags)
        BY Zenon DEF Adapter
    <1>2. /\ ("queues" \in flags) \in BOOLEAN
          /\ ("usage" \in flags) \in BOOLEAN
          /\ ("sdk" \in flags) \in BOOLEAN
        BY SMT
    <1>3. QED
        BY <1>1, <1>2, Zenon

LEMMA AdapterIs ==
    ASSUME NEW a \in Adapters
    PROVE  /\ a.family \in Families
           /\ a.queues \in BOOLEAN /\ a.usage \in BOOLEAN /\ a.sdk \in BOOLEAN
           /\ a.family # "blocks" => ~a.sdk
           /\ a.family = "blocks" => ~a.queues
           /\ a.family = "parts" => a.queues
    <1>1. /\ "sdk" \notin {"usage"} /\ "sdk" \notin {} /\ "sdk" \notin {"queues", "usage"}
          /\ "queues" \notin {"usage"} /\ "queues" \notin {"usage", "sdk"}
          /\ "queues" \in {"queues", "usage"}
        OBVIOUS
    <1>2. PICK family, flags :
            /\ a = Adapter(family, flags)
            /\ \/ family = "chunks" /\ "sdk" \notin flags
               \/ family = "blocks" /\ "queues" \notin flags
               \/ family = "parts" /\ flags = {"queues", "usage"}
        <2>1. a \in {OpenAI, HuggingFace, Ollama, Mistral, Together, Fireworks,
                     Anthropic, Bedrock, Gemini}
            BY DEF Adapters
        <2>2. CASE a \in {OpenAI, HuggingFace, Ollama, Mistral, Together, Fireworks}
            <3>1. PICK flags \in {{"usage"}, {}, {"queues", "usage"}} :
                      a = Adapter("chunks", flags)
                BY <2>2 DEF OpenAI, HuggingFace, Ollama, Mistral, Together, Fireworks
            <3>2. "sdk" \notin flags
                BY <1>1
            <3>3. QED
                BY <3>1, <3>2
        <2>3. CASE a \in {Anthropic, Bedrock, Gemini}
            BY <1>1, <2>3, Zenon DEF Anthropic, Bedrock, Gemini
        <2>4. QED
            BY <2>1, <2>2, <2>3
    <1>3. /\ a.family = family
          /\ a.queues \in BOOLEAN /\ a.usage \in BOOLEAN /\ a.sdk \in BOOLEAN
          /\ "queues" \notin flags => ~a.queues
          /\ "queues" \in flags => a.queues
          /\ "sdk" \notin flags => ~a.sdk
        BY <1>2, AdapterOf, Zenon
    <1>4. QED
        BY <1>1, <1>2, <1>3 DEF Families

IsChunk(frame) ==
    \/ /\ frame.kind = "chunk"
       /\ frame.content \in BOOLEAN /\ frame.usage \in BOOLEAN
       /\ frame.calls \in Seq(Nat)
    \/ frame.kind = "done"

IsBlock(frame) ==
    \/ frame.kind \in {"text_start", "text", "error"}
    \/ frame.kind \in {"tool_start", "args"} /\ frame.index \in Nat
    \/ frame.kind = "stop" /\ frame.ends \in BOOLEAN

IsParts(frame) ==
    /\ frame.kind = "parts"
    /\ frame.parts \in Seq({"text", "call"}) /\ frame.finish \in BOOLEAN

\* What a frame of the script may be.
LEMMA FrameIs ==
    ASSUME ScriptOK, NEW f \in 1 .. Len(script)
    PROVE  /\ adapter.family = "chunks" => IsChunk(script[f])
           /\ adapter.family = "blocks" => IsBlock(script[f])
           /\ adapter.family = "parts" => IsParts(script[f])
    <1>1. PICK frame : frame = script[f]
        OBVIOUS
    <1>2. frame \in Frames(adapter.family)
        BY <1>1 DEF ScriptOK
    <1>3. ASSUME adapter.family = "chunks" PROVE IsChunk(frame)
        <2>1. frame \in Chunks
            BY <1>2, <1>3 DEF Frames
        <2>2. QED
            BY <2>1, StreamsAssumption DEF IsChunk
    <1>4. ASSUME adapter.family = "blocks" PROVE IsBlock(frame)
        <2>1. frame \in Blocks
            BY <1>2, <1>4 DEF Frames
        <2>2. QED
            BY <2>1, StreamsAssumption DEF IsBlock
    <1>5. ASSUME adapter.family = "parts" PROVE IsParts(frame)
        <2>1. frame \in Parts
            BY <1>2, <1>5 DEF Frames
        <2>2. QED
            BY <2>1, StreamsAssumption DEF IsParts
    <1>6. QED
        BY <1>1, <1>3, <1>4, <1>5

-----------------------------------------------------------------------------
(* A finished response: nothing more is to come.                           *)

\* No line, or only lines of a Gemini stream without content.
Quiet ==
    \/ broken
    \/ \A f \in handled + 1 .. Len(script) :
          script[f].kind = "parts" /\ script[f].parts = <<>>

EndOK ==
    /\ finished \in BOOLEAN /\ usage \in BOOLEAN
    /\ broken => LineEnd = 0
    /\ finished => Quiet
    /\ adapter.family = "blocks" =>
          \A f \in 1 .. handled : script[f].kind = "text_start" => item

LEMMA EndUntouched ==
    ASSUME EndOK, UNCHANGED <<wire, broken, handled, item, usage, finished>>,
           UNCHANGED buffer \/ ~broken
    PROVE  EndOK'
    <1>1. /\ adapter' = adapter /\ script' = script
          /\ broken' = broken /\ handled' = handled /\ item' = item
          /\ usage' = usage /\ finished' = finished
        BY DEF wire
    <1>2. broken' => LineEnd' = 0
        <2>1. CASE UNCHANGED buffer
            <3>1. LineEnd' = LineEnd
                BY <2>1 DEF LineEnd
            <3>2. QED
                BY <1>1, <3>1 DEF EndOK
        <2>2. CASE ~broken
            BY <1>1, <2>2
        <2>3. QED
            BY <2>1, <2>2
    <1>3. Quiet' <=> Quiet
        BY <1>1 DEF Quiet
    <1>4. QED
        BY <1>1, <1>2, <1>3 DEF EndOK

\* The frame that is taken, and the end.
LEMMA FrameTaken ==
    ASSUME WireOK, EndOK, NEW f, TakeLine(f)
    PROVE  /\ f = handled + 1 /\ f \in 1 .. Len(script) /\ handled' = f
           /\ ~broken /\ ~broken' /\ pending = <<>> /\ Len(out) >= 2 /\ ~closed
           /\ UNCHANGED <<adapter, script, closed>>
           /\ finished => script[f].kind = "parts" /\ script[f].parts = <<>>
    <1>1. /\ f = handled + 1 /\ f \in 1 .. Len(script) /\ handled' = f
        BY NextFrame
    <1>2. /\ ~broken /\ ~broken' /\ pending = <<>> /\ Len(out) >= 2 /\ ~closed
          /\ UNCHANGED <<adapter, script, closed>>
        BY DEF TakeLine, EndOK, wire, Ready
    <1>3. handled + 1 \in handled + 1 .. Len(script)
        BY <1>1 DEF WireOK
    <1>4. finished => script[f].kind = "parts" /\ script[f].parts = <<>>
        BY <1>1, <1>2, <1>3 DEF EndOK, Quiet
    <1>5. QED
        BY <1>1, <1>2, <1>4

\* After a frame is handled the end is still right, if the frame was the last
\* or no content follows it.
LEMMA EndAfterFrame ==
    ASSUME WireOK, EndOK, NEW f, TakeLine(f), finished' \in BOOLEAN, usage' \in BOOLEAN,
           finished' => finished \/ f = Len(script)
                          \/ \A i \in f + 1 .. Len(script) :
                                script[i].kind = "parts" /\ script[i].parts = <<>>,
           item => item',
           adapter.family = "blocks" /\ script[f].kind = "text_start" => item'
    PROVE  EndOK'
    <1>1. /\ f = handled + 1 /\ f \in 1 .. Len(script) /\ handled' = f
          /\ ~broken /\ ~broken' /\ adapter' = adapter /\ script' = script
        BY FrameTaken
    <1>2. handled \in Nat /\ Len(script) \in Nat
        BY SentLines DEF WireOK
    <1>3. finished' => Quiet'
        <2>1. SUFFICES ASSUME finished'
              PROVE  \A i \in f + 1 .. Len(script) :
                        script[i].kind = "parts" /\ script[i].parts = <<>>
            BY <1>1 DEF Quiet
        <2>2. CASE finished
            <3>1. \A i \in handled + 1 .. Len(script) :
                        script[i].kind = "parts" /\ script[i].parts = <<>>
                BY <1>1, <2>2 DEF EndOK, Quiet
            <3>2. QED
                BY <1>1, <1>2, <3>1
        <2>3. CASE f = Len(script)
            BY <1>2, <2>3
        <2>4. QED
            BY <2>1, <2>2, <2>3
    <1>4. ASSUME adapter.family = "blocks", NEW i \in 1 .. f, script[i].kind = "text_start"
          PROVE  item'
        <2>1. i \in 1 .. handled \/ i = f
            BY <1>1, <1>2
        <2>2. QED
            BY <1>4, <2>1 DEF EndOK
    <1>5. QED
        BY <1>1, <1>3, <1>4 DEF EndOK

LEMMA InitEnd ==
    ASSUME Init
    PROVE  EndOK
    <1>1. handled = 0 /\ finished = FALSE /\ usage = FALSE /\ broken = FALSE
        BY DEF Init
    <1>2. \A f \in 1 .. handled : FALSE
        BY <1>1
    <1>3. QED
        BY <1>1, <1>2, Zenon DEF EndOK

\* The frames after a finish reason have no content.
LEMMA EmptyAfterFinish ==
    ASSUME ScriptOK, adapter.family = "parts", NEW f \in 1 .. Len(script),
           script[f].finish
    PROVE  \A i \in f + 1 .. Len(script) :
              script[i].kind = "parts" /\ script[i].parts = <<>>
    <1>1. TAKE i \in f + 1 .. Len(script)
    <1>2. i \in 1 .. Len(script) /\ f \in 1 .. i - 1 /\ i \in DOMAIN script
        <2>1. Len(script) \in Nat /\ DOMAIN script = 1 .. Len(script)
            BY DEF ScriptOK
        <2>2. QED
            BY <2>1
    <1>3. script[i].kind = "parts"
        BY <1>2, FrameIs DEF IsParts
    <1>4. script[i].parts # <<>> => \A j \in 1 .. i - 1 : ~script[j].finish
        BY <1>2, <1>3, Zenon DEF ScriptOK, WellFormed
    <1>5. QED
        BY <1>2, <1>3, <1>4

\* What ends a stream comes last.
LEMMA EndIsLast ==
    ASSUME ScriptOK, NEW f \in 1 .. Len(script), script[f].kind \in {"done", "stop"}
    PROVE  f = Len(script)
    <1>1. f \in DOMAIN script
        BY DEF ScriptOK
    <1>2. QED
        BY <1>1, Zenon DEF ScriptOK, WellFormed

LEMMA HandlersKeepEnd ==
    ASSUME WireOK, EndOK, HandleChunk \/ HandleDone \/ HandleBlock \/ HandleParts
    PROVE  EndOK'
    <1>1. ScriptOK
        BY DEF WireOK
    <1>2. finished \in BOOLEAN /\ usage \in BOOLEAN
        BY DEF EndOK
    <1>3. adapter.usage \in BOOLEAN
        BY <1>1, AdapterIs DEF ScriptOK
    <1>4. CASE HandleChunk
        <2>1. PICK f : TakeLine(f) /\ usage' = (usage \/ (adapter.usage /\ script[f].usage))
                       /\ script[f].kind = "chunk"
                       /\ (item => item') /\ finished' = finished
                       /\ adapter.family = "chunks"
            BY <1>4 DEF HandleChunk, ChunkText, ChunkCall
        <2>2. f \in 1 .. Len(script)
            BY <2>1, FrameTaken
        <2>3. IsChunk(script[f])
            BY <1>1, <2>1, <2>2, FrameIs
        <2>4. usage' \in BOOLEAN
            BY <1>2, <1>3, <2>1, <2>3 DEF IsChunk
        <2>5. QED
            BY <1>2, <2>1, <2>4, EndAfterFrame
    <1>5. CASE HandleDone
        <2>1. PICK f : TakeLine(f) /\ script[f].kind = "done"
            BY <1>5 DEF HandleDone
        <2>2. finished' = TRUE /\ usage' = usage /\ item' = item
              /\ adapter.family = "chunks"
            BY <1>5 DEF HandleDone
        <2>3. f \in 1 .. Len(script)
            BY <2>1, FrameTaken
        <2>4. f = Len(script)
            BY <1>1, <2>1, <2>3, EndIsLast
        <2>5. QED
            BY <1>2, <2>1, <2>2, <2>4, EndAfterFrame
    <1>6. CASE HandleBlock
        <2>1. PICK f : /\ TakeLine(f)
                       /\ \/ BlockStarts(f) /\ UNCHANGED <<part, text, usage, finished>>
                          \/ BlockGrows(f) /\ UNCHANGED <<item, usage, finished>>
                          \/ Stops(f) /\ UNCHANGED <<item, part, text, calls>>
                          \/ script[f].kind = "error" /\ UNCHANGED acc
            BY <1>6 DEF HandleBlock
        <2>2. f \in 1 .. Len(script)
            BY <2>1, FrameTaken
        <2>3. item => item'
            BY <2>1 DEF BlockStarts, acc
        <2>4. script[f].kind = "text_start" => item'
            BY <2>1 DEF BlockStarts, BlockGrows, Stops
        <2>5. finished' \in BOOLEAN /\ usage' \in BOOLEAN
            BY <1>2, <2>1 DEF Stops, acc
        <2>6. finished' => finished \/ script[f].kind = "stop"
            BY <2>1 DEF Stops, acc
        <2>7. finished' => finished \/ f = Len(script)
            BY <1>1, <2>2, <2>6, EndIsLast
        <2>8. QED
            BY <2>1, <2>3, <2>4, <2>5, <2>7, EndAfterFrame
    <1>7. CASE HandleParts
        <2>1. PICK f : /\ TakeLine(f) /\ usage' = TRUE /\ item' = AddParts(f).item
                       /\ finished' = (finished \/ script[f].finish)
            BY <1>7, Zenon DEF HandleParts
        <2>2. f \in 1 .. Len(script) /\ adapter.family = "parts"
            BY <1>7, <2>1, FrameTaken DEF HandleParts
        <2>3. IsParts(script[f])
            BY <1>1, <2>2, FrameIs
        <2>4. finished' \in BOOLEAN
            BY <1>2, <2>1, <2>3 DEF IsParts
        <2>5. /\ f = handled + 1 /\ handled' = f /\ ~broken'
              /\ adapter' = adapter /\ script' = script
            BY <2>1, FrameTaken
        <2>6. finished' => Quiet'
            <3>1. CASE finished
                <4>1. \A i \in handled + 1 .. Len(script) :
                            script[i].kind = "parts" /\ script[i].parts = <<>>
                    BY <2>1, <3>1, FrameTaken DEF EndOK, Quiet
                <4>2. handled \in Nat /\ Len(script) \in Nat
                    BY <1>1, SentLines DEF WireOK
                <4>3. QED
                    BY <2>5, <4>1, <4>2 DEF Quiet
            <3>2. CASE script[f].finish
                <4>1. \A i \in f + 1 .. Len(script) :
                            script[i].kind = "parts" /\ script[i].parts = <<>>
                    BY <1>1, <2>2, <3>2, EmptyAfterFinish
                <4>2. QED
                    BY <2>5, <4>1 DEF Quiet
            <3>3. QED
                BY <2>1, <3>1, <3>2
        <2>7. QED
            BY <2>1, <2>2, <2>4, <2>5, <2>6 DEF EndOK
    <1>8. QED
        BY <1>4, <1>5, <1>6, <1>7

LEMMA NextKeepsEnd ==
    ASSUME WireOK, EndOK, [Next]_vars
    PROVE  EndOK'
    <1>1. CASE Announce
        BY <1>1, EndUntouched DEF Announce, acc
    <1>2. CASE PopPending
        BY <1>2, EndUntouched DEF PopPending, acc
    <1>3. CASE HandleChunk \/ HandleDone \/ HandleBlock \/ HandleParts
        BY <1>3, HandlersKeepEnd
    <1>4. CASE Receive
        BY <1>4, EndUntouched DEF Receive, acc
    <1>5. CASE StreamEnds
        <2>1. CASE finished' = finished
            BY <1>5, <2>1, EndUntouched DEF StreamEnds
        <2>2. CASE finished' # finished
            <3>1. /\ finished' = TRUE /\ LineEnd = 0 /\ (broken \/ got = Len(Sent))
                  /\ UNCHANGED <<wire, broken, buffer, handled, item, usage>>
                BY <1>5, <2>2 DEF StreamEnds, Waits
            <3>2. adapter' = adapter /\ script' = script
                BY <3>1 DEF wire
            <3>3. broken \/ handled = Len(script)
                BY <3>1, NoFrameLeft
            <3>4. handled \in Nat
                BY DEF WireOK
            <3>5. Quiet'
                BY <3>1, <3>2, <3>3, <3>4 DEF Quiet
            <3>6. LineEnd' = 0
                BY <3>1 DEF LineEnd
            <3>7. QED
                BY <3>1, <3>2, <3>5, <3>6 DEF EndOK
        <2>3. QED
            BY <2>1, <2>2
    <1>6. CASE StopsWhenDone
        BY <1>6, EndUntouched DEF StopsWhenDone, acc
    <1>7. CASE Break
        <2>1. /\ LineEnd = 0 /\ broken' = TRUE
              /\ UNCHANGED <<wire, buffer, handled, item, usage, finished>>
            BY <1>7 DEF Break, Waits, acc
        <2>2. adapter' = adapter /\ script' = script
            BY <2>1 DEF wire
        <2>3. LineEnd' = 0
            BY <2>1 DEF LineEnd
        <2>4. Quiet'
            BY <2>1 DEF Quiet
        <2>5. QED
            BY <2>1, <2>2, <2>3, <2>4 DEF EndOK
    <1>8. CASE UNCHANGED vars
        BY <1>8, EndUntouched DEF vars, wire
    <1>9. QED
        BY <1>1, <1>2, <1>3, <1>4, <1>5, <1>6, <1>7, <1>8 DEF Next, Poll

-----------------------------------------------------------------------------
(* Events that are handed out, and those that wait.                        *)

Associates(s, t, u) == (s \o t) \o u = s \o (t \o u)

LEMMA Associative ==
    ASSUME NEW S, NEW s \in Seq(S), NEW t \in Seq(S), NEW u \in Seq(S)
    PROVE  Associates(s, t, u)
    BY DEF Associates

LEMMA Concats ==
    ASSUME NEW S, NEW s \in Seq(S), NEW a \in Seq(S), NEW b \in Seq(S), NEW e \in S
    PROVE  /\ s \o <<e>> = Append(s, e)
           /\ s \o (a \o <<e>>) = Append(s \o a, e)
           /\ s \o (a \o b) = (s \o a) \o b
           /\ s \o a \in Seq(S) /\ a \o <<e>> \in Seq(S) /\ <<e>> \in Seq(S)
           /\ s \o <<>> = s
    <1>0. <<e>> \in Seq(S)
        OBVIOUS
    <1>1. PICK one \in Seq(S) : one = <<e>>
        BY <1>0
    <1>2. s \o one = Append(s, e)
        BY <1>1, AppendIsConcat
    <1>3. s \o a \in Seq(S) /\ a \o one \in Seq(S)
        BY ConcatProperties
    <1>4. (s \o a) \o one = Append(s \o a, e)
        BY <1>1, <1>3, AppendIsConcat, Zenon
    <1>5. (s \o a) \o one = s \o (a \o one)
        <2>1. Associates(s, a, one)
            BY Associative, Zenon
        <2>2. QED
            BY <2>1, Zenon DEF Associates
    <1>8. (s \o a) \o b = s \o (a \o b)
        <2>1. Associates(s, a, b)
            BY Associative, Zenon
        <2>2. QED
            BY <2>1, Zenon DEF Associates
    <1>6. s \o <<>> = s
        BY ConcatEmptySeq
    <1>7. QED
        BY <1>0, <1>1, <1>2, <1>3, <1>4, <1>5, <1>6, <1>8

LEMMA HeadAndTail ==
    ASSUME NEW S, NEW s \in Seq(S), s # <<>>
    PROVE  s = <<Head(s)>> \o Tail(s)
    OBVIOUS

\* What is handed out begins with the announcements.
OpenOK ==
    /\ out \in Seq(EventSet) /\ pending \in Seq(EventSet)
    /\ Len(out) >= 1 => out[1].type = "created"
    /\ Len(out) >= 2 => out[2].type = "in_progress"
    /\ Len(out) < 2 => pending = <<>> /\ ~closed

\* One event more is handed out, others may wait.
LEMMA OneMoreOut ==
    ASSUME OpenOK, Len(out) >= 2, NEW e \in EventSet, out' = Append(out, e),
           pending' \in Seq(EventSet)
    PROVE  OpenOK'
    <1>1. PICK n \in Nat : n = Len(out) /\ n >= 2
        BY DEF OpenOK
    <1>2. /\ out' \in Seq(EventSet) /\ Len(out') = n + 1
          /\ \A i \in 1 .. n : out'[i] = out[i]
        BY <1>1, AppendProperties DEF OpenOK
    <1>3. out'[1] = out[1] /\ out'[2] = out[2] /\ n + 1 >= 2 /\ ~(n + 1 < 2)
        BY <1>1, <1>2
    <1>4. out[1].type = "created" /\ out[2].type = "in_progress"
        BY <1>1 DEF OpenOK
    <1>5. QED
        BY <1>2, <1>3, <1>4, Zenon DEF OpenOK

LEMMA SameOut ==
    ASSUME OpenOK, Len(out) >= 2, out' = out, pending' \in Seq(EventSet)
    PROVE  OpenOK'
    BY DEF OpenOK

\* The events of a handler, or those that wait, are handed out in their order.
LEMMA Handed ==
    ASSUME OpenOK, Len(out) >= 2, NEW es \in Seq(EventSet), Hand(es),
           pending = <<>> \/ es = pending
    PROVE  /\ OpenOK'
           /\ out' \o pending' = out \o es
           /\ out' = out \/ \E e \in EventSet : out' = Append(out, e)
    <1>1. out \in Seq(EventSet) /\ pending \in Seq(EventSet)
        BY DEF OpenOK
    <1>2. CASE es = <<>>
        <2>1. out' = out /\ pending' = pending /\ pending = es
            BY <1>2 DEF Hand
        <2>2. OpenOK'
            BY <1>1, <2>1, SameOut
        <2>3. QED
            BY <2>1, <2>2
    <1>3. CASE es # <<>>
        <2>1. out' = Append(out, Head(es)) /\ pending' = Tail(es)
            BY <1>3 DEF Hand
        <2>2. PICK e \in EventSet, rest \in Seq(EventSet) :
                  e = Head(es) /\ rest = Tail(es) /\ es = <<e>> \o rest
            <3>1. Head(es) \in EventSet /\ Tail(es) \in Seq(EventSet)
                BY <1>3, HeadTailProperties
            <3>2. es = <<Head(es)>> \o Tail(es)
                BY <1>3, HeadAndTail
            <3>3. QED
                BY <3>1, <3>2
        <2>3. out \o (<<e>> \o rest) = (out \o <<e>>) \o rest
            <3>1. <<e>> \in Seq(EventSet)
                OBVIOUS
            <3>2. PICK first \in Seq(EventSet) : first = <<e>>
                BY <3>1
            <3>3. (out \o first) \o rest = out \o (first \o rest)
                <4>1. Associates(out, first, rest)
                    BY <1>1, Associative, Zenon
                <4>2. QED
                    BY <4>1, Zenon DEF Associates
            <3>4. QED
                BY <3>2, <3>3, Zenon
        <2>4. out \o <<e>> = Append(out, e)
            BY <1>1, AppendIsConcat
        <2>5. out' \o pending' = out \o es
            BY <2>1, <2>2, <2>3, <2>4, Zenon
        <2>6. OpenOK'
            BY <2>1, <2>2, OneMoreOut
        <2>7. QED
            BY <2>1, <2>2, <2>5, <2>6
    <1>4. QED
        BY <1>2, <1>3

\* What the client is told, and what has been accumulated.
Strict == adapter.family # "parts"

TalkOK ==
    /\ OpenOK
    /\ Told(out \o pending, item, part, text, calls, Strict)
    /\ Client!Has(out \o pending, "completed") => finished
    /\ Client!Has(out \o pending, "text_done") => finished

\* The response was announced, and is not complete before it is finished.
LEMMA TalkingIf ==
    ASSUME TalkOK, Len(out) >= 2, ~finished
    PROVE  Talking(out \o pending) /\ ~Client!Has(out \o pending, "text_done")
    <1>1. PICK es : es = out \o pending
        OBVIOUS
    <1>2. PICK n \in Nat, m \in Nat : n = Len(out) /\ n >= 2 /\ m = Len(pending)
        BY DEF TalkOK, OpenOK
    <1>3. /\ es \in Seq(EventSet) /\ Len(es) = n + m
          /\ \A i \in 1 .. n + m : es[i] = IF i <= n THEN out[i] ELSE pending[i - n]
        <2>1. out \in Seq(EventSet) /\ pending \in Seq(EventSet)
            BY DEF TalkOK, OpenOK
        <2>2. QED
            BY <1>1, <1>2, <2>1, ConcatProperties
    <1>4. 1 \in DOMAIN es /\ 2 \in DOMAIN es /\ es[1] = out[1] /\ es[2] = out[2]
        BY <1>2, <1>3
    <1>8. out[1].type = "created" /\ out[2].type = "in_progress"
        BY <1>2 DEF TalkOK, OpenOK
    <1>5. Client!Has(es, "created") /\ Client!Has(es, "in_progress")
        BY <1>4, <1>8, Zenon DEF Client!Has
    <1>6. ~Client!Has(es, "completed") /\ ~Client!Has(es, "text_done")
        BY <1>1 DEF TalkOK
    <1>7. QED
        BY <1>1, <1>5, <1>6 DEF Talking

\* The answer of a handler: its events, and what is accumulated then.
Answer(es, it, pt, t, c, fin) ==
    /\ es \in Seq(EventSet)
    /\ Told(out \o es, it, pt, t, c, Strict)
    /\ Client!Has(out \o es, "completed") => fin
    /\ Client!Has(out \o es, "text_done") => fin

LEMMA Answered ==
    ASSUME TalkOK, Len(out) >= 2, NEW es, Hand(es), pending = <<>> \/ es = pending,
           Answer(es, item', part', text', calls', finished'), adapter' = adapter
    PROVE  TalkOK'
    <1>1. OpenOK' /\ out' \o pending' = out \o es
        BY Handed DEF TalkOK, Answer
    <1>2. PICK x : x = out \o es
        OBVIOUS
    <1>3. Strict' = Strict
        BY DEF Strict
    <1>4. Told(x, item', part', text', calls', Strict)
          /\ (Client!Has(x, "completed") => finished')
          /\ (Client!Has(x, "text_done") => finished')
        BY <1>2, Zenon DEF Answer
    <1>5. QED
        BY <1>1, <1>2, <1>3, <1>4, Zenon DEF TalkOK

-----------------------------------------------------------------------------
(* The answers of the handlers.                                            *)

\* Nothing is said, and nothing that was shown is accumulated.
LEMMA Silence ==
    ASSUME TalkOK, pending = <<>>
    PROVE  Answer(<<>>, item, part, text, calls, finished)
    BY Zenon DEF TalkOK, Answer, OpenOK

\* The completion, after which the response is finished.
LEMMA CompletionTold ==
    ASSUME NEW exact, NEW es, NEW it, NEW pt, NEW t, NEW c,
           Told(es, it, pt, t, c, exact), Talking(es), NEW u \in BOOLEAN
    PROVE  /\ Completed(t, c, u) \in EventSet
           /\ Told(Append(es, Completed(t, c, u)), it, pt, t, c, exact)
    <1>1. PICK e : e = Completed(t, c, u)
        OBVIOUS
    <1>2. e \in EventSet /\ Follows(es, e, exact)
        BY <1>1, CompletionFollows, Zenon
    <1>3. e.type = "completed"
        BY <1>1 DEF Completed
    <1>4. Told(Append(es, e), it, pt, t, c, exact)
        BY <1>2, <1>3, ToldOther
    <1>5. QED
        BY <1>1, <1>2, <1>4

\* Whatever is said, once the response is finished.
LEMMA AnswerFinished ==
    ASSUME NEW es \in Seq(EventSet), NEW it, NEW pt, NEW t, NEW c,
           Told(out \o es, it, pt, t, c, Strict)
    PROVE  Answer(es, it, pt, t, c, TRUE)
    BY DEF Answer

LEMMA CompletionSaid ==
    ASSUME TalkOK, pending = <<>>, Len(out) >= 2, ~finished, NEW u \in BOOLEAN
    PROVE  Answer(<<Completed(text, calls, u)>>, item, part, text, calls, TRUE)
    <1>1. out \in Seq(EventSet) /\ Told(out, item, part, text, calls, Strict)
          /\ Talking(out)
        BY TalkingIf, ConcatEmptySeq DEF TalkOK, OpenOK
    <1>2. PICK e : e = Completed(text, calls, u)
        OBVIOUS
    <1>3. e \in EventSet /\ Told(Append(out, e), item, part, text, calls, Strict)
        BY <1>1, <1>2, CompletionTold, Zenon
    <1>4. out \o <<e>> = Append(out, e) /\ <<e>> \in Seq(EventSet)
        BY <1>1, <1>3, Concats
    <1>5. QED
        BY <1>2, <1>3, <1>4, AnswerFinished, Zenon

\* The announcements of the item and of the part that are still due.
Opens(it, pt) ==
    (IF it THEN <<>> ELSE <<Event("item")>>) \o (IF pt THEN <<>> ELSE <<Event("part")>>)

\* The events es were told, the response goes on.
GoesOn(es, it, pt, t, c, exact) ==
    /\ es \in Seq(EventSet)
    /\ Told(es, it, pt, t, c, exact)
    /\ Talking(es)
    /\ ~Client!Has(es, "text_done")

LEMMA GoesOnMore ==
    ASSUME NEW exact, NEW es \in Seq(EventSet), NEW e \in EventSet, Talking(es),
           ~Client!Has(es, "text_done"), e.type # "completed", e.type # "text_done",
           NEW it, NEW pt, NEW t, NEW c, Told(Append(es, e), it, pt, t, c, exact)
    PROVE  GoesOn(Append(es, e), it, pt, t, c, exact)
    <1>1. Append(es, e) \in Seq(EventSet)
        BY DEF Told
    <1>2. Talking(Append(es, e)) /\ ~Client!Has(Append(es, e), "text_done")
        BY TalkingMore, HasMore, Zenon
    <1>3. QED
        BY <1>1, <1>2, Zenon DEF GoesOn

\* One event more, of every kind that may come then.
LEMMA ItemSaid ==
    ASSUME NEW exact, NEW es, NEW it, NEW pt, NEW t, NEW c,
           GoesOn(es, it, pt, t, c, exact), it = FALSE
    PROVE  GoesOn(Append(es, Event("item")), TRUE, pt, t, c, exact)
    <1>1. /\ es \in Seq(EventSet) /\ Told(es, it, pt, t, c, exact) /\ Talking(es)
          /\ ~Client!Has(es, "text_done")
        BY DEF GoesOn
    <1>2. PICK e \in EventSet : e = Event("item") /\ e.type = "item"
        BY EventsAre DEF PlainTypes
    <1>3. e.type # "completed" /\ e.type # "text_done"
        BY <1>2
    <1>4. Told(Append(es, e), TRUE, pt, t, c, exact)
        BY <1>1, <1>2, ToldItem, Zenon
    <1>5. GoesOn(Append(es, e), TRUE, pt, t, c, exact)
        BY <1>1, <1>3, <1>4, GoesOnMore, Zenon
    <1>6. QED
        BY <1>2, <1>5, Zenon

LEMMA PartSaid ==
    ASSUME NEW exact, NEW es, NEW it, NEW pt, NEW t, NEW c,
           GoesOn(es, it, pt, t, c, exact), Client!Has(es, "item"), pt = FALSE
    PROVE  GoesOn(Append(es, Event("part")), it, TRUE, t, c, exact)
    <1>1. /\ es \in Seq(EventSet) /\ Told(es, it, pt, t, c, exact) /\ Talking(es)
          /\ ~Client!Has(es, "text_done")
        BY DEF GoesOn
    <1>2. PICK e \in EventSet : e = Event("part") /\ e.type = "part"
        BY EventsAre DEF PlainTypes
    <1>3. e.type # "completed" /\ e.type # "text_done"
        BY <1>2
    <1>4. Told(Append(es, e), it, TRUE, t, c, exact)
        BY <1>1, <1>2, ToldPart, Zenon
    <1>5. GoesOn(Append(es, e), it, TRUE, t, c, exact)
        BY <1>1, <1>3, <1>4, GoesOnMore, Zenon
    <1>6. QED
        BY <1>2, <1>5, Zenon

LEMMA DeltaSaid ==
    ASSUME NEW exact, NEW es, NEW it, NEW pt, NEW t, NEW c,
           GoesOn(es, it, pt, t, c, exact), Client!Has(es, "part"),
           NEW piece \in Fragments
    PROVE  GoesOn(Append(es, Delta(piece)), it, pt, Append(t, piece), c, exact)
    <1>1. /\ es \in Seq(EventSet) /\ Told(es, it, pt, t, c, exact) /\ Talking(es)
          /\ ~Client!Has(es, "text_done")
        BY DEF GoesOn
    <1>2. PICK e \in EventSet : e = Delta(piece) /\ e.type = "delta"
        BY EventsAre
    <1>3. e.type # "completed" /\ e.type # "text_done"
        BY <1>2
    <1>4. Told(Append(es, e), it, pt, Append(t, piece), c, exact)
        BY <1>1, <1>2, ToldDelta, Zenon
    <1>5. GoesOn(Append(es, e), it, pt, Append(t, piece), c, exact)
        BY <1>1, <1>3, <1>4, GoesOnMore, Zenon
    <1>6. QED
        BY <1>2, <1>5, Zenon

LEMMA ArgsSaid ==
    ASSUME NEW exact, NEW es, NEW it, NEW pt, NEW t, NEW c,
           GoesOn(es, it, pt, t, c, exact), NEW index \in Nat, NEW piece \in Fragments,
           NEW c2, CallsTold(Append(es, Args(index, piece)), c2, exact)
    PROVE  GoesOn(Append(es, Args(index, piece)), it, pt, t, c2, exact)
    <1>1. /\ es \in Seq(EventSet) /\ Told(es, it, pt, t, c, exact) /\ Talking(es)
          /\ ~Client!Has(es, "text_done")
        BY DEF GoesOn
    <1>2. PICK e \in EventSet : e = Args(index, piece) /\ e.type = "args"
        BY EventsAre
    <1>3. e.type # "completed" /\ e.type # "text_done"
        BY <1>2
    <1>4. Told(Append(es, e), it, pt, t, c2, exact)
        BY <1>1, <1>2, ToldArgs, Zenon
    <1>5. GoesOn(Append(es, e), it, pt, t, c2, exact)
        BY <1>1, <1>3, <1>4, GoesOnMore, Zenon
    <1>6. QED
        BY <1>2, <1>5, Zenon

LEMMA NothingSaid ==
    ASSUME NEW exact, NEW es, NEW it, NEW pt, NEW t, NEW c,
           GoesOn(es, it, pt, t, c, exact), NEW type \in {"in_progress", "error"}
    PROVE  GoesOn(Append(es, Event(type)), it, pt, t, c, exact)
    <1>1. /\ es \in Seq(EventSet) /\ Told(es, it, pt, t, c, exact) /\ Talking(es)
          /\ ~Client!Has(es, "text_done")
        BY DEF GoesOn
    <1>2. PICK e \in EventSet : e = Event(type) /\ e.type = type
        BY EventsAre DEF PlainTypes
    <1>3. e.type # "completed" /\ e.type # "text_done"
          /\ e.type \in {"created", "in_progress", "text_done", "error", "completed"}
        BY <1>2
    <1>4. Follows(es, e, exact)
        BY <1>1, <1>2, FollowsIf, Zenon
    <1>5. Told(Append(es, e), it, pt, t, c, exact)
        BY <1>1, <1>3, <1>4, ToldOther, Zenon
    <1>6. GoesOn(Append(es, e), it, pt, t, c, exact)
        BY <1>1, <1>3, <1>5, GoesOnMore, Zenon
    <1>7. QED
        BY <1>2, <1>6, Zenon

LEMMA OpensAre ==
    ASSUME NEW it, NEW pt
    PROVE  /\ Opens(it, pt) \in Seq(EventSet)
           /\ it /\ pt => Opens(it, pt) = <<>>
           /\ it /\ ~pt => Opens(it, pt) = <<Event("part")>>
           /\ ~it /\ pt => Opens(it, pt) = <<Event("item")>>
           /\ ~it /\ ~pt => Opens(it, pt) = <<Event("item")>> \o <<Event("part")>>
    <1>1. PICK e \in EventSet, d \in EventSet : e = Event("item") /\ d = Event("part")
        BY EventsAre DEF PlainTypes
    <1>2. <<e>> \in Seq(EventSet) /\ <<d>> \in Seq(EventSet) /\ <<>> \in Seq(EventSet)
        OBVIOUS
    <1>3. PICK a \in Seq(EventSet), b \in Seq(EventSet) : a = <<e>> /\ b = <<d>>
        BY <1>2
    <1>4. /\ a \o <<>> = a /\ <<>> \o b = b /\ a \o b \in Seq(EventSet)
        BY ConcatEmptySeq, ConcatProperties
    <1>5. <<>> \o <<>> = <<>>
        OBVIOUS
    <1>6. CASE it /\ pt
        BY <1>2, <1>5, <1>6, Zenon DEF Opens
    <1>7. CASE it /\ ~pt
        BY <1>1, <1>3, <1>4, <1>7, Zenon DEF Opens
    <1>8. CASE ~it /\ pt
        BY <1>1, <1>3, <1>4, <1>8, Zenon DEF Opens
    <1>9. CASE ~it /\ ~pt
        BY <1>1, <1>3, <1>4, <1>9, Zenon DEF Opens
    <1>10. QED
        BY <1>6, <1>7, <1>8, <1>9, Zenon

\* The item and the part are announced, if they were not.
LEMMA Opened ==
    ASSUME NEW exact, NEW es, NEW it, NEW pt, NEW t, NEW c,
           GoesOn(es, it, pt, t, c, exact)
    PROVE  GoesOn(es \o Opens(it, pt), TRUE, TRUE, t, c, exact)
    <1>1. es \in Seq(EventSet) /\ it \in BOOLEAN /\ pt \in BOOLEAN
        BY DEF GoesOn, Told
    <1>2. PICK e \in EventSet, d \in EventSet : e = Event("item") /\ d = Event("part")
        BY EventsAre DEF PlainTypes
    <1>3. <<e>> \in Seq(EventSet) /\ <<d>> \in Seq(EventSet) /\ <<>> \in Seq(EventSet)
        OBVIOUS
    <1>4. PICK a \in Seq(EventSet), b \in Seq(EventSet) :
              a = (IF it THEN <<>> ELSE <<e>>) /\ b = (IF pt THEN <<>> ELSE <<d>>)
        BY <1>3
    <1>5. PICK x \in Seq(EventSet), yes \in BOOLEAN :
              x = es \o a /\ yes = TRUE
        BY <1>1, ConcatProperties
    <1>6. GoesOn(x, yes, pt, t, c, exact)
        <2>1. CASE it
            <3>1. x = es \o <<>> /\ it = yes
                BY <1>1, <1>4, <1>5, <2>1
            <3>2. es \o <<>> = es
                BY <1>1, ConcatEmptySeq
            <3>3. QED
                BY <3>1, <3>2, Zenon
        <2>2. CASE ~it
            <3>1. x = Append(es, e) /\ it = FALSE
                BY <1>1, <1>4, <1>5, <2>2, Concats
            <3>2. GoesOn(Append(es, Event("item")), TRUE, pt, t, c, exact)
                BY <3>1, ItemSaid, Zenon
            <3>3. QED
                BY <1>2, <1>5, <3>1, <3>2, Zenon
        <2>3. QED
            BY <2>1, <2>2
    <1>7. Client!Has(x, "item")
        <2>1. GoesOn(x, TRUE, pt, t, c, exact)
            BY <1>5, <1>6, Zenon
        <2>2. QED
            BY <2>1 DEF GoesOn, Told
    <1>8. PICK y : y = x \o b
        OBVIOUS
    <1>9. GoesOn(y, TRUE, TRUE, t, c, exact)
        <2>1. CASE pt
            <3>1. y = x \o <<>> /\ pt = TRUE
                BY <1>1, <1>4, <1>8, <2>1
            <3>2. x \o <<>> = x
                BY ConcatEmptySeq
            <3>3. QED
                BY <1>5, <1>6, <3>1, <3>2, Zenon
        <2>2. CASE ~pt
            <3>1. y = Append(x, d) /\ pt = FALSE
                BY <1>1, <1>4, <1>8, <2>2, Concats
            <3>2. GoesOn(Append(x, Event("part")), yes, TRUE, t, c, exact)
                BY <1>6, <1>7, <3>1, PartSaid, Zenon
            <3>3. QED
                BY <1>2, <1>5, <3>1, <3>2, Zenon
        <2>3. QED
            BY <2>1, <2>2
    <1>10. y = es \o Opens(it, pt)
        <2>1. Associates(es, a, b)
            BY <1>1, Associative, Zenon
        <2>2. QED
            BY <1>2, <1>4, <1>5, <1>8, <2>1, Zenon DEF Associates, Opens
    <1>11. QED
        BY <1>9, <1>10, Zenon

\* A piece of text is shown, after the announcements that are due.
LEMMA TextSaid ==
    ASSUME NEW exact, NEW es, NEW it, NEW pt, NEW t, NEW c,
           GoesOn(es, it, pt, t, c, exact), NEW piece \in Fragments
    PROVE  GoesOn(Append(es \o Opens(it, pt), Delta(piece)), TRUE, TRUE,
                  Append(t, piece), c, exact)
    <1>1. PICK x : x = es \o Opens(it, pt)
        OBVIOUS
    <1>2. GoesOn(x, TRUE, TRUE, t, c, exact)
        BY <1>1, Opened
    <1>3. Client!Has(x, "part")
        BY <1>2 DEF GoesOn, Told
    <1>4. PICK yes : yes = TRUE
        OBVIOUS
    <1>5. GoesOn(x, yes, yes, t, c, exact)
        BY <1>2, <1>4, Zenon
    <1>6. GoesOn(Append(x, Delta(piece)), yes, yes, Append(t, piece), c, exact)
        BY <1>3, <1>5, DeltaSaid, Zenon
    <1>7. QED
        BY <1>1, <1>4, <1>6, Zenon

\* What is handed out after nothing waits, while the response goes on.
LEMMA GoingOn ==
    ASSUME TalkOK, Len(out) >= 2, ~finished, pending = <<>>
    PROVE  GoesOn(out, item, part, text, calls, Strict)
    <1>1. out \in Seq(EventSet) /\ out \o pending = out
        BY ConcatEmptySeq DEF TalkOK, OpenOK
    <1>2. Talking(out) /\ ~Client!Has(out, "text_done")
        BY <1>1, TalkingIf
    <1>3. Told(out, item, part, text, calls, Strict)
        BY <1>1, Zenon DEF TalkOK
    <1>4. QED
        BY <1>1, <1>2, <1>3, Zenon DEF GoesOn

\* Events after which the response goes on are an answer.
LEMMA AnswerGoesOn ==
    ASSUME NEW es \in Seq(EventSet), NEW it, NEW pt, NEW t, NEW c, NEW fin,
           GoesOn(out \o es, it, pt, t, c, Strict)
    PROVE  Answer(es, it, pt, t, c, fin)
    BY Zenon DEF GoesOn, Answer, Talking

\* Events that a handler hands out one at a time.
LEMMA AnswerOne ==
    ASSUME OpenOK, NEW e \in EventSet, NEW it, NEW pt, NEW t, NEW c, NEW fin,
           GoesOn(Append(out, e), it, pt, t, c, Strict)
    PROVE  <<e>> \in Seq(EventSet) /\ Answer(<<e>>, it, pt, t, c, fin)
    <1>1. out \in Seq(EventSet)
        BY DEF OpenOK
    <1>2. out \o <<e>> = Append(out, e) /\ <<e>> \in Seq(EventSet)
        BY <1>1, Concats
    <1>3. QED
        BY <1>2, AnswerGoesOn, Zenon

-----------------------------------------------------------------------------
(* The steps that take no line.                                            *)

LEMMA AnnounceTalks ==
    ASSUME TalkOK, Announce
    PROVE  TalkOK'
    <1>1. /\ Len(out) < 2 /\ out \in Seq(EventSet) /\ pending = <<>> /\ ~closed
          /\ Len(out) >= 1 => out[1].type = "created"
        BY DEF TalkOK, OpenOK, Announce
    <1>2. PICK type : type = (IF out = <<>> THEN "created" ELSE "in_progress")
                      /\ out' = Append(out, Event(type))
        BY DEF Announce
    <1>3. PICK e \in EventSet : e = Event(type) /\ e.type = type
        BY <1>2, EventsAre DEF PlainTypes
    <1>4. /\ adapter' = adapter /\ pending' = <<>> /\ item' = item /\ part' = part
          /\ text' = text /\ calls' = calls /\ finished' = finished /\ closed' = closed
        BY <1>1 DEF Announce, wire, acc
    <1>5. out \o pending = out
        BY <1>1, ConcatEmptySeq
    <1>6. Told(out, item, part, text, calls, Strict)
        BY <1>5, Zenon DEF TalkOK
    <1>7. CASE out = <<>>
        <2>1. e.type = "created"
            BY <1>2, <1>3, <1>7
        <2>2. Follows(out, e, Strict)
            BY <1>7, <2>1, NothingShown DEF Follows, Client!MayFollow
        <2>3. Told(Append(out, e), item, part, text, calls, Strict)
            BY <1>6, <2>1, <2>2, ToldOther
        <2>4. /\ Append(out, e) \in Seq(EventSet) /\ Len(Append(out, e)) = 1
              /\ Append(out, e)[1] = e
            BY <1>7
        <2>5. /\ ~Client!Has(Append(out, e), "completed")
              /\ ~Client!Has(Append(out, e), "text_done")
            <3>1. ~Client!Has(out, "completed") /\ ~Client!Has(out, "text_done")
                BY <1>7, NothingShown
            <3>2. e.type # "completed" /\ e.type # "text_done"
                BY <2>1
            <3>3. QED
                BY <1>1, <3>1, <3>2, HasMore, Zenon
        <2>6. QED
            <3>1. PICK x : x = Append(out, e)
                OBVIOUS
            <3>2. out' = x /\ x \in Seq(EventSet) /\ Len(x) = 1 /\ x[1].type = "created"
                BY <1>2, <1>3, <2>1, <2>4, <3>1
            <3>3. OpenOK'
                BY <1>1, <1>4, <3>2 DEF OpenOK
            <3>4. out' \o pending' = x /\ Strict' = Strict
                BY <1>4, <3>2, ConcatEmptySeq DEF Strict
            <3>5. QED
                BY <1>4, <2>3, <2>5, <3>1, <3>3, <3>4, Zenon DEF TalkOK
    <1>8. CASE out # <<>>
        <2>1. Len(out) = 1 /\ out[1].type = "created" /\ 1 \in DOMAIN out
            <3>1. PICK n \in Nat : n = Len(out)
                BY <1>1
            <3>2. n # 0
                BY <1>1, <1>8, <3>1, EmptySeq
            <3>3. n = 1
                BY <1>1, <3>1, <3>2
            <3>4. DOMAIN out = 1 .. n
                BY <1>1, <3>1
            <3>5. QED
                BY <1>1, <3>1, <3>3, <3>4
        <2>2. e.type = "in_progress"
            BY <1>2, <1>3, <1>8
        <2>3. Client!Has(out, "created")
            BY <2>1 DEF Client!Has
        <2>4. ~Client!Has(out, "completed") /\ ~Client!Has(out, "text_done")
            BY <1>1, <2>1 DEF Client!Has
        <2>5. Follows(out, e, Strict)
            BY <2>2, <2>3, <2>4 DEF Follows, Client!MayFollow
        <2>6. Told(Append(out, e), item, part, text, calls, Strict)
            BY <1>6, <2>2, <2>5, ToldOther
        <2>7. PICK x : x = Append(out, e)
            OBVIOUS
        <2>8. /\ x \in Seq(EventSet) /\ Len(x) = 2 /\ x[1] = out[1] /\ x[2] = e
              /\ out' = x
            <3>1. /\ x \in Seq(EventSet) /\ Len(x) = Len(out) + 1
                  /\ \A i \in 1 .. Len(out) : x[i] = out[i]
                  /\ x[Len(out) + 1] = e
                BY <1>1, <2>7, AppendProperties
            <3>2. QED
                BY <1>2, <1>3, <2>1, <2>7, <3>1
        <2>9. ~Client!Has(x, "completed") /\ ~Client!Has(x, "text_done")
            <3>1. e.type # "completed" /\ e.type # "text_done"
                BY <2>2
            <3>2. QED
                BY <1>1, <2>4, <2>7, <3>1, HasMore, Zenon
        <2>10. OpenOK'
            BY <1>1, <1>4, <2>1, <2>2, <2>8 DEF OpenOK
        <2>11. out' \o pending' = x /\ Strict' = Strict
            BY <1>4, <2>8, ConcatEmptySeq DEF Strict
        <2>12. QED
            BY <1>4, <2>6, <2>7, <2>9, <2>10, <2>11, Zenon DEF TalkOK
    <1>9. QED
        BY <1>7, <1>8

LEMMA PopTalks ==
    ASSUME TalkOK, PopPending
    PROVE  TalkOK'
    <1>1. /\ Len(out) >= 2 /\ Hand(pending) /\ adapter' = adapter
          /\ item' = item /\ part' = part /\ text' = text /\ calls' = calls
          /\ finished' = finished
        BY DEF PopPending, Ready, wire, acc
    <1>2. PICK es : es = pending
        OBVIOUS
    <1>3. Answer(es, item', part', text', calls', finished')
        BY <1>1, <1>2, Zenon DEF TalkOK, OpenOK, Answer
    <1>4. Hand(es)
        BY <1>1, <1>2
    <1>5. QED
        BY <1>1, <1>2, <1>3, <1>4, Answered

\* A broken connection is reported, even after the completion.
LEMMA BreakTalks ==
    ASSUME TalkOK, EndOK, Break
    PROVE  TalkOK'
    <1>1. /\ Len(out) >= 2 /\ pending = <<>> /\ adapter' = adapter
          /\ item' = item /\ part' = part /\ text' = text /\ calls' = calls
          /\ finished' = finished /\ pending' = pending /\ out' = Append(out, Event("error"))
        BY DEF Break, Waits, Ready, wire, acc
    <1>2. out \in Seq(EventSet) /\ out \o pending = out
        BY <1>1, ConcatEmptySeq DEF TalkOK, OpenOK
    <1>3. PICK e \in EventSet : e = Event("error") /\ e.type = "error"
        BY EventsAre DEF PlainTypes
    <1>4. Client!Has(out, "in_progress")
        <2>1. 2 \in DOMAIN out /\ out[2].type = "in_progress"
            BY <1>1, <1>2 DEF TalkOK, OpenOK
        <2>2. QED
            BY <2>1, Zenon DEF Client!Has
    <1>5. Follows(out, e, Strict)
        BY <1>3, <1>4 DEF Follows, Client!MayFollow
    <1>6. Told(out, item, part, text, calls, Strict)
        BY <1>2, Zenon DEF TalkOK
    <1>7. Told(Append(out, e), item, part, text, calls, Strict)
        BY <1>3, <1>5, <1>6, ToldOther
    <1>8. e.type # "completed" /\ e.type # "text_done"
        BY <1>3
    <1>9. /\ Client!Has(Append(out, e), "completed") <=> Client!Has(out, "completed")
          /\ Client!Has(Append(out, e), "text_done") <=> Client!Has(out, "text_done")
        BY <1>2, <1>8, HasMore, Zenon
    <1>10. PICK x : x = Append(out, e)
        OBVIOUS
    <1>11. x \in Seq(EventSet) /\ out' = x /\ pending' = <<>> /\ out' = Append(out, e)
        BY <1>1, <1>3, <1>7, <1>10 DEF Told
    <1>12. pending' \in Seq(EventSet) /\ out' \o pending' = x /\ Strict' = Strict
        BY <1>1, <1>11, ConcatEmptySeq DEF Strict
    <1>13. OpenOK'
        BY <1>1, <1>11, <1>12, OneMoreOut DEF TalkOK
    <1>14. /\ Client!Has(out, "completed") => finished
           /\ Client!Has(out, "text_done") => finished
        BY <1>2, Zenon DEF TalkOK
    <1>15. QED
        BY <1>1, <1>7, <1>9, <1>10, <1>12, <1>13, <1>14, Zenon DEF TalkOK

LEMMA StreamEndTalks ==
    ASSUME TalkOK, EndOK, StreamEnds
    PROVE  TalkOK'
    <1>1. /\ Len(out) >= 2 /\ pending = <<>> /\ adapter' = adapter
          /\ item' = item /\ part' = part /\ text' = text /\ calls' = calls
        BY DEF StreamEnds, Waits, Ready, wire
    <1>2. CASE closed' = TRUE /\ UNCHANGED <<finished, out, pending>>
        <2>1. OpenOK'
            BY <1>1, <1>2 DEF TalkOK, OpenOK
        <2>2. Strict' = Strict
            BY <1>1 DEF Strict
        <2>3. out' = out /\ pending' = pending /\ finished' = finished
            BY <1>2
        <2>4. QED
            BY <1>1, <2>1, <2>2, <2>3, Zenon DEF TalkOK
    <1>3. CASE ~finished /\ finished' = TRUE /\ Hand(<<Completed(text, calls, usage)>>)
        <2>1. Answer(<<Completed(text, calls, usage)>>, item, part, text, calls, TRUE)
            BY <1>1, <1>3, CompletionSaid DEF EndOK
        <2>2. PICK es : es = <<Completed(text, calls, usage)>>
            OBVIOUS
        <2>3. Hand(es) /\ Answer(es, item', part', text', calls', finished')
            BY <1>1, <1>3, <2>1, <2>2, Zenon
        <2>4. QED
            BY <1>1, <2>3, Answered
    <1>4. QED
        BY <1>2, <1>3 DEF StreamEnds

LEMMA QuietStepTalks ==
    ASSUME TalkOK, Receive \/ StopsWhenDone \/ UNCHANGED vars
    PROVE  TalkOK'
    <1>1. /\ adapter' = adapter /\ out' = out /\ pending' = pending /\ item' = item
          /\ part' = part /\ text' = text /\ calls' = calls /\ finished' = finished
          /\ closed' = closed \/ Len(out) >= 2
        BY DEF Receive, StopsWhenDone, Ready, wire, acc, vars
    <1>2. OpenOK'
        BY <1>1 DEF TalkOK, OpenOK
    <1>3. Strict' = Strict
        BY <1>1 DEF Strict
    <1>4. QED
        BY <1>1, <1>2, <1>3, Zenon DEF TalkOK

-----------------------------------------------------------------------------
(* The handlers of a line.                                                 *)

\* The answer that a handler gives is handed out.
LEMMA HandlerTalks ==
    ASSUME WireOK, EndOK, TalkOK, NEW f, TakeLine(f), NEW es, Hand(es),
           Answer(es, item', part', text', calls', finished')
    PROVE  TalkOK'
    <1>1. pending = <<>> /\ Len(out) >= 2 /\ adapter' = adapter
        BY FrameTaken
    <1>2. QED
        BY <1>1, Answered

\* One event is handed out, and the response goes on.
LEMMA OneEventTalks ==
    ASSUME WireOK, EndOK, TalkOK, NEW f, TakeLine(f), NEW e \in EventSet,
           Hand(<<e>>), GoesOn(Append(out, e), item', part', text', calls', Strict)
    PROVE  TalkOK'
    <1>1. Answer(<<e>>, item', part', text', calls', finished')
        BY AnswerOne DEF TalkOK
    <1>2. PICK es : es = <<e>>
        OBVIOUS
    <1>3. Hand(es) /\ Answer(es, item', part', text', calls', finished')
        BY <1>1, <1>2, Zenon
    <1>4. QED
        BY <1>3, HandlerTalks

\* Nothing is handed out.
LEMMA NoEventTalks ==
    ASSUME WireOK, EndOK, TalkOK, NEW f, TakeLine(f), Hand(<<>>),
           UNCHANGED <<item, part, text, calls, finished>>
    PROVE  TalkOK'
    <1>1. pending = <<>>
        BY FrameTaken
    <1>2. Answer(<<>>, item, part, text, calls, finished)
        BY <1>1, Silence
    <1>3. PICK es : es = <<>>
        OBVIOUS
    <1>4. Hand(es) /\ Answer(es, item', part', text', calls', finished')
        BY <1>2, <1>3, Zenon
    <1>5. QED
        BY <1>4, HandlerTalks

\* When a handler takes a line with content, the response is not finished.
LEMMA LineGoesOn ==
    ASSUME WireOK, EndOK, TalkOK, NEW f, TakeLine(f), script[f].kind # "parts"
    PROVE  /\ GoesOn(out, item, part, text, calls, Strict)
           /\ f \in Nat /\ f \in 1 .. Len(script)
           /\ \A i \in Nat : <<f, i>> \in Fragments
    <1>1. f \in 1 .. Len(script) /\ ~finished /\ pending = <<>> /\ Len(out) >= 2
        BY FrameTaken
    <1>2. f \in Nat
        BY <1>1, SentLines DEF WireOK
    <1>3. QED
        BY <1>1, <1>2, GoingOn DEF Fragments

LEMMA ChunkTextTalks ==
    ASSUME WireOK, EndOK, TalkOK, NEW f, TakeLine(f), script[f].kind = "chunk",
           ChunkText(f), UNCHANGED <<calls, finished>>
    PROVE  TalkOK'
    <1>1. /\ GoesOn(out, item, part, text, calls, Strict) /\ <<f, 1>> \in Fragments
        BY LineGoesOn
    <1>2. /\ out \in Seq(EventSet)
          /\ item \in BOOLEAN /\ (item <=> Client!Has(out, "item"))
          /\ part \in BOOLEAN /\ (part <=> Client!Has(out, "part"))
        BY <1>1 DEF GoesOn, Told
    <1>3. PICK piece \in Fragments : piece = <<f, 1>>
        BY <1>1
    <1>4. PICK d \in EventSet : d = Delta(piece)
        BY EventsAre
    <1>5. calls' = calls
        OBVIOUS
    <1>6. CASE adapter.queues
        <2>1. /\ item' = TRUE /\ part' = TRUE /\ text' = Append(text, piece)
              /\ Hand(Opens(item, part) \o <<d>>)
            BY <1>3, <1>4, <1>6, Zenon DEF ChunkText, Opens
        <2>2. PICK a \in Seq(EventSet) : a = Opens(item, part)
            BY OpensAre
        <2>3. GoesOn(Append(out \o a, d), TRUE, TRUE, Append(text, piece), calls, Strict)
            BY <1>1, <1>4, <2>2, TextSaid, Zenon
        <2>4. a \o <<d>> \in Seq(EventSet) /\ out \o (a \o <<d>>) = Append(out \o a, d)
            BY <1>2, Concats
        <2>5. PICK es \in Seq(EventSet) : es = a \o <<d>>
            BY <2>4
        <2>6. GoesOn(out \o es, item', part', text', calls', Strict)
            BY <1>5, <2>1, <2>3, <2>4, <2>5, Zenon
        <2>7. Hand(es) /\ Answer(es, item', part', text', calls', finished')
            BY <2>1, <2>2, <2>5, <2>6, AnswerGoesOn, Zenon
        <2>8. QED
            BY <2>7, HandlerTalks
    <1>7. CASE ~adapter.queues /\ ~item
        <2>1. /\ item' = TRUE /\ part' = part /\ text' = text /\ Hand(<<Event("item")>>)
            BY <1>7 DEF ChunkText
        <2>2. item = FALSE
            BY <1>2, <1>7
        <2>3. GoesOn(Append(out, Event("item")), item', part', text', calls', Strict)
            BY <1>1, <1>5, <2>1, <2>2, ItemSaid, Zenon
        <2>4. Event("item") \in EventSet
            BY EventsAre DEF PlainTypes
        <2>5. QED
            BY <2>1, <2>3, <2>4, OneEventTalks
    <1>8. CASE ~adapter.queues /\ item /\ ~part
        <2>1. /\ item' = item /\ part' = TRUE /\ text' = text /\ Hand(<<Event("part")>>)
            BY <1>8 DEF ChunkText
        <2>2. part = FALSE /\ Client!Has(out, "item")
            BY <1>2, <1>8
        <2>3. GoesOn(Append(out, Event("part")), item', part', text', calls', Strict)
            BY <1>1, <1>5, <2>1, <2>2, PartSaid, Zenon
        <2>4. Event("part") \in EventSet
            BY EventsAre DEF PlainTypes
        <2>5. QED
            BY <2>1, <2>3, <2>4, OneEventTalks
    <1>9. CASE ~adapter.queues /\ item /\ part
        <2>1. /\ item' = item /\ part' = part /\ text' = Append(text, piece)
              /\ Hand(<<d>>)
            BY <1>3, <1>4, <1>9 DEF ChunkText
        <2>2. Client!Has(out, "part")
            BY <1>2, <1>9
        <2>3. GoesOn(Append(out, d), item', part', text', calls', Strict)
            BY <1>1, <1>4, <1>5, <2>1, <2>2, DeltaSaid, Zenon
        <2>4. QED
            BY <2>1, <2>3, OneEventTalks
    <1>10. QED
        BY <1>6, <1>7, <1>8, <1>9

\* A piece of a call is shown and kept.
LEMMA CallTalks ==
    ASSUME WireOK, EndOK, TalkOK, NEW f, TakeLine(f), script[f].kind # "parts", Strict,
           NEW index \in Nat, calls' = WithArgs(calls, index, <<<<f, 1>>>>),
           Hand(<<Args(index, <<f, 1>>)>>), UNCHANGED <<item, part, text>>
    PROVE  TalkOK'
    <1>1. /\ GoesOn(out, item, part, text, calls, Strict) /\ <<f, 1>> \in Fragments
        BY LineGoesOn
    <1>2. out \in Seq(EventSet) /\ CallsTold(out, calls, Strict)
        BY <1>1, Zenon DEF GoesOn, Told
    <1>3. PICK piece \in Fragments : piece = <<f, 1>>
        BY <1>1
    <1>4. PICK e \in EventSet : e = Args(index, piece)
        BY EventsAre
    <1>5. calls' = WithArgs(calls, index, <<piece>>) /\ Hand(<<e>>)
        BY <1>3, <1>4
    <1>6. PICK c : c = WithArgs(calls, index, <<piece>>)
        OBVIOUS
    <1>7. CallsTold(Append(out, Args(index, piece)), c, Strict)
        BY <1>2, <1>6, CallGrows, Zenon
    <1>8. GoesOn(Append(out, Args(index, piece)), item, part, text, c, Strict)
        BY <1>1, <1>7, ArgsSaid, Zenon
    <1>9. item' = item /\ part' = part /\ text' = text
        OBVIOUS
    <1>10. GoesOn(Append(out, e), item', part', text', calls', Strict)
        BY <1>4, <1>5, <1>6, <1>8, <1>9, Zenon
    <1>11. QED
        BY <1>5, <1>10, OneEventTalks

LEMMA ChunkTalks ==
    ASSUME WireOK, EndOK, TalkOK, HandleChunk
    PROVE  TalkOK'
    <1>1. PICK f :
            /\ TakeLine(f) /\ script[f].kind = "chunk" /\ adapter.family = "chunks"
            /\ finished' = finished
            /\ \/ ChunkText(f) /\ UNCHANGED calls
               \/ script[f].calls # <<>> /\ ChunkCall(f, Head(script[f].calls))
               \/ UNCHANGED <<item, part, text, calls, out, pending>>
        BY Zenon DEF HandleChunk
    <1>2. script[f].kind # "parts" /\ Strict
        BY <1>1 DEF Strict
    <1>3. CASE ChunkText(f) /\ UNCHANGED calls
        BY <1>1, <1>3, ChunkTextTalks
    <1>4. CASE script[f].calls # <<>> /\ ChunkCall(f, Head(script[f].calls))
        <2>1. f \in 1 .. Len(script)
            BY <1>1, FrameTaken
        <2>2. IsChunk(script[f])
            BY <1>1, <2>1, FrameIs DEF WireOK
        <2>3. script[f].calls \in Seq(Nat)
            BY <1>1, <2>2 DEF IsChunk
        <2>4. PICK index \in Nat : index = Head(script[f].calls)
            BY <1>4, <2>3, HeadTailProperties
        <2>5. /\ calls' = WithArgs(calls, index, <<<<f, 1>>>>)
              /\ Hand(<<Args(index, <<f, 1>>)>>) /\ UNCHANGED <<item, part, text>>
            BY <1>4, <2>4, Zenon DEF ChunkCall
        <2>6. QED
            BY <1>1, <1>2, <2>5, CallTalks
    <1>5. CASE UNCHANGED <<item, part, text, calls, out, pending>>
        <2>1. Hand(<<>>)
            BY <1>5 DEF Hand
        <2>2. QED
            BY <1>1, <1>5, <2>1, NoEventTalks
    <1>6. QED
        BY <1>1, <1>3, <1>4, <1>5

LEMMA DoneTalks ==
    ASSUME WireOK, EndOK, TalkOK, HandleDone
    PROVE  TalkOK'
    <1>1. PICK f : /\ TakeLine(f) /\ script[f].kind = "done"
                   /\ Hand((IF adapter.queues /\ text # <<>> THEN <<Event("text_done")>>
                                                             ELSE <<>>)
                             \o <<Completed(text, calls, usage)>>)
        BY Zenon DEF HandleDone
    <1>2. /\ finished' = TRUE /\ item' = item /\ part' = part /\ text' = text
          /\ calls' = calls
        BY DEF HandleDone
    <1>3. GoesOn(out, item, part, text, calls, Strict)
        BY <1>1, LineGoesOn
    <1>4. /\ out \in Seq(EventSet) /\ Told(out, item, part, text, calls, Strict)
          /\ Talking(out) /\ ~Client!Has(out, "text_done")
        BY <1>3, Zenon DEF GoesOn
    <1>5. usage \in BOOLEAN
        BY DEF EndOK
    <1>6. PICK e : e = Completed(text, calls, usage)
        OBVIOUS
    <1>7. CASE adapter.queues /\ text # <<>>
        <2>1. PICK d \in EventSet : d = Event("text_done") /\ d.type = "text_done"
            BY EventsAre DEF PlainTypes
        <2>2. Client!Shown(out) # <<>>
            BY <1>4, <1>7, Zenon DEF Told
        <2>3. Follows(out, d, Strict)
            BY <1>4, <2>1, <2>2, FollowsIf, Zenon
        <2>4. PICK x : x = Append(out, d)
            OBVIOUS
        <2>5. Told(x, item, part, text, calls, Strict)
            BY <1>4, <2>1, <2>3, <2>4, ToldOther
        <2>6. x \in Seq(EventSet) /\ Talking(x)
            <3>1. d.type # "completed"
                BY <2>1
            <3>2. Talking(x)
                BY <1>4, <2>4, <3>1, TalkingMore, Zenon
            <3>3. QED
                BY <2>5, <3>2 DEF Told
        <2>7. e \in EventSet /\ Told(Append(x, e), item, part, text, calls, Strict)
            BY <1>5, <1>6, <2>5, <2>6, CompletionTold, Zenon
        <2>8. <<d>> \in Seq(EventSet)
            OBVIOUS
        <2>9. PICK a \in Seq(EventSet) : a = <<d>>
            BY <2>8
        <2>10. out \o a = x
            BY <1>4, <2>4, <2>9, Concats
        <2>11. a \o <<e>> \in Seq(EventSet) /\ out \o (a \o <<e>>) = Append(x, e)
            BY <1>4, <2>7, <2>10, Concats
        <2>12. PICK es \in Seq(EventSet) : es = a \o <<e>>
            BY <2>11
        <2>13. Answer(es, item, part, text, calls, TRUE)
            BY <2>7, <2>11, <2>12, AnswerFinished, Zenon
        <2>14. Hand(es) /\ Answer(es, item', part', text', calls', finished')
            BY <1>1, <1>2, <1>6, <1>7, <2>1, <2>9, <2>12, <2>13, Zenon
        <2>15. QED
            BY <1>1, <2>14, HandlerTalks
    <1>8. CASE ~(adapter.queues /\ text # <<>>)
        <2>1. e \in EventSet /\ Told(Append(out, e), item, part, text, calls, Strict)
            BY <1>4, <1>5, <1>6, CompletionTold, Zenon
        <2>2. <<e>> \in Seq(EventSet) /\ out \o <<e>> = Append(out, e)
            BY <1>4, <2>1, Concats
        <2>3. PICK es \in Seq(EventSet) : es = <<e>>
            BY <2>2
        <2>4. <<>> \o es = es
            BY ConcatEmptySeq
        <2>5. Answer(es, item, part, text, calls, TRUE)
            BY <2>1, <2>2, <2>3, AnswerFinished, Zenon
        <2>6. Hand(es) /\ Answer(es, item', part', text', calls', finished')
            BY <1>1, <1>2, <1>6, <1>8, <2>3, <2>4, <2>5, Zenon
        <2>7. QED
            BY <1>1, <2>6, HandlerTalks
    <1>9. QED
        BY <1>7, <1>8

\* Bedrock's adapter says "in_progress", Anthropic's nothing, for a line
\* without an event of its own; what is accumulated agrees with either.
LEMMA NothingTalks ==
    ASSUME WireOK, EndOK, TalkOK, NEW f, TakeLine(f), script[f].kind # "parts",
           Hand(Nothing), UNCHANGED <<item, part, text>>,
           CallsTold(out, calls', Strict), finished' \in BOOLEAN
    PROVE  TalkOK'
    <1>1. GoesOn(out, item, part, text, calls, Strict)
        BY LineGoesOn
    <1>2. PICK c : c = calls'
        OBVIOUS
    <1>3. GoesOn(out, item, part, text, c, Strict)
        BY <1>1, <1>2, Zenon DEF GoesOn, Told
    <1>4. item' = item /\ part' = part /\ text' = text
        OBVIOUS
    <1>5. CASE adapter.sdk
        <2>1. Hand(<<Event("in_progress")>>)
            BY <1>5 DEF Nothing
        <2>2. GoesOn(Append(out, Event("in_progress")), item, part, text, c, Strict)
            BY <1>3, NothingSaid
        <2>3. GoesOn(Append(out, Event("in_progress")), item', part', text', calls', Strict)
            BY <1>2, <1>4, <2>2, Zenon
        <2>4. Event("in_progress") \in EventSet
            BY EventsAre DEF PlainTypes
        <2>5. QED
            BY <2>1, <2>3, <2>4, OneEventTalks
    <1>6. CASE ~adapter.sdk
        <2>7. <<>> \in Seq(EventSet)
            OBVIOUS
        <2>1. PICK es \in Seq(EventSet) : es = <<>>
            BY <2>7
        <2>2. Hand(es)
            BY <1>6, <2>1 DEF Nothing
        <2>3. out \o es = out
            BY <1>1, <2>1, ConcatEmptySeq DEF GoesOn
        <2>4. GoesOn(out \o es, item', part', text', calls', Strict)
            BY <1>2, <1>3, <1>4, <2>3, Zenon
        <2>5. Answer(es, item', part', text', calls', finished')
            BY <2>4, AnswerGoesOn, Zenon
        <2>6. QED
            BY <2>2, <2>5, HandlerTalks
    <1>7. QED
        BY <1>5, <1>6

LEMMA BlockStartsTalks ==
    ASSUME WireOK, EndOK, TalkOK, NEW f, TakeLine(f), adapter.family = "blocks",
           BlockStarts(f), UNCHANGED <<part, text, usage, finished>>
    PROVE  TalkOK'
    <1>1. script[f].kind # "parts" /\ Strict
        BY DEF BlockStarts, Strict
    <1>2. GoesOn(out, item, part, text, calls, Strict) /\ f \in 1 .. Len(script)
        BY <1>1, LineGoesOn
    <1>3. /\ out \in Seq(EventSet) /\ item \in BOOLEAN
          /\ CallsTold(out, calls, Strict) /\ finished' \in BOOLEAN
        BY <1>2 DEF GoesOn, Told, EndOK
    <1>4. CASE script[f].kind = "text_start" /\ item
        <2>1. item' = item /\ calls' = calls /\ Hand(Nothing)
            BY <1>3, <1>4 DEF BlockStarts
        <2>2. CallsTold(out, calls', Strict)
            BY <1>3, <2>1, Zenon
        <2>3. QED
            BY <1>1, <1>3, <2>1, <2>2, NothingTalks
    <1>5. CASE script[f].kind = "text_start" /\ ~item
        <2>1. item' = TRUE /\ calls' = calls /\ Hand(<<Event("item")>>)
            BY <1>5 DEF BlockStarts
        <2>2. item = FALSE /\ part' = part /\ text' = text
            BY <1>3, <1>5
        <2>3. GoesOn(Append(out, Event("item")), item', part', text', calls', Strict)
            BY <1>2, <2>1, <2>2, ItemSaid, Zenon
        <2>4. Event("item") \in EventSet
            BY EventsAre DEF PlainTypes
        <2>5. QED
            BY <2>1, <2>3, <2>4, OneEventTalks
    <1>6. CASE script[f].kind = "tool_start"
        <2>1. item' = item /\ calls' = WithArgs(calls, script[f].index, <<>>)
              /\ Hand(Nothing)
            BY <1>6 DEF BlockStarts
        <2>2. IsBlock(script[f])
            BY <1>2, FrameIs DEF WireOK
        <2>3. script[f].index \in Nat
            BY <1>6, <2>2 DEF IsBlock
        <2>4. CallsTold(out, WithArgs(calls, script[f].index, <<>>), Strict)
            BY <1>1, <1>3, <2>3, CallStarts, Zenon
        <2>5. CallsTold(out, calls', Strict)
            BY <2>1, <2>4, Zenon
        <2>6. QED
            BY <1>1, <1>3, <2>1, <2>5, NothingTalks
    <1>7. QED
        BY <1>4, <1>5, <1>6 DEF BlockStarts

\* The item was announced by the start of the block, before its first delta.
LEMMA BlockGrowsTalks ==
    ASSUME WireOK, EndOK, TalkOK, NEW f, TakeLine(f), adapter.family = "blocks",
           BlockGrows(f), UNCHANGED <<item, usage, finished>>
    PROVE  TalkOK'
    <1>1. script[f].kind # "parts" /\ Strict
        BY DEF BlockGrows, Strict
    <1>2. /\ GoesOn(out, item, part, text, calls, Strict) /\ f \in 1 .. Len(script)
          /\ <<f, 1>> \in Fragments
        BY <1>1, LineGoesOn
    <1>3. /\ out \in Seq(EventSet) /\ part \in BOOLEAN
          /\ item <=> Client!Has(out, "item")
          /\ part <=> Client!Has(out, "part")
        BY <1>2 DEF GoesOn, Told
    <1>4. CASE script[f].kind = "text" /\ ~part
        <2>1. part' = TRUE /\ text' = text /\ calls' = calls /\ Hand(<<Event("part")>>)
              /\ item' = item
            BY <1>4 DEF BlockGrows
        <2>2. Client!Has(out, "item")
            <3>1. f \in DOMAIN script /\ WellFormed(script) /\ handled \in Nat
                BY <1>2 DEF WireOK, ScriptOK
            <3>2. PICK j \in 1 .. f - 1 : script[j].kind = "text_start"
                BY <1>4, <3>1, Zenon DEF WellFormed
            <3>3. f = handled + 1
                BY FrameTaken
            <3>4. j \in 1 .. handled
                BY <3>1, <3>2, <3>3
            <3>5. item
                BY <3>2, <3>4 DEF EndOK
            <3>6. QED
                BY <1>3, <3>5
        <2>3. part = FALSE
            BY <1>3, <1>4
        <2>4. GoesOn(Append(out, Event("part")), item', part', text', calls', Strict)
            BY <1>2, <2>1, <2>2, <2>3, PartSaid, Zenon
        <2>5. Event("part") \in EventSet
            BY EventsAre DEF PlainTypes
        <2>6. QED
            BY <2>1, <2>4, <2>5, OneEventTalks
    <1>5. CASE script[f].kind = "text" /\ part
        <2>1. PICK piece \in Fragments : piece = <<f, 1>>
            BY <1>2
        <2>2. PICK d \in EventSet : d = Delta(piece)
            BY EventsAre
        <2>3. /\ part' = part /\ text' = Append(text, piece) /\ calls' = calls
              /\ item' = item /\ Hand(<<d>>)
            BY <1>5, <2>1, <2>2 DEF BlockGrows
        <2>4. Client!Has(out, "part")
            BY <1>3, <1>5
        <2>5. GoesOn(Append(out, d), item', part', text', calls', Strict)
            BY <1>2, <2>2, <2>3, <2>4, DeltaSaid, Zenon
        <2>6. QED
            BY <2>3, <2>5, OneEventTalks
    <1>6. CASE script[f].kind = "args"
        <2>1. /\ calls' = WithArgs(calls, script[f].index, <<<<f, 1>>>>)
              /\ Hand(<<Args(script[f].index, <<f, 1>>)>>)
              /\ UNCHANGED <<item, part, text>>
            BY <1>6 DEF BlockGrows
        <2>2. IsBlock(script[f])
            BY <1>2, FrameIs DEF WireOK
        <2>3. script[f].index \in Nat
            BY <1>6, <2>2 DEF IsBlock
        <2>4. QED
            BY <1>1, <2>1, <2>3, CallTalks
    <1>7. QED
        BY <1>4, <1>5, <1>6 DEF BlockGrows

LEMMA StopsTalks ==
    ASSUME WireOK, EndOK, TalkOK, NEW f, TakeLine(f), Stops(f),
           UNCHANGED <<item, part, text, calls>>
    PROVE  TalkOK'
    <1>1. script[f].kind = "stop"
        BY DEF Stops
    <1>2. /\ ~finished /\ pending = <<>> /\ Len(out) >= 2
        BY <1>1, FrameTaken
    <1>3. item' = item /\ part' = part /\ text' = text /\ calls' = calls
        OBVIOUS
    <1>4. CASE finished' = TRUE /\ Hand(<<Completed(text, calls, TRUE)>>)
        <2>1. PICK u \in BOOLEAN : u = TRUE
            OBVIOUS
        <2>2. Answer(<<Completed(text, calls, u)>>, item, part, text, calls, TRUE)
            BY <1>2, CompletionSaid
        <2>3. PICK es : es = <<Completed(text, calls, u)>>
            OBVIOUS
        <2>4. Hand(es) /\ Answer(es, item', part', text', calls', finished')
            BY <1>3, <1>4, <2>1, <2>2, <2>3, Zenon
        <2>5. QED
            BY <2>4, HandlerTalks
    <1>5. CASE UNCHANGED finished /\ Hand(Nothing)
        <2>1. GoesOn(out, item, part, text, calls, Strict)
            BY <1>1, LineGoesOn
        <2>2. CallsTold(out, calls', Strict)
            BY <1>3, <2>1, Zenon DEF GoesOn, Told
        <2>3. finished' \in BOOLEAN
            BY <1>5 DEF EndOK
        <2>4. QED
            BY <1>1, <1>5, <2>2, <2>3, NothingTalks
    <1>6. QED
        BY <1>4, <1>5 DEF Stops

LEMMA BlockTalks ==
    ASSUME WireOK, EndOK, TalkOK, HandleBlock
    PROVE  TalkOK'
    <1>1. PICK f :
            /\ TakeLine(f) /\ adapter.family = "blocks"
            /\ \/ BlockStarts(f) /\ UNCHANGED <<part, text, usage, finished>>
               \/ BlockGrows(f) /\ UNCHANGED <<item, usage, finished>>
               \/ Stops(f) /\ UNCHANGED <<item, part, text, calls>>
               \/ /\ script[f].kind = "error" /\ Hand(<<Event("error")>>)
                  /\ UNCHANGED acc
               \/ script[f].kind = "error" /\ Hand(Nothing) /\ UNCHANGED acc
        BY Zenon DEF HandleBlock
    <1>2. CASE BlockStarts(f) /\ UNCHANGED <<part, text, usage, finished>>
        BY <1>1, <1>2, BlockStartsTalks
    <1>3. CASE BlockGrows(f) /\ UNCHANGED <<item, usage, finished>>
        BY <1>1, <1>3, BlockGrowsTalks
    <1>4. CASE Stops(f) /\ UNCHANGED <<item, part, text, calls>>
        BY <1>1, <1>4, StopsTalks
    <1>5. CASE /\ script[f].kind = "error" /\ UNCHANGED acc
               /\ Hand(<<Event("error")>>) \/ Hand(Nothing)
        <2>1. /\ item' = item /\ part' = part /\ text' = text /\ calls' = calls
              /\ finished' = finished
            BY <1>5 DEF acc
        <2>2. GoesOn(out, item, part, text, calls, Strict)
            BY <1>1, <1>5, LineGoesOn
        <2>3. CASE Hand(<<Event("error")>>)
            <3>1. GoesOn(Append(out, Event("error")), item, part, text, calls, Strict)
                BY <2>2, NothingSaid
            <3>2. GoesOn(Append(out, Event("error")), item', part', text', calls', Strict)
                BY <2>1, <3>1, Zenon
            <3>3. Event("error") \in EventSet
                BY EventsAre DEF PlainTypes
            <3>4. QED
                BY <1>1, <2>3, <3>2, <3>3, OneEventTalks
        <2>4. CASE Hand(Nothing)
            <3>1. CallsTold(out, calls', Strict)
                BY <2>1, <2>2, Zenon DEF GoesOn, Told
            <3>2. finished' \in BOOLEAN
                BY <2>1 DEF EndOK
            <3>3. QED
                BY <1>1, <1>5, <2>1, <2>4, <3>1, <3>2, NothingTalks
        <2>5. QED
            BY <1>5, <2>3, <2>4
    <1>6. QED
        BY <1>1, <1>2, <1>3, <1>4, <1>5

-----------------------------------------------------------------------------
(* The parts of a Gemini chunk.                                            *)

Adding == [item : BOOLEAN, part : BOOLEAN, text : Seq(Fragments), calls : CallMaps,
           events : Seq(EventSet)]

\* What one part adds.
PartAdded(f, s, i, r) ==
    /\ r \in Adding
    /\ script[f].parts[i] = "text" =>
          /\ r.item = TRUE /\ r.part = TRUE /\ r.calls = s.calls
          /\ r.text = Append(s.text, <<f, i>>)
          /\ r.events = (s.events \o Opens(s.item, s.part)) \o <<Delta(<<f, i>>)>>
    /\ script[f].parts[i] # "text" =>
          /\ r.item = s.item /\ r.part = s.part /\ r.text = s.text
          /\ r.calls = CallAt(s.calls, i, <<<<f, i>>>>)
          /\ r.events = Append(s.events, Args(i, <<f, i>>))

LEMMA CallAtIs ==
    ASSUME NEW c \in CallMaps, NEW index \in Nat, NEW pieces \in Seq(Fragments)
    PROVE  CallAt(c, index, pieces) \in CallMaps
    <1>1. DOMAIN c \subseteq Nat /\ \A i \in DOMAIN c : c[i] \in Seq(Fragments)
        BY CallMapIs
    <1>2. PICK D \in SUBSET Nat : D = DOMAIN c \cup {index}
        BY <1>1
    <1>3. \A j \in D : (IF j = index THEN pieces ELSE c[j]) \in Seq(Fragments)
        BY <1>1, <1>2
    <1>4. [j \in D |-> IF j = index THEN pieces ELSE c[j]] \in [D -> Seq(Fragments)]
        BY <1>3
    <1>5. [j \in D |-> IF j = index THEN pieces ELSE c[j]] \in CallMaps
        BY <1>4, CallMapOf
    <1>6. QED
        BY <1>2, <1>5, Zenon DEF CallAt

LEMMA AddingIs ==
    ASSUME NEW s \in Adding
    PROVE  /\ s.item \in BOOLEAN /\ s.part \in BOOLEAN /\ s.text \in Seq(Fragments)
           /\ s.calls \in CallMaps /\ s.events \in Seq(EventSet)
           /\ s = [item |-> s.item, part |-> s.part, text |-> s.text,
                   calls |-> s.calls, events |-> s.events]
    BY Zenon DEF Adding

LEMMA AddingOf ==
    ASSUME NEW it \in BOOLEAN, NEW pt \in BOOLEAN, NEW t \in Seq(Fragments),
           NEW c \in CallMaps, NEW es \in Seq(EventSet)
    PROVE  [item |-> it, part |-> pt, text |-> t, calls |-> c, events |-> es] \in Adding
    BY Zenon DEF Adding

LEMMA AddPartIs ==
    ASSUME NEW f \in Nat, NEW s \in Adding, NEW i \in Nat
    PROVE  PartAdded(f, s, i, AddPart(f, s, i))
    <1>1. PICK it \in BOOLEAN, pt \in BOOLEAN, t \in Seq(Fragments), c \in CallMaps,
               es \in Seq(EventSet) :
              s = [item |-> it, part |-> pt, text |-> t, calls |-> c, events |-> es]
        BY AddingIs
    <1>2. /\ s.item = it /\ s.part = pt /\ s.text = t /\ s.calls = c /\ s.events = es
        BY <1>1
    <1>3. PICK piece \in Fragments : piece = <<f, i>>
        BY DEF Fragments
    <1>4. <<piece>> \in Seq(Fragments) /\ Append(t, piece) \in Seq(Fragments)
        OBVIOUS
    <1>5. PICK r : r = AddPart(f, s, i)
        OBVIOUS
    <1>6. CASE script[f].parts[i] = "text"
        <2>1. PICK d \in EventSet : d = Delta(piece)
            BY EventsAre
        <2>2. PICK a, b : /\ a = (IF it THEN <<>> ELSE <<Event("item")>>)
                          /\ b = (IF pt THEN <<>> ELSE <<Event("part")>>)
            OBVIOUS
        <2>3. a \in Seq(EventSet) /\ b \in Seq(EventSet)
            <3>1. Event("item") \in EventSet /\ Event("part") \in EventSet
                BY EventsAre DEF PlainTypes
            <3>2. QED
                BY <2>2, <3>1
        <2>4. PICK yes \in BOOLEAN : yes = TRUE
            OBVIOUS
        <2>5. r = [item |-> yes, part |-> yes, text |-> Append(t, piece), calls |-> c,
                   events |-> ((es \o a) \o b) \o <<d>>]
            BY <1>1, <1>2, <1>3, <1>5, <1>6, <2>1, <2>2, <2>4 DEF AddPart
        <2>6. (es \o a) \o b = es \o (a \o b)
            <3>1. Associates(es, a, b)
                BY <2>3, Associative, Zenon
            <3>2. QED
                BY <3>1, Zenon DEF Associates
        <2>7. a \o b = Opens(it, pt)
            BY <2>2, Zenon DEF Opens
        <2>8. PICK x \in Seq(EventSet) : x = es \o Opens(it, pt)
            BY OpensAre, ConcatProperties
        <2>9. x \o <<d>> \in Seq(EventSet)
            BY Concats
        <2>10. PICK y \in Seq(EventSet) : y = x \o <<d>>
            BY <2>9
        <2>11. r = [item |-> yes, part |-> yes, text |-> Append(t, piece), calls |-> c,
                    events |-> y]
            BY <2>5, <2>6, <2>7, <2>8, <2>10, Zenon
        <2>12. r \in Adding
            BY <1>4, <2>11, AddingOf, Zenon
        <2>13. /\ r.item = yes /\ r.part = yes /\ r.text = Append(t, piece)
               /\ r.calls = c /\ r.events = y
            BY <2>11
        <2>14. QED
            BY <1>2, <1>3, <1>5, <1>6, <2>1, <2>4, <2>8, <2>10, <2>12, <2>13, Zenon
                DEF PartAdded
    <1>7. CASE script[f].parts[i] # "text"
        <2>1. PICK e \in EventSet : e = Args(i, piece)
            BY EventsAre
        <2>2. PICK w \in CallMaps : w = CallAt(c, i, <<piece>>)
            BY <1>4, CallAtIs, Zenon
        <2>3. w = [j \in DOMAIN c \cup {i} |-> IF j = i THEN <<piece>> ELSE c[j]]
            BY <2>2, Zenon DEF CallAt
        <2>4. r = [item |-> it, part |-> pt, text |-> t,
                   calls |-> [j \in DOMAIN c \cup {i} |->
                                IF j = i THEN <<piece>> ELSE c[j]],
                   events |-> Append(es, e)]
            BY <1>1, <1>2, <1>3, <1>5, <1>7, <2>1 DEF AddPart
        <2>5. PICK y \in Seq(EventSet) : y = Append(es, e)
            BY AppendProperties
        <2>6. r = [item |-> it, part |-> pt, text |-> t, calls |-> w, events |-> y]
            BY <2>3, <2>4, <2>5, Zenon
        <2>7. r \in Adding
            BY <2>6, AddingOf, Zenon
        <2>8. /\ r.item = it /\ r.part = pt /\ r.text = t /\ r.calls = w /\ r.events = y
            BY <2>6
        <2>9. QED
            BY <1>2, <1>3, <1>5, <1>7, <2>1, <2>2, <2>5, <2>7, <2>8, Zenon DEF PartAdded
    <1>8. QED
        BY <1>6, <1>7

\* The parts that were added, part by part.
Before == [item |-> item, part |-> part, text |-> text, calls |-> calls,
           events |-> <<>>]

PartsSoFar(f, h) ==
    h = [i \in 0 .. Len(script[f].parts) |->
            IF i = 0 THEN Before ELSE AddPart(f, h[i - 1], i)]

PartSteps(f, h) ==
    /\ h[0] = Before
    /\ \A i \in 1 .. Len(script[f].parts) : h[i] = AddPart(f, h[i - 1], i)

LEMMA AddPartsAre ==
    ASSUME NEW f \in Nat, Len(script[f].parts) \in Nat, Before \in Adding
    PROVE  \E h : PartSteps(f, h) /\ AddParts(f) = h[Len(script[f].parts)]
    <1>0. PICK n \in Nat : n = Len(script[f].parts)
        OBVIOUS
    <1>1. PICK step \in Steps(Adding, n) :
              \A i \in 1 .. n : \A x \in Adding : step[i][x] = AddPart(f, x, i)
        <2>1. PICK step : step = [i \in 1 .. n |-> [x \in Adding |-> AddPart(f, x, i)]]
            OBVIOUS
        <2>2. \A i \in 1 .. n : \A x \in Adding : AddPart(f, x, i) \in Adding
            <3>1. \A i \in 1 .. n : i \in Nat
                OBVIOUS
            <3>2. \A i \in 1 .. n : \A x \in Adding : PartAdded(f, x, i, AddPart(f, x, i))
                BY <3>1, AddPartIs, Zenon
            <3>3. QED
                BY <3>2, Zenon DEF PartAdded
        <2>3. step \in Steps(Adding, n)
            BY <2>1, <2>2, Zenon DEF Steps
        <2>4. \A i \in 1 .. n : \A x \in Adding : step[i][x] = AddPart(f, x, i)
            BY <2>1, Zenon
        <2>5. QED
            BY <2>3, <2>4, Zenon
    <1>2. PICK h : History(Adding, Before, n, step, h)
        BY Recursion, Zenon
    <1>3. PartsSoFar(f, h)
        <2>1. \A i \in 1 .. n : i - 1 \in 0 .. n
            OBVIOUS
        <2>2. \A i \in 1 .. n : h[i] = AddPart(f, h[i - 1], i)
            BY <1>1, <1>2, <2>1, Zenon DEF History
        <2>3. /\ \A i \in 0 .. n : i = 0 \/ i \in 1 .. n
              /\ \A i \in 1 .. n : i # 0
            OBVIOUS
        <2>4. \A i \in 0 .. n : h[i] = IF i = 0 THEN Before ELSE AddPart(f, h[i - 1], i)
            BY <1>2, <2>2, <2>3, Zenon DEF History
        <2>5. h = [i \in 0 .. n |-> h[i]]
            BY <1>2, Zenon DEF History
        <2>6. QED
            BY <1>0, <2>4, <2>5, Zenon DEF PartsSoFar
    <1> DEFINE chosen == CHOOSE c : PartsSoFar(f, c)
    <1>4. PartsSoFar(f, chosen)
        BY <1>3
    <1>5. AddParts(f) = chosen[Len(script[f].parts)]
        BY Zenon DEF AddParts, PartsSoFar, Before
    <1> HIDE DEF chosen
    <1>6. PICK c : PartsSoFar(f, c) /\ AddParts(f) = c[Len(script[f].parts)]
        BY <1>4, <1>5
    <1>7. PartSteps(f, c)
        <2>1. /\ 0 \in 0 .. Len(script[f].parts)
              /\ \A i \in 1 .. Len(script[f].parts) :
                    i \in 0 .. Len(script[f].parts) /\ i # 0
            OBVIOUS
        <2>2. QED
            BY <1>6, <2>1, Zenon DEF PartsSoFar, PartSteps
    <1>8. QED
        BY <1>6, <1>7

\* What the parts add is what the client is told.
PartsSay(s) ==
    /\ s \in Adding
    /\ GoesOn(out \o s.events, s.item, s.part, s.text, s.calls, Strict)

LEMMA PartSays ==
    ASSUME out \in Seq(EventSet), ~Strict, NEW f \in Nat, NEW i \in Nat, NEW s,
           PartsSay(s)
    PROVE  PartsSay(AddPart(f, s, i))
    <1>1. /\ s \in Adding /\ s.events \in Seq(EventSet) /\ s.calls \in CallMaps
          /\ GoesOn(out \o s.events, s.item, s.part, s.text, s.calls, Strict)
        BY AddingIs DEF PartsSay
    <1>2. PICK r : r = AddPart(f, s, i)
        OBVIOUS
    <1>3. PartAdded(f, s, i, r)
        BY <1>1, <1>2, AddPartIs, Zenon
    <1>4. PICK piece \in Fragments : piece = <<f, i>>
        BY DEF Fragments
    <1>5. PICK es \in Seq(EventSet) : es = out \o s.events
        BY <1>1, ConcatProperties
    <1>6. GoesOn(es, s.item, s.part, s.text, s.calls, Strict)
        BY <1>1, <1>5, Zenon
    <1>7. CASE script[f].parts[i] = "text"
        <2>1. PICK a \in Seq(EventSet) : a = Opens(s.item, s.part)
            BY OpensAre
        <2>2. PICK d \in EventSet : d = Delta(piece)
            BY EventsAre
        <2>3. GoesOn(Append(es \o a, d), TRUE, TRUE, Append(s.text, piece), s.calls, Strict)
            BY <1>6, <2>1, <2>2, TextSaid, Zenon
        <2>4. PICK ev \in Seq(EventSet) : ev = s.events \o a
            BY <1>1, ConcatProperties
        <2>5. out \o (ev \o <<d>>) = Append(out \o ev, d)
            BY Concats
        <2>6. out \o ev = es \o a
            <3>1. Associates(out, s.events, a)
                BY <1>1, Associative, Zenon
            <3>2. QED
                BY <1>5, <2>4, <3>1, Zenon DEF Associates
        <2>7. /\ r \in Adding /\ r.item = TRUE /\ r.part = TRUE /\ r.calls = s.calls
              /\ r.text = Append(s.text, piece) /\ r.events = ev \o <<d>>
            BY <1>3, <1>4, <1>7, <2>1, <2>2, <2>4, Zenon DEF PartAdded
        <2>8. GoesOn(out \o r.events, r.item, r.part, r.text, r.calls, Strict)
            BY <2>3, <2>5, <2>6, <2>7, Zenon
        <2>9. QED
            BY <1>2, <2>7, <2>8, Zenon DEF PartsSay
    <1>8. CASE script[f].parts[i] # "text"
        <2>1. PICK e \in EventSet : e = Args(i, piece)
            BY EventsAre
        <2>2. PICK w : w = CallAt(s.calls, i, <<piece>>)
            OBVIOUS
        <2>3. CallsTold(es, s.calls, Strict) /\ Strict = FALSE
            BY <1>6 DEF GoesOn, Told, Strict
        <2>4. CallsTold(Append(es, Args(i, piece)), w, Strict)
            BY <2>2, <2>3, CallIsReplaced, Zenon
        <2>5. GoesOn(Append(es, e), s.item, s.part, s.text, w, Strict)
            BY <1>6, <2>1, <2>4, ArgsSaid, Zenon
        <2>6. /\ r \in Adding /\ r.item = s.item /\ r.part = s.part /\ r.text = s.text
              /\ r.calls = w /\ r.events = Append(s.events, e)
            BY <1>3, <1>4, <1>8, <2>1, <2>2, Zenon DEF PartAdded
        <2>7. out \o Append(s.events, e) = Append(es, e)
            <3>1. PICK ev \in Seq(EventSet) : ev = s.events
                BY <1>1
            <3>2. out \o (ev \o <<e>>) = Append(out \o ev, e)
                BY Concats
            <3>3. ev \o <<e>> = Append(ev, e)
                BY Concats
            <3>4. QED
                BY <1>5, <3>1, <3>2, <3>3, Zenon
        <2>8. GoesOn(out \o r.events, r.item, r.part, r.text, r.calls, Strict)
            BY <2>5, <2>6, <2>7, Zenon
        <2>9. QED
            BY <1>2, <2>6, <2>8, Zenon DEF PartsSay
    <1>9. QED
        BY <1>7, <1>8

LEMMA BeforeIs ==
    ASSUME TalkOK
    PROVE  Before \in Adding
    <1>1. Told(out \o pending, item, part, text, calls, Strict)
        BY DEF TalkOK
    <1>2. /\ out \o pending \in Seq(EventSet) /\ item \in BOOLEAN
          /\ part \in BOOLEAN /\ text = Client!Shown(out \o pending)
          /\ calls \in CallMaps
        BY <1>1 DEF Told, CallsTold
    <1>3. text \in Seq(Fragments)
        <2>1. Event("error") \in EventSet
            BY EventsAre DEF PlainTypes
        <2>2. QED
            BY <1>2, <2>1, ShownMore
    <1>4. <<>> \in Seq(EventSet)
        OBVIOUS
    <1>5. PICK none \in Seq(EventSet) : none = <<>>
        BY <1>4
    <1>6. [item |-> item, part |-> part, text |-> text, calls |-> calls,
           events |-> none] \in Adding
        BY <1>2, <1>3, AddingOf, Zenon
    <1>7. QED
        BY <1>5, <1>6, Zenon DEF Before

LEMMA BeforeSays ==
    ASSUME TalkOK, EndOK, pending = <<>>, Len(out) >= 2, ~finished
    PROVE  PartsSay(Before)
    <1>1. GoesOn(out, item, part, text, calls, Strict) /\ out \in Seq(EventSet)
        BY GoingOn DEF TalkOK, OpenOK
    <1>2. Before \in Adding
        BY BeforeIs
    <1>3. /\ Before.item = item /\ Before.part = part /\ Before.text = text
          /\ Before.calls = calls /\ Before.events = <<>>
        BY DEF Before
    <1>4. out \o <<>> = out
        BY <1>1, ConcatEmptySeq
    <1>5. PICK b : b = Before
        OBVIOUS
    <1>6. GoesOn(out \o b.events, b.item, b.part, b.text, b.calls, Strict)
        BY <1>1, <1>3, <1>4, <1>5, Zenon
    <1>7. PartsSay(b)
        BY <1>2, <1>5, <1>6 DEF PartsSay
    <1>8. QED
        BY <1>5, <1>7

\* All parts of a chunk are told, while the response goes on.
LEMMA AllPartsSay ==
    ASSUME TalkOK, EndOK, pending = <<>>, Len(out) >= 2, ~finished, ~Strict,
           NEW f \in Nat, Len(script[f].parts) \in Nat
    PROVE  PartsSay(AddParts(f))
    <1>1. PICK n \in Nat : n = Len(script[f].parts)
        OBVIOUS
    <1>2. PartsSay(Before)
        BY BeforeSays
    <1>3. PICK h : PartSteps(f, h) /\ AddParts(f) = h[n]
        BY <1>1, <1>2, AddPartsAre, Zenon DEF PartsSay
    <1> DEFINE A == {i \in Nat : i <= n => PartsSay(h[i])}
    <1>4. 0 \in A
        BY <1>2, <1>3 DEF PartSteps
    <1>5. ASSUME NEW i \in Nat, i \in A PROVE i + 1 \in A
        <2>1. SUFFICES ASSUME i + 1 <= n PROVE PartsSay(h[i + 1])
            OBVIOUS
        <2>2. i <= n /\ i + 1 \in 1 .. n /\ (i + 1) - 1 = i /\ i + 1 \in Nat
            BY <2>1
        <2>3. PartsSay(h[i])
            BY <1>5, <2>2
        <2>4. h[i + 1] = AddPart(f, h[i], i + 1)
            BY <1>1, <1>3, <2>2, Zenon DEF PartSteps
        <2>5. PartsSay(AddPart(f, h[i], i + 1))
            BY <2>2, <2>3, PartSays, Zenon DEF TalkOK, OpenOK
        <2>6. QED
            BY <2>4, <2>5
    <1>6. Nat \subseteq A
        <2> HIDE DEF A
        <2> QED BY <1>4, <1>5, EveryNumber
    <1>7. PartsSay(h[n])
        BY <1>6
    <1>8. QED
        BY <1>3, <1>7

LEMMA PartsTalk ==
    ASSUME WireOK, EndOK, TalkOK, HandleParts
    PROVE  TalkOK'
    <1>1. PICK f : TakeLine(f)
                   /\ item' = AddParts(f).item /\ part' = AddParts(f).part
                   /\ text' = AddParts(f).text /\ calls' = AddParts(f).calls
                   /\ finished' = (finished \/ script[f].finish)
                   /\ Hand(AddParts(f).events
                             \o (IF script[f].finish /\ ~finished
                                 THEN <<Completed(AddParts(f).text, AddParts(f).calls, TRUE)>>
                                 ELSE <<>>))
        BY Zenon DEF HandleParts
    <1>2. PICK s : s = AddParts(f)
        OBVIOUS
    <1>3. /\ item' = s.item /\ part' = s.part /\ text' = s.text /\ calls' = s.calls
          /\ Hand(s.events \o (IF script[f].finish /\ ~finished
                               THEN <<Completed(s.text, s.calls, TRUE)>> ELSE <<>>))
        BY <1>1, <1>2, Zenon
    <1>4. /\ f \in 1 .. Len(script) /\ pending = <<>> /\ Len(out) >= 2
          /\ finished => script[f].parts = <<>>
        BY <1>1, FrameTaken
    <1>5. f \in Nat
        BY <1>4, SentLines DEF WireOK
    <1>6. ~Strict /\ adapter.family = "parts"
        BY DEF HandleParts, Strict
    <1>7. script[f].parts \in Seq({"text", "call"}) /\ script[f].finish \in BOOLEAN
        BY <1>4, <1>6, FrameIs DEF WireOK, IsParts
    <1>8. finished \in BOOLEAN
        BY DEF EndOK
    <1>9. CASE ~finished
        <2>1. PartsSay(s)
            BY <1>2, <1>4, <1>5, <1>6, <1>7, <1>9, AllPartsSay
        <2>2. /\ s \in Adding /\ s.events \in Seq(EventSet)
              /\ GoesOn(out \o s.events, s.item, s.part, s.text, s.calls, Strict)
            BY <2>1, AddingIs DEF PartsSay
        <2>3. CASE script[f].finish
            <3>1. PICK u \in BOOLEAN : u = TRUE
                OBVIOUS
            <3>2. PICK e : e = Completed(s.text, s.calls, u)
                OBVIOUS
            <3>3. PICK x : x = out \o s.events
                OBVIOUS
            <3>4. Told(x, s.item, s.part, s.text, s.calls, Strict) /\ Talking(x)
                BY <2>2, <3>3, Zenon DEF GoesOn
            <3>5. e \in EventSet /\ Told(Append(x, e), s.item, s.part, s.text, s.calls, Strict)
                BY <3>1, <3>2, <3>4, CompletionTold, Zenon
            <3>6. out \in Seq(EventSet)
                BY DEF TalkOK, OpenOK
            <3>7. /\ s.events \o <<e>> \in Seq(EventSet)
                  /\ out \o (s.events \o <<e>>) = Append(x, e)
                BY <2>2, <3>3, <3>5, <3>6, Concats
            <3>8. PICK es \in Seq(EventSet) : es = s.events \o <<e>>
                BY <3>7
            <3>9. Answer(es, s.item, s.part, s.text, s.calls, TRUE)
                BY <3>5, <3>7, <3>8, AnswerFinished, Zenon
            <3>10. finished' = TRUE
                BY <1>1, <2>3
            <3>11. Hand(es)
                BY <1>3, <1>9, <2>3, <3>1, <3>2, <3>8, Zenon
            <3>12. Answer(es, item', part', text', calls', finished')
                BY <1>3, <3>9, <3>10, Zenon
            <3>13. QED
                BY <1>1, <3>11, <3>12, HandlerTalks
        <2>4. CASE ~script[f].finish
            <3>1. PICK es \in Seq(EventSet) : es = s.events
                BY <2>2
            <3>2. es \o <<>> = es
                BY ConcatEmptySeq
            <3>3. Hand(es)
                BY <1>3, <2>4, <3>1, <3>2, Zenon
            <3>4. GoesOn(out \o es, item', part', text', calls', Strict)
                BY <1>3, <2>2, <3>1, Zenon
            <3>5. Answer(es, item', part', text', calls', finished')
                BY <3>4, AnswerGoesOn, Zenon
            <3>6. QED
                BY <1>1, <3>3, <3>5, HandlerTalks
        <2>5. QED
            BY <2>3, <2>4
    <1>10. CASE finished
        <2>1. Len(script[f].parts) = 0
            BY <1>4, <1>10
        <2>2. Before \in Adding
            BY BeforeIs
        <2>3. s = Before
            <3>1. PICK h : PartSteps(f, h) /\ AddParts(f) = h[Len(script[f].parts)]
                BY <1>5, <2>1, <2>2, AddPartsAre
            <3>2. QED
                BY <1>2, <2>1, <3>1, Zenon DEF PartSteps
        <2>4. /\ s.item = item /\ s.part = part /\ s.text = text /\ s.calls = calls
              /\ s.events = <<>>
            BY <2>3 DEF Before
        <2>5. <<>> \o <<>> = <<>>
            OBVIOUS
        <2>6. Hand(<<>>)
            BY <1>3, <1>10, <2>4, <2>5, Zenon
        <2>7. finished' = finished
            BY <1>1, <1>8, <1>10
        <2>8. UNCHANGED <<item, part, text, calls, finished>>
            BY <1>3, <2>4, <2>7
        <2>9. QED
            BY <1>1, <2>6, <2>8, NoEventTalks
    <1>11. QED
        BY <1>9, <1>10

-----------------------------------------------------------------------------
(* What is told, in every state.                                           *)

StreamOK == WireOK /\ EndOK /\ TalkOK

LEMMA InitTalks ==
    ASSUME Init
    PROVE  TalkOK
    <1>1. /\ out = <<>> /\ pending = <<>> /\ item = FALSE /\ part = FALSE
          /\ text = <<>> /\ calls = <<>> /\ finished = FALSE /\ closed = FALSE
        BY DEF Init
    <1>2. <<>> \in Seq(EventSet) /\ Len(<<>>) = 0 /\ <<>> \o <<>> = <<>>
        BY ConcatEmptySeq
    <1>3. OpenOK
        BY <1>1, <1>2 DEF OpenOK
    <1>4. <<>> \in CallMaps /\ DOMAIN <<>> = {}
        <2>1. <<>> \in [{} -> Seq(Fragments)]
            OBVIOUS
        <2>2. {} \in SUBSET Nat
            OBVIOUS
        <2>3. QED
            BY <2>1, <2>2, CallMapOf
    <1>5. CallsTold(<<>>, <<>>, Strict)
        BY <1>4, NothingShown DEF CallsTold
    <1>6. Legal(<<>>, Strict)
        BY <1>2 DEF Legal
    <1>7. Told(<<>>, FALSE, FALSE, <<>>, <<>>, Strict)
        BY <1>2, <1>5, <1>6, NothingShown DEF Told
    <1>8. QED
        BY <1>1, <1>2, <1>3, <1>7, NothingShown, Zenon DEF TalkOK

LEMMA NextTalks ==
    ASSUME WireOK, EndOK, TalkOK, [Next]_vars
    PROVE  TalkOK'
    <1>1. CASE Announce
        BY <1>1, AnnounceTalks
    <1>2. CASE PopPending
        BY <1>2, PopTalks
    <1>3. CASE HandleChunk
        BY <1>3, ChunkTalks
    <1>4. CASE HandleDone
        BY <1>4, DoneTalks
    <1>5. CASE HandleBlock
        BY <1>5, BlockTalks
    <1>6. CASE HandleParts
        BY <1>6, PartsTalk
    <1>7. CASE Receive \/ StopsWhenDone \/ UNCHANGED vars
        BY <1>7, QuietStepTalks
    <1>8. CASE StreamEnds
        BY <1>8, StreamEndTalks
    <1>9. CASE Break
        BY <1>9, BreakTalks
    <1>10. QED
        BY <1>1, <1>2, <1>3, <1>4, <1>5, <1>6, <1>7, <1>8, <1>9 DEF Next, Poll

\* What the adapters accumulate is what their events said, in every state.
THEOREM StreamInvariant == Spec => []StreamOK
    <1>1. Init => StreamOK
        BY InitWire, InitEnd, InitTalks DEF StreamOK
    <1>2. StreamOK /\ [Next]_vars => StreamOK'
        BY NextKeepsWire, NextKeepsEnd, NextTalks DEF StreamOK
    <1>3. QED
        BY <1>1, <1>2, PTL DEF Spec

-----------------------------------------------------------------------------
(* Every step of an adapter is a step of EventStream.                      *)

\* What a step adds to what the client has seen: nothing, or one event.
OneStepOut == out' = out \/ \E e \in EventSet : out' = Append(out, e)

LEMMA HandsOne ==
    ASSUME OpenOK, OpenOK', NEW es, Hand(es)
    PROVE  OneStepOut
    <1>1. CASE es = <<>>
        BY <1>1 DEF Hand, OneStepOut
    <1>2. CASE es # <<>>
        <2>1. PICK e : e = Head(es) /\ out' = Append(out, e)
            BY <1>2 DEF Hand
        <2>2. PICK S : S = EventSet \cup {e}
            OBVIOUS
        <2>3. out \in Seq(S) /\ e \in S /\ Len(out) \in Nat
            BY <2>2 DEF OpenOK
        <2>4. Len(out') = Len(out) + 1 /\ out'[Len(out) + 1] = e
            BY <2>1, <2>3, AppendProperties, Zenon
        <2>5. out' \in Seq(EventSet) /\ Len(out) + 1 \in 1 .. Len(out')
            BY <2>3, <2>4 DEF OpenOK
        <2>6. e \in EventSet
            BY <2>4, <2>5
        <2>7. QED
            BY <2>1, <2>6 DEF OneStepOut
    <1>3. QED
        BY <1>1, <1>2

\* An event is handed out only in its place.
LEMMA EmitsOne ==
    ASSUME TalkOK, TalkOK', NEW e \in EventSet, out' = Append(out, e), ~closed,
           UNCHANGED <<closed, adapter>>
    PROVE  Client!Emit
    <1>1. PICK n \in Nat : n = Len(out)
        BY DEF TalkOK, OpenOK
    <1>2. /\ out \in Seq(EventSet) /\ out' \in Seq(EventSet) /\ pending' \in Seq(EventSet)
          /\ Strict' = Strict
        BY DEF TalkOK, OpenOK, Strict
    <1>3. /\ Len(out') = n + 1 /\ \A i \in 1 .. n : out'[i] = out[i]
          /\ out'[n + 1] = e
        BY <1>1, <1>2, AppendProperties
    <1>4. PICK rest \in Seq(EventSet) : rest = pending'
        BY <1>2
    <1>5. PICK all : all = out' \o rest
        OBVIOUS
    <1>6. /\ all \in Seq(EventSet) /\ Len(all) = n + 1 + Len(rest)
          /\ \A i \in 1 .. n + 1 : all[i] = out'[i]
        <2>1. PICK now \in Seq(EventSet) : now = out'
            BY <1>2
        <2>2. /\ all \in Seq(EventSet) /\ Len(all) = Len(now) + Len(rest)
              /\ \A i \in 1 .. Len(now) + Len(rest) :
                    all[i] = IF i <= Len(now) THEN now[i] ELSE rest[i - Len(now)]
            BY <1>5, <2>1, ConcatProperties, Zenon
        <2>3. Len(now) = n + 1 /\ Len(rest) \in Nat
            BY <1>3, <2>1
        <2>4. \A i \in 1 .. n + 1 : i \in 1 .. Len(now) + Len(rest) /\ i <= Len(now)
            BY <2>3
        <2>5. QED
            BY <2>1, <2>2, <2>3, <2>4, Zenon
    <1>7. Legal(all, Strict)
        <2>1. Legal(out' \o pending', Strict')
            BY DEF TalkOK, Told
        <2>2. QED
            BY <1>2, <1>4, <1>5, <2>1, Zenon
    <1>8. n + 1 \in 1 .. Len(all) /\ (n + 1) - 1 = n
        BY <1>6
    <1>9. Follows(SubSeq(all, 1, n), all[n + 1], Strict)
        BY <1>7, <1>8, Zenon DEF Legal
    <1>10. \A i \in 1 .. n : all[i] = out[i] /\ out[i] \in EventSet
        <2>1. \A i \in 1 .. n : i \in 1 .. n + 1 /\ out[i] \in EventSet
            BY <1>1, <1>2
        <2>2. QED
            BY <1>3, <1>6, <2>1, Zenon
    <1>11. SubSeq(all, 1, n) = out
        <2>1. PICK x : x = SubSeq(all, 1, n)
            OBVIOUS
        <2>2. x \in Seq(EventSet) /\ Len(x) = n /\ \A i \in 1 .. n : x[i] = all[i]
            BY <1>6, <2>1
        <2>3. \A i \in 1 .. n : x[i] = out[i]
            BY <1>10, <2>2, Zenon
        <2>4. x = out
            BY <1>1, <1>2, <2>2, <2>3, SeqEqual, Zenon
        <2>5. QED
            BY <2>1, <2>4
    <1>12. all[n + 1] = e
        BY <1>3, <1>6
    <1>13. Follows(out, e, Strict)
        BY <1>9, <1>11, <1>12, Zenon
    <1>14. out' # out
        BY <1>1, <1>3
    <1>15. Client!Last(out') = e
        BY <1>3 DEF Client!Last
    <1>16. Client!Front(out') = out
        <2>1. PICK x : x = SubSeq(out', 1, n)
            OBVIOUS
        <2>2. x \in Seq(EventSet) /\ Len(x) = n /\ \A i \in 1 .. n : x[i] = out'[i]
            BY <1>2, <1>3, <2>1
        <2>3. \A i \in 1 .. n : x[i] = out[i]
            BY <1>3, <2>2, Zenon
        <2>4. x = out
            BY <1>1, <1>2, <2>2, <2>3, SeqEqual, Zenon
        <2>5. Client!Front(out') = SubSeq(out', 1, Len(out') - 1)
            BY DEF Client!Front
        <2>6. Len(out') - 1 = n
            BY <1>3
        <2>7. QED
            BY <2>1, <2>4, <2>5, <2>6
    <1>17. /\ Client!MayFollow(out, e, adapter.family # "parts")
           /\ Client!Has(out, "completed") => e.type = "error"
        BY <1>13, Zenon DEF Follows, Strict
    <1>18. closed' = closed /\ (adapter.family # "parts")' = (adapter.family # "parts")
        OBVIOUS
    <1>19. QED
        BY <1>14, <1>15, <1>16, <1>17, <1>18 DEF Client!Emit

\* A stream ends once; until then a step hands out one event at most.
LEMMA StepsOut ==
    ASSUME StreamOK, StreamOK', Next
    PROVE  /\ adapter' = adapter /\ ~closed
           /\ \/ OneStepOut /\ closed' = closed
              \/ out' = out /\ closed' = TRUE
    <1>1. OpenOK /\ OpenOK'
        BY DEF StreamOK, TalkOK
    <1>2. \A es : Hand(es) => OneStepOut
        BY <1>1, HandsOne
    <1>3. CASE Announce
        <2>1. ~closed /\ out \in Seq(EventSet)
            BY <1>1, <1>3 DEF Announce, OpenOK
        <2>2. PICK type : type \in PlainTypes /\ out' = Append(out, Event(type))
            BY <1>3 DEF Announce, PlainTypes
        <2>3. Event(type) \in EventSet
            BY <2>2, EventsAre
        <2>4. QED
            BY <1>3, <2>1, <2>2, <2>3 DEF Announce, OneStepOut, wire
    <1>4. CASE PopPending
        BY <1>2, <1>4 DEF PopPending, Ready, wire
    <1>5. CASE \E f : TakeLine(f) /\ (out' = out \/ \E es : Hand(es))
        BY <1>2, <1>5 DEF TakeLine, Ready, wire, OneStepOut
    <1>6. CASE HandleChunk
        BY <1>5, <1>6 DEF HandleChunk, ChunkText, ChunkCall
    <1>7. CASE HandleDone
        BY <1>5, <1>7, Zenon DEF HandleDone
    <1>8. CASE HandleBlock
        BY <1>5, <1>8, Zenon DEF HandleBlock, BlockStarts, BlockGrows, Stops
    <1>9. CASE HandleParts
        BY <1>5, <1>9, Zenon DEF HandleParts
    <1>10. CASE Receive
        BY <1>10 DEF Receive, Waits, Ready, wire, OneStepOut
    <1>11. CASE StreamEnds
        BY <1>2, <1>11 DEF StreamEnds, Waits, Ready, wire, OneStepOut
    <1>12. CASE StopsWhenDone
        BY <1>12 DEF StopsWhenDone, Ready, wire
    <1>13. CASE Break
        <2>1. Event("error") \in EventSet
            BY EventsAre DEF PlainTypes
        <2>2. QED
            BY <1>13, <2>1 DEF Break, Waits, Ready, wire, OneStepOut
    <1>14. QED
        BY <1>3, <1>4, <1>6, <1>7, <1>8, <1>9, <1>10, <1>11, <1>12, <1>13
        DEF Next, Poll

\* From every adapter, whatever the provider sends and the network does, the
\* client receives the events in the order of the protocol, nothing but an
\* error after the completion, and a completion that says what the deltas and
\* the argument pieces before it said (stream_chat of each provider).
THEOREM AdaptersImplementEventStream == Spec => ImplementsEventStream
    <1>1. Init => Client!Init
        <2>1. \A x, y : (x # y) \in BOOLEAN
            BY SMT
        <2>2. QED
            BY <2>1, Zenon DEF Init, Client!Init
    <1>2. ASSUME StreamOK, StreamOK', [Next]_vars
          PROVE  [Client!Next]_<<out, closed, adapter.family # "parts">>
        <2>1. CASE UNCHANGED vars
            BY <2>1 DEF vars, wire
        <2>2. CASE Next
            <3>1. TalkOK /\ TalkOK'
                BY <1>2 DEF StreamOK
            <3>2. /\ adapter' = adapter /\ ~closed
                  /\ \/ OneStepOut /\ closed' = closed
                     \/ out' = out /\ closed' = TRUE
                BY <1>2, <2>2, StepsOut
            <3>3. CASE out' = out /\ closed' = TRUE
                BY <3>2, <3>3 DEF Client!Next, Client!Close
            <3>4. CASE out' = out /\ closed' = closed
                BY <3>2, <3>4
            <3>5. CASE closed' = closed /\ \E e \in EventSet : out' = Append(out, e)
                BY <3>1, <3>2, <3>5, EmitsOne DEF Client!Next
            <3>6. QED
                BY <3>2, <3>3, <3>4, <3>5 DEF OneStepOut
        <2>3. QED
            BY <1>2, <2>1, <2>2
    <1>3. QED
        BY <1>1, <1>2, StreamInvariant, PTL DEF Spec, ImplementsEventStream, Client!Spec

-----------------------------------------------------------------------------
(* The text of a script.                                                   *)

SentSoFar(frames, n, h) ==
    h = [f \in 0 .. n |-> IF f = 0 THEN <<>> ELSE h[f - 1] \o TextIn(frames[f], f)]

SentSteps(frames, n, h) ==
    /\ h[0] = <<>>
    /\ \A f \in 1 .. n : h[f] = h[f - 1] \o TextIn(frames[f], f)

LEMMA TextSentIs ==
    ASSUME NEW frames, NEW n \in Nat,
           \A f \in 1 .. n : TextIn(frames[f], f) \in Seq(Fragments)
    PROVE  \E h : SentSteps(frames, n, h) /\ TextSent(frames, n) = h[n]
    <1> DEFINE X == Seq(Fragments)
    <1>1. PICK step \in Steps(X, n) :
              \A f \in 1 .. n : \A x \in X : step[f][x] = x \o TextIn(frames[f], f)
        <2>1. PICK step : step = [f \in 1 .. n |-> [x \in X |-> x \o TextIn(frames[f], f)]]
            OBVIOUS
        <2>2. \A f \in 1 .. n : \A x \in X : x \o TextIn(frames[f], f) \in X
            BY ConcatProperties
        <2> HIDE DEF X
        <2>3. step \in Steps(X, n)
            BY <2>1, <2>2, Zenon DEF Steps
        <2>4. \A f \in 1 .. n : \A x \in X : step[f][x] = x \o TextIn(frames[f], f)
            BY <2>1, Zenon
        <2>5. QED
            BY <2>3, <2>4, Zenon
    <1>2. <<>> \in X
        OBVIOUS
    <1> HIDE DEF X
    <1>3. PICK h : History(X, <<>>, n, step, h)
        BY <1>2, Recursion, Zenon
    <1>4. SentSoFar(frames, n, h)
        <2>1. \A i \in 1 .. n : i - 1 \in 0 .. n
            OBVIOUS
        <2>2. \A i \in 1 .. n : h[i] = h[i - 1] \o TextIn(frames[i], i)
            BY <1>1, <1>3, <2>1, Zenon DEF History
        <2>3. /\ \A i \in 0 .. n : i = 0 \/ i \in 1 .. n
              /\ \A i \in 1 .. n : i # 0
            OBVIOUS
        <2>4. \A i \in 0 .. n :
                 h[i] = IF i = 0 THEN <<>> ELSE h[i - 1] \o TextIn(frames[i], i)
            BY <1>3, <2>2, <2>3, Zenon DEF History
        <2>5. h = [i \in 0 .. n |-> h[i]]
            BY <1>3, Zenon DEF History
        <2>6. QED
            BY <2>4, <2>5, Zenon DEF SentSoFar
    <1> DEFINE chosen == CHOOSE c : SentSoFar(frames, n, c)
    <1>5. SentSoFar(frames, n, chosen)
        BY <1>4
    <1>6. TextSent(frames, n) = chosen[n]
        BY DEF TextSent, SentSoFar
    <1> HIDE DEF chosen
    <1>7. PICK c : SentSoFar(frames, n, c) /\ TextSent(frames, n) = c[n]
        BY <1>5, <1>6
    <1>8. SentSteps(frames, n, c)
        <2>1. 0 \in 0 .. n /\ \A i \in 1 .. n : i \in 0 .. n /\ i # 0
            OBVIOUS
        <2>2. QED
            BY <1>7, <2>1, Zenon DEF SentSoFar, SentSteps
    <1>9. QED
        BY <1>7, <1>8

GoOnAlike(n, g, h) ==
    /\ g[0] = h[0]
    /\ \A i \in 1 .. n : g[i - 1] = h[i - 1] => g[i] = h[i]

LEMMA AlikeHistories ==
    ASSUME NEW n \in Nat, NEW g, NEW h, GoOnAlike(n, g, h)
    PROVE  \A i \in 0 .. n : g[i] = h[i]
    <1>1. /\ g[0] = h[0]
          /\ \A i \in 1 .. n : g[i - 1] = h[i - 1] => g[i] = h[i]
        BY DEF GoOnAlike
    <1>2. QED
        BY <1>1, SameHistory

\* One frame more.
LEMMA SentMore ==
    ASSUME NEW frames, NEW n \in Nat,
           \A f \in 1 .. n + 1 : TextIn(frames[f], f) \in Seq(Fragments)
    PROVE  TextSent(frames, n + 1) = TextSent(frames, n) \o TextIn(frames[n + 1], n + 1)
    <1>1. \A f \in 1 .. n : f \in 1 .. n + 1
        OBVIOUS
    <1>2. PICK g : SentSteps(frames, n, g) /\ TextSent(frames, n) = g[n]
        BY <1>1, TextSentIs
    <1>3. n + 1 \in Nat /\ n + 1 \in 1 .. n + 1 /\ (n + 1) - 1 = n
        OBVIOUS
    <1>4. PICK h : SentSteps(frames, n + 1, h) /\ TextSent(frames, n + 1) = h[n + 1]
        BY <1>3, TextSentIs
    <1>5. g[0] = h[0]
        BY <1>2, <1>4, Zenon DEF SentSteps
    <1>6. \A i \in 0 .. n : g[i] = h[i]
        <2>1. ASSUME NEW i \in 1 .. n PROVE g[i - 1] = h[i - 1] => g[i] = h[i]
            <3>1. g[i] = g[i - 1] \o TextIn(frames[i], i)
                BY <1>2, Zenon DEF SentSteps
            <3>2. h[i] = h[i - 1] \o TextIn(frames[i], i)
                BY <1>1, <1>4, Zenon DEF SentSteps
            <3>3. QED
                BY <3>1, <3>2
        <2>2. GoOnAlike(n, g, h)
            BY <1>5, <2>1, Zenon DEF GoOnAlike
        <2>3. QED
            BY <2>2, AlikeHistories, Zenon
    <1>7. g[n] = h[n]
        BY <1>6
    <1>8. h[n + 1] = h[n] \o TextIn(frames[n + 1], n + 1)
        BY <1>3, <1>4, Zenon DEF SentSteps
    <1>9. QED
        BY <1>2, <1>4, <1>7, <1>8

LEMMA NothingSent ==
    ASSUME NEW frames
    PROVE  TextSent(frames, 0) = <<>>
    <1>1. \A f \in 1 .. 0 : TextIn(frames[f], f) \in Seq(Fragments)
        OBVIOUS
    <1>2. PICK h : SentSteps(frames, 0, h) /\ TextSent(frames, 0) = h[0]
        BY <1>1, TextSentIs
    <1>3. QED
        BY <1>2 DEF SentSteps

\* The text of a chunk's parts, part by part.
TextsSoFar(frame, f, h) ==
    h = [i \in 0 .. Len(frame.parts) |->
            IF i = 0 THEN <<>>
            ELSE IF frame.parts[i] = "text" THEN Append(h[i - 1], <<f, i>>)
            ELSE h[i - 1]]

TextSteps(frame, f, h) ==
    /\ h[0] = <<>>
    /\ \A i \in 1 .. Len(frame.parts) :
          h[i] = IF frame.parts[i] = "text" THEN Append(h[i - 1], <<f, i>>)
                                            ELSE h[i - 1]

LEMMA TextOfParts ==
    ASSUME NEW frame, frame.kind = "parts", Len(frame.parts) \in Nat, NEW f \in Nat
    PROVE  \E h : /\ TextSteps(frame, f, h)
                  /\ \A i \in 0 .. Len(frame.parts) : h[i] \in Seq(Fragments)
                  /\ TextIn(frame, f) = h[Len(frame.parts)]
    <1> DEFINE X == Seq(Fragments)
    <1>0. PICK n \in Nat : n = Len(frame.parts)
        OBVIOUS
    <1>1. PICK step \in Steps(X, n) :
              \A i \in 1 .. n : \A x \in X :
                 step[i][x] = IF frame.parts[i] = "text" THEN Append(x, <<f, i>>) ELSE x
        <2>1. PICK step : step = [i \in 1 .. n |-> [x \in X |->
                              IF frame.parts[i] = "text" THEN Append(x, <<f, i>>) ELSE x]]
            OBVIOUS
        <2>2. \A i \in 1 .. n : <<f, i>> \in Fragments
            BY DEF Fragments
        <2>3. \A i \in 1 .. n : \A x \in X :
                 (IF frame.parts[i] = "text" THEN Append(x, <<f, i>>) ELSE x) \in X
            BY <2>2, AppendProperties
        <2> HIDE DEF X
        <2>4. step \in Steps(X, n)
            BY <2>1, <2>3, Zenon DEF Steps
        <2>5. \A i \in 1 .. n : \A x \in X :
                 step[i][x] = IF frame.parts[i] = "text" THEN Append(x, <<f, i>>) ELSE x
            BY <2>1, Zenon
        <2>6. QED
            BY <2>4, <2>5, Zenon
    <1>2. <<>> \in X
        OBVIOUS
    <1> HIDE DEF X
    <1>3. PICK h : History(X, <<>>, n, step, h)
        BY <1>2, Recursion, Zenon
    <1>4. TextsSoFar(frame, f, h)
        <2>1. \A i \in 1 .. n : i - 1 \in 0 .. n
            OBVIOUS
        <2>2. \A i \in 1 .. n :
                 h[i] = IF frame.parts[i] = "text" THEN Append(h[i - 1], <<f, i>>)
                                                   ELSE h[i - 1]
            <3>1. TAKE i \in 1 .. n
            <3>2. h[i - 1] \in X /\ h[i] = step[i][h[i - 1]]
                BY <1>3, <2>1, Zenon DEF History
            <3>3. QED
                BY <1>1, <3>2, Zenon
        <2>3. /\ \A i \in 0 .. n : i = 0 \/ i \in 1 .. n
              /\ \A i \in 1 .. n : i # 0
            OBVIOUS
        <2>4. \A i \in 0 .. n :
                 h[i] = IF i = 0 THEN <<>>
                        ELSE IF frame.parts[i] = "text" THEN Append(h[i - 1], <<f, i>>)
                        ELSE h[i - 1]
            BY <1>3, <2>2, <2>3, Zenon DEF History
        <2>5. h = [i \in 0 .. n |-> h[i]]
            BY <1>3, Zenon DEF History
        <2>6. QED
            BY <1>0, <2>4, <2>5, Zenon DEF TextsSoFar
    <1> DEFINE chosen == CHOOSE c : TextsSoFar(frame, f, c)
    <1>5. TextsSoFar(frame, f, chosen)
        BY <1>4
    <1>6. TextIn(frame, f) = chosen[Len(frame.parts)]
        <2>1. TextIn(frame, f) = TextOf(frame.parts, f)
            BY DEF TextIn
        <2>2. TextOf(frame.parts, f) = chosen[Len(frame.parts)]
            BY DEF TextOf, TextsSoFar
        <2>3. QED
            BY <2>1, <2>2
    <1> HIDE DEF chosen
    <1>7. PICK c : TextsSoFar(frame, f, c) /\ TextIn(frame, f) = c[Len(frame.parts)]
        BY <1>5, <1>6
    <1>8. TextSteps(frame, f, c)
        <2>1. /\ 0 \in 0 .. Len(frame.parts)
              /\ \A i \in 1 .. Len(frame.parts) : i \in 0 .. Len(frame.parts) /\ i # 0
            OBVIOUS
        <2>2. QED
            BY <1>7, <2>1, Zenon DEF TextsSoFar, TextSteps
    <1> DEFINE A == {i \in Nat : i <= n => c[i] \in X}
    <1>9. 0 \in A
        BY <1>2, <1>8 DEF TextSteps
    <1>10. ASSUME NEW i \in Nat, i \in A PROVE i + 1 \in A
        <2>1. SUFFICES ASSUME i + 1 <= n PROVE c[i + 1] \in X
            OBVIOUS
        <2>2. i <= n /\ i + 1 \in 1 .. n /\ (i + 1) - 1 = i /\ i + 1 \in Nat
            BY <2>1
        <2>3. c[i] \in X
            BY <1>10, <2>2
        <2>4. c[i + 1] = IF frame.parts[i + 1] = "text" THEN Append(c[i], <<f, i + 1>>)
                                                        ELSE c[i]
            BY <1>0, <1>8, <2>2, Zenon DEF TextSteps
        <2>5. PICK piece \in Fragments : piece = <<f, i + 1>>
            BY <2>2 DEF Fragments
        <2>6. Append(c[i], piece) \in X
            BY <2>3, AppendProperties DEF X
        <2>7. QED
            BY <2>3, <2>4, <2>5, <2>6, Zenon
    <1>11. Nat \subseteq A
        <2> HIDE DEF A
        <2> QED BY <1>9, <1>10, EveryNumber
    <1>12. \A i \in 0 .. n : c[i] \in X
        BY <1>11
    <1>13. QED
        BY <1>0, <1>7, <1>8, <1>12, Zenon DEF X

\* The text of the frames of an adapter with a queue.
LEMMA TextOfChunk ==
    ASSUME NEW frame, NEW f \in Nat, IsChunk(frame)
    PROVE  /\ TextIn(frame, f) \in Seq(Fragments)
           /\ frame.kind = "chunk" /\ frame.content => TextIn(frame, f) = <<<<f, 1>>>>
           /\ frame.kind = "chunk" /\ ~frame.content => TextIn(frame, f) = <<>>
           /\ frame.kind = "done" => TextIn(frame, f) = <<>>
    <1>1. PICK piece \in Fragments : piece = <<f, 1>>
        BY DEF Fragments
    <1>2. <<>> \in Seq(Fragments) /\ <<piece>> \in Seq(Fragments)
        OBVIOUS
    <1>3. CASE frame.kind = "chunk" /\ frame.content
        <2>1. TextIn(frame, f) = <<piece>>
            BY <1>1, <1>3 DEF TextIn
        <2>2. QED
            BY <1>1, <1>2, <1>3, <2>1
    <1>4. CASE frame.kind = "chunk" /\ ~frame.content
        <2>1. TextIn(frame, f) = <<>>
            BY <1>4 DEF TextIn
        <2>2. QED
            BY <1>2, <1>4, <2>1
    <1>5. CASE frame.kind = "done"
        <2>1. TextIn(frame, f) = <<>>
            BY <1>5 DEF TextIn
        <2>2. QED
            BY <1>2, <1>5, <2>1
    <1>6. QED
        BY <1>3, <1>4, <1>5 DEF IsChunk

LEMMA TextOfFrame ==
    ASSUME ScriptOK, adapter.queues, NEW f \in 1 .. Len(script)
    PROVE  TextIn(script[f], f) \in Seq(Fragments)
    <1>1. adapter.family = "chunks" \/ adapter.family = "parts"
        BY AdapterIs DEF ScriptOK, Families
    <1>2. f \in Nat
        BY SentLines
    <1>3. PICK frame : frame = script[f]
        OBVIOUS
    <1>4. CASE adapter.family = "chunks"
        BY <1>2, <1>3, <1>4, FrameIs, TextOfChunk
    <1>5. CASE adapter.family = "parts"
        <2>1. IsParts(frame)
            BY <1>3, <1>5, FrameIs
        <2>2. frame.kind = "parts" /\ Len(frame.parts) \in Nat
            BY <2>1 DEF IsParts
        <2>3. PICK h : /\ \A i \in 0 .. Len(frame.parts) : h[i] \in Seq(Fragments)
                       /\ TextIn(frame, f) = h[Len(frame.parts)]
            BY <1>2, <2>2, TextOfParts
        <2>4. Len(frame.parts) \in 0 .. Len(frame.parts)
            BY <2>2
        <2>5. TextIn(frame, f) \in Seq(Fragments)
            BY <2>3, <2>4
        <2>6. QED
            BY <1>3, <2>5
    <1>6. QED
        BY <1>1, <1>4, <1>5

\* A chunk's parts add its text.
LEMMA AddPartsText ==
    ASSUME NEW f \in Nat, IsParts(script[f]), Before \in Adding
    PROVE  AddParts(f).text = text \o TextIn(script[f], f)
    <1>1. PICK frame : frame = script[f]
        OBVIOUS
    <1>2. PICK n \in Nat : n = Len(frame.parts)
        BY <1>1 DEF IsParts
    <1>3. frame.kind = "parts"
        BY <1>1 DEF IsParts
    <1>4. PICK h : /\ TextSteps(frame, f, h)
                   /\ \A i \in 0 .. n : h[i] \in Seq(Fragments)
                   /\ TextIn(frame, f) = h[n]
        BY <1>2, <1>3, TextOfParts
    <1>5. PICK g : PartSteps(f, g) /\ AddParts(f) = g[n]
        BY <1>1, <1>2, AddPartsAre
    <1>6. Before.text = text
        BY DEF Before
    <1>7. text \in Seq(Fragments)
        BY <1>6, AddingIs
    <1> DEFINE A == {i \in Nat : i <= n => g[i] \in Adding /\ g[i].text = text \o h[i]}
    <1>8. 0 \in A
        BY <1>4, <1>5, <1>6, <1>7, ConcatEmptySeq DEF PartSteps, TextSteps
    <1>9. ASSUME NEW i \in Nat, i \in A PROVE i + 1 \in A
        <2>1. SUFFICES ASSUME i + 1 <= n
                       PROVE  g[i + 1] \in Adding /\ g[i + 1].text = text \o h[i + 1]
            OBVIOUS
        <2>2. i \in 0 .. n /\ i + 1 \in 1 .. n /\ (i + 1) - 1 = i /\ i + 1 \in Nat
            BY <2>1
        <2>3. g[i] \in Adding /\ g[i].text = text \o h[i] /\ h[i] \in Seq(Fragments)
            BY <1>4, <1>9, <2>2
        <2>4. g[i + 1] = AddPart(f, g[i], i + 1)
            BY <1>1, <1>2, <1>5, <2>2, Zenon DEF PartSteps
        <2>5. PartAdded(f, g[i], i + 1, g[i + 1])
            BY <2>2, <2>3, <2>4, AddPartIs, Zenon
        <2>6. h[i + 1] = IF frame.parts[i + 1] = "text" THEN Append(h[i], <<f, i + 1>>)
                                                        ELSE h[i]
            BY <1>2, <1>4, <2>2, Zenon DEF TextSteps
        <2>7. PICK piece \in Fragments : piece = <<f, i + 1>>
            BY <2>2 DEF Fragments
        <2>8. CASE frame.parts[i + 1] = "text"
            <3>1. g[i + 1] \in Adding /\ g[i + 1].text = Append(text \o h[i], piece)
                BY <1>1, <2>3, <2>5, <2>7, <2>8, Zenon DEF PartAdded
            <3>2. h[i + 1] = Append(h[i], piece)
                BY <2>6, <2>7, <2>8, Zenon
            <3>3. PICK x \in Seq(Fragments) : x = h[i]
                BY <2>3
            <3>4. /\ text \o (x \o <<piece>>) = Append(text \o x, piece)
                  /\ x \o <<piece>> = Append(x, piece)
                BY <1>7, Concats
            <3>5. QED
                BY <3>1, <3>2, <3>3, <3>4, Zenon
        <2>9. CASE frame.parts[i + 1] # "text"
            BY <1>1, <2>3, <2>5, <2>6, <2>9, Zenon DEF PartAdded
        <2>10. QED
            BY <2>8, <2>9
    <1>10. Nat \subseteq A
        <2> HIDE DEF A
        <2> QED BY <1>8, <1>9, EveryNumber
    <1>11. g[n].text = text \o h[n]
        BY <1>10
    <1>12. QED
        BY <1>1, <1>4, <1>5, <1>11, Zenon

-----------------------------------------------------------------------------
(* What a client has been handed stays there.                              *)

LEMMA HasLeft ==
    ASSUME NEW s \in Seq(EventSet), NEW t \in Seq(EventSet), NEW type,
           Client!Has(s, type)
    PROVE  Client!Has(s \o t, type)
    <1>1. PICK all : all = s \o t
        OBVIOUS
    <1>2. PICK i \in DOMAIN s : s[i].type = type
        BY DEF Client!Has
    <1>3. i \in DOMAIN all /\ all[i] = s[i]
        BY <1>1, <1>2
    <1>4. QED
        BY <1>1, <1>2, <1>3, Zenon DEF Client!Has

LEMMA HasStays ==
    ASSUME StreamOK, StreamOK', [Next]_vars, NEW type, Client!Has(out \o pending, type)
    PROVE  Client!Has(out' \o pending', type)
    <1>1. /\ OpenOK /\ OpenOK' /\ out \in Seq(EventSet) /\ pending \in Seq(EventSet)
          /\ out' \in Seq(EventSet) /\ pending' \in Seq(EventSet)
        BY DEF StreamOK, TalkOK, OpenOK
    <1>2. CASE out' = out /\ pending' = pending
        BY <1>2
    <1>3. CASE Next /\ pending = <<>>
        <2>1. Client!Has(out, type)
            BY <1>1, <1>3, ConcatEmptySeq
        <2>2. OneStepOut
            BY <1>3, StepsOut DEF OneStepOut
        <2>3. Client!Has(out', type)
            BY <1>1, <2>1, <2>2, HasMore, Zenon DEF OneStepOut
        <2>4. PICK s \in Seq(EventSet), t \in Seq(EventSet) : s = out' /\ t = pending'
            BY <1>1
        <2>5. Client!Has(s \o t, type)
            BY <2>3, <2>4, HasLeft, Zenon
        <2>6. QED
            BY <2>4, <2>5
    <1>4. CASE PopPending
        <2>1. Hand(pending) /\ Len(out) >= 2
            BY <1>4 DEF PopPending, Ready
        <2>2. out' \o pending' = out \o pending
            BY <1>1, <2>1, Handed
        <2>3. QED
            BY <2>2
    <1>5. CASE Next /\ pending # <<>> /\ ~PopPending
        <2>1. ~Announce
            BY <1>1, <1>5 DEF Announce, OpenOK
        <2>2. ~\E f : TakeLine(f)
            BY <1>5 DEF TakeLine
        <2>3. StopsWhenDone
            BY <1>5, <2>1, <2>2 DEF Next, Poll, HandleChunk, HandleDone, HandleBlock,
                                    HandleParts, Receive, StreamEnds, Break, Waits
        <2>4. QED
            BY <1>2, <2>3 DEF StopsWhenDone
    <1>6. QED
        BY <1>2, <1>3, <1>4, <1>5 DEF vars

\* What a handler hands out last has been said.
LEMMA LastSaid ==
    ASSUME OpenOK, Len(out) >= 2, pending = <<>>, NEW es \in Seq(EventSet),
           NEW e \in EventSet, Hand(es \o <<e>>)
    PROVE  Client!Has(out' \o pending', e.type)
    <1>1. out \in Seq(EventSet)
        BY DEF OpenOK
    <1>2. /\ out \o (es \o <<e>>) = Append(out \o es, e)
          /\ es \o <<e>> \in Seq(EventSet) /\ out \o es \in Seq(EventSet)
        BY <1>1, Concats
    <1>3. PICK all \in Seq(EventSet) : all = es \o <<e>>
        BY <1>2
    <1>4. out' \o pending' = out \o all
        BY <1>3, Handed
    <1>5. PICK x \in Seq(EventSet) : x = out \o es
        BY <1>2
    <1>6. Client!Has(Append(x, e), e.type)
        BY <1>5, HasMore, Zenon
    <1>7. QED
        BY <1>2, <1>3, <1>4, <1>5, <1>6, Zenon

\* What has been accumulated can be completed.
LEMMA CompletedIs ==
    ASSUME TalkOK, NEW u \in BOOLEAN
    PROVE  Completed(text, calls, u) \in EventSet
    <1>1. Told(out \o pending, item, part, text, calls, Strict)
        BY DEF TalkOK
    <1>2. /\ out \o pending \in Seq(EventSet) /\ text = Client!Shown(out \o pending)
          /\ calls \in CallMaps
        BY <1>1 DEF Told, CallsTold
    <1>3. text \in Seq(Fragments)
        <2>1. Event("error") \in EventSet
            BY EventsAre DEF PlainTypes
        <2>2. QED
            BY <1>2, <2>1, ShownMore
    <1>4. QED
        BY <1>2, <1>3, EventsAre

\* The step that finishes a response says that it is complete.
LEMMA FinishSays ==
    ASSUME StreamOK, Next, ~finished, finished'
    PROVE  Client!Has(out' \o pending', "completed")
    <1>0. WireOK /\ EndOK /\ TalkOK /\ OpenOK /\ usage \in BOOLEAN
        BY DEF StreamOK, TalkOK, EndOK
    <1>1. ASSUME NEW es \in Seq(EventSet), NEW e \in EventSet, e.type = "completed",
                 pending = <<>>, Len(out) >= 2, Hand(es \o <<e>>)
          PROVE  Client!Has(out' \o pending', "completed")
        <2>1. Client!Has(out' \o pending', e.type)
            BY <1>0, <1>1, LastSaid
        <2>2. QED
            BY <1>1, <2>1
    <1>2. ASSUME NEW u \in BOOLEAN, pending = <<>>, Len(out) >= 2,
                 Hand(<<Completed(text, calls, u)>>)
          PROVE  Client!Has(out' \o pending', "completed")
        <2>1. PICK e \in EventSet : e = Completed(text, calls, u)
            BY <1>0, CompletedIs
        <2>2. e.type = "completed"
            BY <2>1 DEF Completed
        <2>3. <<>> \in Seq(EventSet)
            OBVIOUS
        <2>4. PICK es \in Seq(EventSet) : es = <<>>
            BY <2>3
        <2>5. es \o <<e>> = <<e>>
            BY <2>4
        <2>6. Hand(es \o <<e>>)
            BY <1>2, <2>1, <2>5, Zenon
        <2>7. QED
            BY <1>1, <1>2, <2>2, <2>6
    <1>3. CASE HandleDone
        <2>1. PICK f : TakeLine(f)
                       /\ Hand((IF adapter.queues /\ text # <<>>
                                THEN <<Event("text_done")>> ELSE <<>>)
                                 \o <<Completed(text, calls, usage)>>)
            BY <1>3, Zenon DEF HandleDone
        <2>2. PICK e \in EventSet : e = Completed(text, calls, usage)
            BY <1>0, CompletedIs
        <2>3. e.type = "completed"
            BY <2>2 DEF Completed
        <2>4. PICK es : es = IF adapter.queues /\ text # <<>>
                             THEN <<Event("text_done")>> ELSE <<>>
            OBVIOUS
        <2>5. es \in Seq(EventSet)
            <3>1. PICK d \in EventSet : d = Event("text_done")
                BY EventsAre DEF PlainTypes
            <3>2. <<>> \in Seq(EventSet) /\ <<d>> \in Seq(EventSet)
                OBVIOUS
            <3>3. QED
                BY <2>4, <3>1, <3>2, Zenon
        <2>6. Hand(es \o <<e>>) /\ pending = <<>> /\ Len(out) >= 2
            BY <1>0, <2>1, <2>2, <2>4, FrameTaken, Zenon
        <2>7. QED
            BY <1>1, <2>3, <2>5, <2>6
    <1>4. CASE HandleBlock
        <2>1. PICK f : TakeLine(f) /\ Hand(<<Completed(text, calls, TRUE)>>)
            BY <1>4 DEF HandleBlock, Stops, acc
        <2>2. PICK u \in BOOLEAN : u = TRUE
            OBVIOUS
        <2>3. Hand(<<Completed(text, calls, u)>>)
            BY <2>1, <2>2, Zenon
        <2>4. pending = <<>> /\ Len(out) >= 2
            BY <1>0, <2>1, FrameTaken
        <2>5. QED
            BY <1>2, <2>3, <2>4
    <1>5. CASE HandleParts
        <2>1. PICK f : TakeLine(f)
                       /\ finished' = (finished \/ script[f].finish)
                       /\ Hand(AddParts(f).events
                                 \o (IF script[f].finish /\ ~finished
                                     THEN <<Completed(AddParts(f).text,
                                                      AddParts(f).calls, TRUE)>>
                                     ELSE <<>>))
            BY <1>5, Zenon DEF HandleParts
        <2>2. PICK s : s = AddParts(f)
            OBVIOUS
        <2>3. script[f].finish
            BY <2>1
        <2>4. f \in 1 .. Len(script) /\ pending = <<>> /\ Len(out) >= 2
            BY <1>0, <2>1, FrameTaken
        <2>5. f \in Nat
            BY <1>0, <2>4, SentLines DEF WireOK
        <2>6. ~Strict /\ adapter.family = "parts"
            BY <1>5 DEF HandleParts, Strict
        <2>7. Len(script[f].parts) \in Nat
            BY <1>0, <2>4, <2>6, FrameIs DEF WireOK, IsParts
        <2>8. PartsSay(s)
            BY <1>0, <2>2, <2>4, <2>5, <2>6, <2>7, AllPartsSay
        <2>9. s.events \in Seq(EventSet) /\ s.text \in Seq(Fragments) /\ s.calls \in CallMaps
            BY <2>8, AddingIs DEF PartsSay
        <2>10. PICK u \in BOOLEAN : u = TRUE
            OBVIOUS
        <2>11. PICK e \in EventSet : e = Completed(s.text, s.calls, u)
            BY <2>9, EventsAre, Zenon
        <2>12. e.type = "completed"
            BY <2>11 DEF Completed
        <2>13. Hand(s.events \o <<e>>)
            BY <2>1, <2>2, <2>3, <2>10, <2>11, Zenon
        <2>14. PICK es \in Seq(EventSet) : es = s.events
            BY <2>9
        <2>15. Hand(es \o <<e>>)
            BY <2>13, <2>14, Zenon
        <2>16. QED
            BY <1>1, <2>4, <2>12, <2>15
    <1>6. CASE StreamEnds
        <2>1. /\ Hand(<<Completed(text, calls, usage)>>)
              /\ pending = <<>> /\ Len(out) >= 2
            BY <1>6 DEF StreamEnds, Waits, Ready
        <2>2. QED
            BY <1>0, <1>2, <2>1
    <1>7. CASE UNCHANGED finished
        BY <1>7
    <1>8. CASE Announce \/ PopPending \/ Receive \/ StopsWhenDone \/ Break
        BY <1>7, <1>8 DEF Announce, PopPending, Receive, StopsWhenDone, Break, acc
    <1>9. CASE HandleChunk
        BY <1>7, <1>9 DEF HandleChunk
    <1>10. QED
        BY <1>3, <1>4, <1>5, <1>6, <1>8, <1>9 DEF Next, Poll

\* A response that is complete repeats all that was shown.
LEMMA CompletionSays ==
    ASSUME NEW exact, NEW es \in Seq(EventSet), Legal(es, exact),
           NEW i \in DOMAIN es, es[i].type = "completed"
    PROVE  es[i].text = Client!Shown(es)
    <1>1. PICK n \in Nat : n = Len(es)
        OBVIOUS
    <1>2. PICK k \in Nat : k + 1 = i /\ i \in 1 .. n
        <2>1. i \in 1 .. n
            BY <1>1
        <2>2. i - 1 \in Nat /\ (i - 1) + 1 = i
            BY <2>1
        <2>3. QED
            BY <2>1, <2>2
    <1> DEFINE Cut(m) == SubSeq(es, 1, m)
    <1>3. \A m \in 0 .. n : Cut(m) \in Seq(EventSet) /\ Len(Cut(m)) = m
        BY <1>1
    <1>4. \A m \in 1 .. n : es[m] \in EventSet /\ Cut(m) = Append(Cut(m - 1), es[m])
        <2>1. TAKE m \in 1 .. n
        <2>2. es[m] \in EventSet
            BY <1>1
        <2>3. PICK p \in Nat : p = m - 1 /\ p + 1 = m /\ p \in 0 .. n /\ m \in 0 .. n
            <3>1. m - 1 \in Nat /\ (m - 1) + 1 = m /\ m - 1 \in 0 .. n /\ m \in 0 .. n
                OBVIOUS
            <3>2. QED
                BY <3>1
        <2>4. PICK x \in Seq(EventSet), y \in Seq(EventSet) : x = Cut(m) /\ y = Cut(p)
            BY <1>3, <2>3
        <2>5. /\ Len(x) = m /\ \A j \in 1 .. m : x[j] = es[j]
              /\ Len(y) = p /\ \A j \in 1 .. p : y[j] = es[j]
            BY <1>1, <2>3, <2>4
        <2>6. PICK z : z = Append(y, es[m])
            OBVIOUS
        <2>7. /\ z \in Seq(EventSet) /\ Len(z) = p + 1
              /\ \A j \in 1 .. p : z[j] = y[j]
              /\ z[p + 1] = es[m]
            BY <2>2, <2>5, <2>6, AppendProperties
        <2>8. \A j \in 1 .. m : j \in 1 .. p \/ j = p + 1
            BY <2>3
        <2>9. \A j \in 1 .. m : x[j] = z[j]
            BY <2>3, <2>5, <2>7, <2>8, Zenon
        <2>10. x = z
            <3>1. x \in Seq(EventSet) /\ z \in Seq(EventSet) /\ Len(z) = Len(x)
                BY <2>3, <2>4, <2>5, <2>7, Zenon
            <3>2. \A j \in 1 .. Len(x) : x[j] = z[j]
                BY <2>5, <2>9, Zenon
            <3>3. QED
                BY <3>1, <3>2, SeqEqual, Zenon
        <2>11. QED
            BY <2>2, <2>3, <2>4, <2>6, <2>10
    <1>5. \A m \in 1 .. n : Follows(Cut(m - 1), es[m], exact)
        BY <1>1, Zenon DEF Legal
    <1>6. Cut(n) = es
        <2>1. PICK x \in Seq(EventSet) : x = Cut(n) /\ Len(x) = n
            <3>1. n \in 0 .. n
                OBVIOUS
            <3>2. QED
                BY <1>3, <3>1
        <2>2. \A j \in 1 .. n : x[j] = es[j]
            BY <1>1, <2>1
        <2>3. x = es
            BY <1>1, <2>1, <2>2, SeqEqual, Zenon
        <2>4. QED
            BY <2>1, <2>3
    <1> HIDE DEF Cut
    <1> DEFINE Done(m) == /\ Client!Has(Cut(m), "completed")
                          /\ Client!Shown(Cut(m)) = es[i].text
               A == {d \in Nat : i + d <= n => Done(i + d)}
    <1>7. 0 \in A
        <2>1. PICK before \in Seq(EventSet), e \in EventSet :
                  before = Cut(k) /\ e = es[i] /\ Cut(i) = Append(before, e)
            <3>1. k = i - 1 /\ k \in 0 .. n
                BY <1>2
            <3>2. QED
                BY <1>2, <1>3, <1>4, <3>1
        <2>2. Follows(before, e, exact)
            <3>1. k = i - 1
                BY <1>2
            <3>2. QED
                BY <1>2, <1>5, <2>1, <3>1
        <2>3. e.text = Client!Shown(before)
            BY <2>1, <2>2 DEF Follows, Client!MayFollow, Client!Repeats
        <2>4. e.type = "completed" /\ e.type # "delta"
            BY <2>1
        <2>5. Client!Has(Append(before, e), "completed")
            BY <2>4, HasMore, Zenon
        <2>6. Client!Shown(Append(before, e)) = Client!Shown(before)
            BY <2>4, ShownMore, Zenon
        <2>7. Done(i)
            BY <2>1, <2>3, <2>5, <2>6, Zenon
        <2>8. i + 0 = i
            OBVIOUS
        <2> HIDE DEF Done
        <2>9. QED
            BY <2>7, <2>8
    <1>8. ASSUME NEW d \in Nat, d \in A PROVE d + 1 \in A
        <2>1. SUFFICES ASSUME i + (d + 1) <= n PROVE Done(i + (d + 1))
            OBVIOUS
        <2>2. PICK m \in Nat : m = i + d
            BY <1>2
        <2>3. /\ m + 1 = i + (d + 1) /\ m \in 0 .. n /\ m + 1 \in 1 .. n
              /\ (m + 1) - 1 = m /\ i + d <= n
            <3>1. m + 1 = i + (d + 1) /\ i + d <= n
                BY <1>2, <2>1, <2>2
            <3>2. m \in 0 .. n /\ m + 1 \in 1 .. n /\ (m + 1) - 1 = m
                BY <2>1, <3>1
            <3>3. QED
                BY <3>1, <3>2
        <2>4. Done(m)
            BY <1>8, <2>2, <2>3
        <2>5. PICK before \in Seq(EventSet), e \in EventSet :
                  before = Cut(m) /\ e = es[m + 1] /\ Cut(m + 1) = Append(before, e)
            BY <1>3, <1>4, <2>3
        <2>6. Follows(before, e, exact)
            BY <1>5, <2>3, <2>5
        <2>7. Client!Has(before, "completed") /\ Client!Shown(before) = es[i].text
            BY <2>4, <2>5
        <2>8. e.type = "error"
            BY <2>6, <2>7, Zenon DEF Follows
        <2>9. e.type # "delta"
            BY <2>8
        <2>10. Client!Has(Append(before, e), "completed")
            BY <2>7, HasMore, Zenon
        <2>11. Client!Shown(Append(before, e)) = Client!Shown(before)
            BY <2>9, ShownMore, Zenon
        <2>12. Done(m + 1)
            BY <2>5, <2>7, <2>10, <2>11, Zenon
        <2> HIDE DEF Done
        <2>13. QED
            BY <2>3, <2>12
    <1>9. Nat \subseteq A
        <2> HIDE DEF A
        <2> QED BY <1>7, <1>8, EveryNumber
    <1>10. Done(n)
        <2>1. n - i \in Nat /\ i + (n - i) = n
            BY <1>2
        <2>2. n - i \in A
            BY <1>9, <2>1
        <2> HIDE DEF Done
        <2>3. QED
            BY <2>1, <2>2
    <1>11. QED
        BY <1>6, <1>10, Zenon

-----------------------------------------------------------------------------
(* An adapter with a queue.                                                *)

\* The text that was accumulated is the text of the lines that were handled;
\* the stream of an adapter with a queue ends after its last line.
SaidOK ==
    /\ finished => Client!Has(out \o pending, "completed")
    /\ adapter.queues =>
          /\ handled <= Len(script)
          /\ text = TextSent(script, handled)
          /\ closed => pending = <<>> /\ (broken \/ handled = Len(script))

LEMMA FrameAdds ==
    ASSUME StreamOK, SaidOK, adapter.queues, NEW f, TakeLine(f)
    PROVE  /\ handled' <= Len(script)
           /\ text \in Seq(Fragments)
           /\ TextIn(script[f], f) \in Seq(Fragments)
           /\ TextSent(script, handled') = text \o TextIn(script[f], f)
    <1>1. /\ f = handled + 1 /\ f \in 1 .. Len(script) /\ handled' = f
        BY FrameTaken DEF StreamOK
    <1>2. PICK n \in Nat : n = handled /\ Len(script) \in Nat /\ ScriptOK
        BY SentLines DEF StreamOK, WireOK
    <1>3. \A g \in 1 .. Len(script) : TextIn(script[g], g) \in Seq(Fragments)
        BY <1>2, TextOfFrame
    <1>4. f = n + 1 /\ \A g \in 1 .. n + 1 : g \in 1 .. Len(script)
        BY <1>1, <1>2
    <1>5. \A g \in 1 .. n + 1 : TextIn(script[g], g) \in Seq(Fragments)
        BY <1>3, <1>4, Zenon
    <1>6. TextSent(script, n + 1)
            = TextSent(script, n) \o TextIn(script[n + 1], n + 1)
        BY <1>5, SentMore
    <1>7. text = TextSent(script, n)
        BY <1>2 DEF SaidOK
    <1>8. text \in Seq(Fragments)
        <2>1. /\ out \o pending \in Seq(EventSet)
              /\ text = Client!Shown(out \o pending)
            BY DEF StreamOK, TalkOK, Told
        <2>2. Event("error") \in EventSet
            BY EventsAre DEF PlainTypes
        <2>3. QED
            BY <2>1, <2>2, ShownMore
    <1>9. handled' <= Len(script)
        BY <1>1, <1>2
    <1>10. QED
        BY <1>1, <1>3, <1>4, <1>6, <1>7, <1>8, <1>9, Zenon

\* Each handler accumulates the text of its line.
LEMMA HandlerAdds ==
    ASSUME StreamOK, SaidOK, adapter.queues,
           HandleChunk \/ HandleDone \/ HandleBlock \/ HandleParts
    PROVE  handled' <= Len(script) /\ text' = TextSent(script, handled')
    <1>0. WireOK /\ ScriptOK /\ EndOK /\ TalkOK
        BY DEF StreamOK, WireOK
    <1>1. CASE HandleChunk
        <2>1. PICK f :
                /\ TakeLine(f) /\ script[f].kind = "chunk"
                /\ \/ script[f].content /\ ChunkText(f)
                   \/ ~script[f].content /\ UNCHANGED text
            BY <1>1 DEF HandleChunk, ChunkCall
        <2>2. /\ handled' <= Len(script) /\ text \in Seq(Fragments)
              /\ TextSent(script, handled') = text \o TextIn(script[f], f)
            BY <2>1, FrameAdds
        <2>3. f \in 1 .. Len(script) /\ adapter.family = "chunks" /\ f \in Nat
            BY <1>0, <1>1, <2>1, FrameTaken, SentLines DEF HandleChunk
        <2>4. IsChunk(script[f])
            BY <1>0, <2>3, FrameIs
        <2>5. CASE script[f].content /\ ChunkText(f)
            <3>1. text' = Append(text, <<f, 1>>)
                BY <2>5 DEF ChunkText
            <3>2. TextIn(script[f], f) = <<<<f, 1>>>>
                BY <2>1, <2>3, <2>4, <2>5, TextOfChunk
            <3>3. PICK piece \in Fragments : piece = <<f, 1>>
                BY <2>3 DEF Fragments
            <3>4. text \o <<piece>> = Append(text, piece)
                BY <2>2, Concats
            <3>5. QED
                BY <2>2, <3>1, <3>2, <3>3, <3>4, Zenon
        <2>6. CASE ~script[f].content /\ UNCHANGED text
            <3>1. TextIn(script[f], f) = <<>>
                BY <2>1, <2>3, <2>4, <2>6, TextOfChunk
            <3>2. text \o <<>> = text
                BY <2>2, ConcatEmptySeq
            <3>3. QED
                BY <2>2, <2>6, <3>1, <3>2
        <2>7. QED
            BY <2>1, <2>5, <2>6
    <1>2. CASE HandleDone
        <2>1. PICK f : TakeLine(f) /\ script[f].kind = "done"
            BY <1>2, Zenon DEF HandleDone
        <2>2. /\ handled' <= Len(script) /\ text \in Seq(Fragments)
              /\ TextSent(script, handled') = text \o TextIn(script[f], f)
            BY <2>1, FrameAdds
        <2>3. f \in Nat
            BY <1>0, <2>1, FrameTaken, SentLines
        <2>4. TextIn(script[f], f) = <<>>
            BY <2>1, <2>3, TextOfChunk DEF IsChunk
        <2>5. text \o <<>> = text
            BY <2>2, ConcatEmptySeq
        <2>6. text' = text
            BY <1>2 DEF HandleDone
        <2>7. QED
            BY <2>2, <2>4, <2>5, <2>6
    <1>3. CASE HandleBlock
        BY <1>0, <1>3, AdapterIs DEF HandleBlock, ScriptOK
    <1>4. CASE HandleParts
        <2>1. PICK f : TakeLine(f) /\ text' = AddParts(f).text
            BY <1>4, Zenon DEF HandleParts
        <2>2. /\ handled' <= Len(script)
              /\ TextSent(script, handled') = text \o TextIn(script[f], f)
            BY <2>1, FrameAdds
        <2>3. /\ f \in 1 .. Len(script) /\ adapter.family = "parts" /\ f \in Nat
              /\ pending = <<>> /\ Len(out) >= 2
            BY <1>0, <1>4, <2>1, FrameTaken, SentLines DEF HandleParts
        <2>4. IsParts(script[f])
            BY <1>0, <2>3, FrameIs
        <2>5. Before \in Adding
            BY <1>0, BeforeIs
        <2>6. AddParts(f).text = text \o TextIn(script[f], f)
            BY <2>3, <2>4, <2>5, AddPartsText
        <2>7. QED
            BY <2>1, <2>2, <2>6
    <1>5. QED
        BY <1>1, <1>2, <1>3, <1>4

LEMMA InitSays ==
    ASSUME Init
    PROVE  SaidOK
    <1>1. /\ finished = FALSE /\ handled = 0 /\ text = <<>> /\ closed = FALSE
          /\ Len(script) \in Nat
        BY InitScript, SentLines DEF Init
    <1>2. TextSent(script, 0) = <<>>
        BY NothingSent
    <1>3. 0 <= Len(script)
        BY <1>1
    <1>4. QED
        BY <1>1, <1>2, <1>3 DEF SaidOK

LEMMA NextSays ==
    ASSUME StreamOK, StreamOK', SaidOK, [Next]_vars
    PROVE  SaidOK'
    <1>1. adapter' = adapter /\ script' = script
        BY Zenon DEF Next, Poll, Announce, PopPending, HandleChunk, HandleDone, HandleBlock,
              HandleParts, TakeLine, Receive, StreamEnds, StopsWhenDone, Break, wire,
              vars
    <1>2. finished' => Client!Has(out' \o pending', "completed")
        <2>1. CASE finished
            <3>1. Client!Has(out \o pending, "completed")
                BY <2>1 DEF SaidOK
            <3>2. QED
                BY <3>1, HasStays
        <2>2. CASE ~finished /\ Next
            BY <2>2, FinishSays
        <2>3. CASE ~finished /\ UNCHANGED vars
            BY <2>3 DEF vars
        <2>4. QED
            BY <2>1, <2>2, <2>3
    <1>3. ASSUME adapter.queues
          PROVE  handled' <= Len(script) /\ text' = TextSent(script, handled')
        <2>1. CASE HandleChunk \/ HandleDone \/ HandleBlock \/ HandleParts
            BY <1>3, <2>1, HandlerAdds
        <2>2. CASE UNCHANGED <<handled, text>>
            BY <1>3, <2>2 DEF SaidOK
        <2>3. QED
            BY <2>1, <2>2 DEF Next, Poll, Announce, PopPending, Receive, StreamEnds,
                              StopsWhenDone, Break, acc, vars
    <1>4. ASSUME adapter.queues, closed'
          PROVE  pending' = <<>> /\ (broken' \/ handled' = Len(script))
        <2>1. CASE UNCHANGED vars
            BY <1>4, <2>1 DEF vars, SaidOK
        <2>2. CASE Next
            <3>1. ~closed
                BY <2>2, StepsOut
            <3>2. ~adapter.sdk
                BY <1>4, AdapterIs DEF StreamOK, WireOK, ScriptOK, Families
            <3>3. closed' = TRUE
                BY <1>4, <2>2, <3>1, StepsOut
            <3>4. StreamEnds
                BY <2>2, <3>1, <3>2, <3>3
                DEF Next, Poll, Announce, PopPending, HandleChunk, HandleDone,
                    HandleBlock, HandleParts, TakeLine, Receive, StopsWhenDone, Break
            <3>5. /\ pending = <<>> /\ LineEnd = 0 /\ (broken \/ got = Len(Sent))
                  /\ UNCHANGED <<broken, handled, pending>>
                BY <3>1, <3>3, <3>4 DEF StreamEnds, Waits
            <3>6. got = Len(Sent) => handled = Len(script)
                BY <3>5, NoFrameLeft DEF StreamOK
            <3>7. QED
                BY <3>5, <3>6
        <2>3. QED
            BY <2>1, <2>2
    <1>5. QED
        BY <1>1, <1>2, <1>3, <1>4 DEF SaidOK

LEMMA SaidInvariant == Spec => [](StreamOK /\ SaidOK)
    <1>1. Init => StreamOK /\ SaidOK
        BY InitWire, InitEnd, InitTalks, InitSays DEF StreamOK
    <1>2. StreamOK /\ [Next]_vars => StreamOK'
        BY NextKeepsWire, NextKeepsEnd, NextTalks DEF StreamOK
    <1>3. StreamOK /\ SaidOK /\ [Next]_vars => (StreamOK /\ SaidOK)'
        BY <1>2, NextSays
    <1>4. QED
        BY <1>1, <1>3, PTL DEF Spec

\* Whatever the network cuts and whenever the lines come, an adapter with a
\* queue leaves no text out of the stored response, neither the text that
\* came with the announcements nor the text that came with the finish reason
\* (together.rs, fireworks.rs, gemini.rs).
THEOREM NoTextLost == Spec => []QueuesLoseNoText
    <1>1. StreamOK /\ SaidOK => QueuesLoseNoText
        <2>1. SUFFICES ASSUME StreamOK, SaidOK, adapter.queues, closed, finished, ~broken
                       PROVE  Completion = TextSent(script, Len(script))
            BY Zenon DEF QueuesLoseNoText
        <2>2. pending = <<>> /\ handled = Len(script) /\ text = TextSent(script, handled)
            BY <2>1 DEF SaidOK
        <2>3. out \in Seq(EventSet) /\ out \o pending = out
            BY <2>1, <2>2, ConcatEmptySeq DEF StreamOK, TalkOK, OpenOK
        <2>4. Client!Has(out, "completed") /\ Told(out, item, part, text, calls, Strict)
            BY <2>1, <2>3, Zenon DEF SaidOK, StreamOK, TalkOK
        <2>5. PICK i : /\ i = CHOOSE j \in DOMAIN out : out[j].type = "completed"
                       /\ i \in DOMAIN out /\ out[i].type = "completed"
            BY <2>4, Zenon DEF Client!Has
        <2>6. Completion = out[i].text
            BY <2>5, Zenon DEF Completion
        <2>7. Legal(out, Strict) /\ text = Client!Shown(out)
            BY <2>4, Zenon DEF Told
        <2>8. out[i].text = Client!Shown(out)
            BY <2>3, <2>5, <2>7, CompletionSays, Zenon
        <2>9. QED
            BY <2>2, <2>6, <2>7, <2>8, Zenon
    <1>2. QED
        BY <1>1, SaidInvariant, PTL
=============================================================================

------------------------ MODULE MessageDecodingProofs -----------------------
(* What is exposed is what the device said, for any messages: the decoder   *)
(* merges header by header and MessageHandler message by message, and       *)
(* merging one more part is what LastOf does with it (LastOfNext).  The     *)
(* invariant says for every step how far the state, the metrics and the     *)
(* telemetry have got.  A name is followed rune by rune (RuneKeepsWords),   *)
(* and that of a pack up to its last digit (PackPrefix).                    *)
EXTENDS MessageDecoding, FiniteSetTheorems, SequenceTheorems,
        WellFoundedInduction, TLAPS

-----------------------------------------------------------------------------
(* Parts and parameters                                                    *)

\* The maximum of a set of numbers is the one that is not below any other.
LEMMA MaxIs ==
    ASSUME NEW S \in SUBSET Int, NEW m \in S, \A i \in S : m >= i
    PROVE  Max(S) = m
<1>1. Max(S) \in S /\ \A i \in S : Max(S) >= i
  BY Zenon DEF Max
<1>2. Max(S) \in Int /\ m \in Int /\ Max(S) >= m /\ m >= Max(S)
  BY <1>1
<1> QED
  BY <1>2

\* A set of natural numbers with a bound has a maximum: there is a least distance
\* to the bound.
LEMMA MaxExists ==
    ASSUME NEW b \in Nat, NEW S \in SUBSET (0 .. b), S # {}
    PROVE  Max(S) \in S /\ \A i \in S : Max(S) >= i
<1> DEFINE Less == {ss \in Nat \X Nat : ss[1] < ss[2]}
           Distances == {b - i : i \in S}
<1>1. IsWellFoundedOn(Less, Nat)
  BY NatLessThanWellFounded, Zenon DEF OpToRel
<1>2. Distances \subseteq Nat /\ Distances # {}
  <2>1. \A i \in S : b - i \in Nat
    OBVIOUS
  <2>2. \E i \in S : b - i \in Distances
    OBVIOUS
  <2> QED
    BY <2>1, <2>2
<1>3. PICK x \in Distances : \A y \in Distances : <<y, x>> \notin Less
  <2> HIDE DEF Less, Distances
  <2> QED
    BY <1>1, <1>2, WFMin, Zenon
<1>4. PICK m \in S : x = b - m
  OBVIOUS
<1>5. \A i \in S : m >= i
  <2> TAKE i \in S
  <2>1. <<b - i, x>> \notin Less
    BY <1>3
  <2>2. ~(b - i < x)
    BY <1>2, <2>1
  <2> QED
    BY <1>4, <2>2
<1> QED
  BY <1>5, MaxIs

\* LastOf yields parameters by name.
LEMMA LastOfIsFunction ==
    ASSUME NEW parts
    PROVE  /\ DOMAIN LastOf(parts) = UNION {DOMAIN parts[i] : i \in DOMAIN parts}
           /\ LastOf(parts) = [p \in DOMAIN LastOf(parts) |-> LastOf(parts)[p]]
  BY Zenon DEF LastOf

\* A part that comes after all others is merged into them.
LEMMA LastOfNext ==
    ASSUME NEW j \in Nat, NEW S \in SUBSET (0 .. j - 1), NEW f, NEW g,
           DOMAIN f = S, DOMAIN g = S \union {j}, \A i \in S : g[i] = f[i]
    PROVE  LastOf(g) = MergeParams(LastOf(f), g[j])
<1> DEFINE With(h, p) == {i \in DOMAIN h : p \in DOMAIN h[i]}
<1>1. DOMAIN LastOf(g) = DOMAIN LastOf(f) \union DOMAIN g[j]
  <2>1. DOMAIN LastOf(g) = UNION {DOMAIN g[i] : i \in S \union {j}}
    BY LastOfIsFunction
  <2>2. DOMAIN LastOf(f) = UNION {DOMAIN f[i] : i \in S}
    BY LastOfIsFunction
  <2>3. UNION {DOMAIN f[i] : i \in S} = UNION {DOMAIN g[i] : i \in S}
    OBVIOUS
  <2> QED
    BY <2>1, <2>2, <2>3
<1>2. ASSUME NEW p \in DOMAIN g[j]
      PROVE  LastOf(g)[p] = g[j][p]
  <2>1. Max(With(g, p)) = j
    BY MaxIs
  <2>2. p \in DOMAIN LastOf(g)
    BY <1>1
  <2>3. LastOf(g)[p] = g[Max(With(g, p))][p]
    BY <2>2, LastOfIsFunction, Zenon DEF LastOf
  <2> QED
    BY <2>1, <2>3
<1>3. ASSUME NEW p \in DOMAIN LastOf(f), p \notin DOMAIN g[j]
      PROVE  LastOf(g)[p] = LastOf(f)[p]
  <2>1. With(g, p) = With(f, p)
    BY <1>3
  <2>2. p \in UNION {DOMAIN f[i] : i \in DOMAIN f}
    BY LastOfIsFunction, Zenon
  <2>5. Max(With(f, p)) \in With(f, p)
    <3>1. With(f, p) \in SUBSET (0 .. j) /\ With(f, p) # {}
      BY <2>2
    <3> QED
      BY <3>1, MaxExists
  <2>3. LastOf(g)[p] = g[Max(With(g, p))][p]
    BY <1>1, LastOfIsFunction, Zenon DEF LastOf
  <2>4. LastOf(f)[p] = f[Max(With(f, p))][p]
    BY LastOfIsFunction, Zenon DEF LastOf
  <2> QED
    BY <2>1, <2>3, <2>4, <2>5
<1> QED
  BY <1>1, <1>2, <1>3, LastOfIsFunction DEF MergeParams

\* Nothing is the last of no parts.
LEMMA LastOfNothing == ASSUME NEW f, DOMAIN f = {} PROVE LastOf(f) = NoParams
<1>1. DOMAIN LastOf(f) = {}
  BY LastOfIsFunction
<1>2. DOMAIN NoParams = {} /\ NoParams = [p \in DOMAIN NoParams |-> NoParams[p]]
  BY Zenon DEF NoParams, AsParams, NamedFields
<1> QED
  BY <1>1, <1>2, LastOfIsFunction

\* The value of a parameter is that of the last part that has it.
LEMMA LastOfAt ==
    ASSUME NEW b \in Nat, NEW f, DOMAIN f \in SUBSET (0 .. b), NEW p \in DOMAIN LastOf(f)
    PROVE  \E j \in DOMAIN f : /\ p \in DOMAIN f[j] /\ LastOf(f)[p] = f[j][p]
                               /\ \A i \in DOMAIN f : p \in DOMAIN f[i] => i <= j
<1> DEFINE With == {i \in DOMAIN f : p \in DOMAIN f[i]}
<1>1. With \in SUBSET (0 .. b) /\ With # {}
  <2>1. p \in UNION {DOMAIN f[i] : i \in DOMAIN f}
    BY LastOfIsFunction, Zenon
  <2> QED
    BY <2>1
<1>2. Max(With) \in With /\ \A i \in With : Max(With) >= i
  <2> HIDE DEF With
  <2> QED
    BY <1>1, MaxExists
<1>3. LastOf(f)[p] = f[Max(With)][p]
  BY LastOfIsFunction, Zenon DEF LastOf
<1> QED
  BY <1>1, <1>2, <1>3

\* The last of parts that are parameters are parameters.
LEMMA LastOfIsParams ==
    ASSUME NEW b \in Nat, NEW f, DOMAIN f \subseteq 0 .. b,
           \A i \in DOMAIN f : IsParams(f[i])
    PROVE  IsParams(LastOf(f))
<1> SUFFICES ASSUME NEW p \in DOMAIN LastOf(f)
             PROVE  IsName(p) /\ LastOf(f)[p].kind \in {"number", "bool", "other"}
  BY LastOfIsFunction DEF IsParams
<1> DEFINE With == {i \in DOMAIN f : p \in DOMAIN f[i]}
<1>1. With # {}
  <2>1. p \in UNION {DOMAIN f[i] : i \in DOMAIN f}
    BY LastOfIsFunction, Zenon
  <2> QED
    BY <2>1
<1>2. Max(With) \in With
  <2>1. With \in SUBSET (0 .. b)
    OBVIOUS
  <2> QED
    BY <1>1, <2>1, MaxExists
<1>3. LastOf(f)[p] = f[Max(With)][p]
  BY LastOfIsFunction, Zenon DEF LastOf
<1> QED
  BY <1>2, <1>3 DEF IsParams

\* Nothing is merged without a trace.
LEMMA MergeNothing ==
    ASSUME NEW ps, ps = [p \in DOMAIN ps |-> ps[p]]
    PROVE  MergeParams(ps, NoParams) = ps
<1>1. DOMAIN NoParams = {}
  BY Zenon DEF NoParams, AsParams, NamedFields
<1> QED
  BY <1>1 DEF MergeParams

\* A set of numbers that has zero and every successor has all of them.
LEMMA AllNumbers ==
    ASSUME NEW S \in SUBSET Nat, 0 \in S, \A n \in S : n + 1 \in S
    PROVE  S = Nat
<1> DEFINE Less == {ss \in Nat \X Nat : ss[1] < ss[2]}
           Missing == Nat \ S
<1> SUFFICES ASSUME Missing # {} PROVE FALSE
  OBVIOUS
<1>1. IsWellFoundedOn(Less, Nat)
  BY NatLessThanWellFounded, Zenon DEF OpToRel
<1>2. PICK x \in Missing : \A y \in Missing : <<y, x>> \notin Less
  <2>1. Missing \subseteq Nat
    OBVIOUS
  <2> HIDE DEF Less, Missing
  <2> QED
    BY <1>1, <2>1, WFMin, Zenon
<1>3. x \in Nat /\ x # 0
  OBVIOUS
<1>4. x - 1 \in Nat /\ <<x - 1, x>> \in Less
  BY <1>3
<1>5. x - 1 \in S
  BY <1>2, <1>4
<1>6. (x - 1) + 1 \in S
  BY <1>5
<1> QED
  BY <1>2, <1>3, <1>6

-----------------------------------------------------------------------------
(* Metric names                                                            *)

\* What is written of the first runes.
IsWritten(w, s, b) ==
    w = [i \in 0 .. b |-> IF i = 0 THEN <<>> ELSE w[i - 1] \o Converted(s, i)]

\* The conversion of a name is well defined.
LEMMA WrittenExists == ASSUME NEW s, NEW b \in Nat PROVE \E w : IsWritten(w, s, b)
<1> DEFINE S == {n \in Nat : \E w : IsWritten(w, s, n)}
<1>1. 0 \in S
  <2>1. IsWritten([i \in 0 .. 0 |-> <<>>], s, 0)
    BY DEF IsWritten
  <2> QED
    BY <2>1
<1>2. ASSUME NEW n \in S PROVE n + 1 \in S
  <2>1. n \in Nat
    OBVIOUS
  <2>2. PICK w : IsWritten(w, s, n)
    OBVIOUS
  <2> DEFINE v == [k \in 0 .. n + 1 |-> IF k = n + 1 THEN w[n] \o Converted(s, k) ELSE w[k]]
  <2>3. ASSUME NEW i \in 0 .. n + 1
        PROVE  v[i] = IF i = 0 THEN <<>> ELSE v[i - 1] \o Converted(s, i)
    <3>1. CASE i = n + 1
      <4>1. v[n + 1] = w[n] \o Converted(s, n + 1)
        <5>1. n + 1 \in 0 .. n + 1
          BY <2>1
        <5> QED
          BY <5>1, Zenon
      <4>2. v[n] = w[n] /\ i # 0 /\ i - 1 = n
        BY <2>1, <3>1
      <4> QED
        BY <3>1, <4>1, <4>2
    <3>2. CASE i # n + 1
      <4>1. i \in 0 .. n /\ v[i] = w[i] /\ (i # 0 => v[i - 1] = w[i - 1])
        BY <2>1, <3>2
      <4>2. w[i] = IF i = 0 THEN <<>> ELSE w[i - 1] \o Converted(s, i)
        BY <2>2, <4>1 DEF IsWritten
      <4> QED
        BY <4>1, <4>2
    <3> QED
      BY <3>1, <3>2
  <2>4. IsWritten(v, s, n + 1)
    BY <2>3 DEF IsWritten
  <2> QED
    BY <2>1, <2>4
<1> QED
  BY <1>1, <1>2, AllNumbers

\* It writes what it writes of every rune, one after another.
LEMMA MetricNameIs ==
    ASSUME NEW s, Len(s) \in Nat
    PROVE  \E w : IsWritten(w, s, Len(s)) /\ MetricName(s) = w[Len(s)]
<1> DEFINE w == CHOOSE f : f = [i \in 0 .. Len(s) |->
                               IF i = 0 THEN <<>> ELSE f[i - 1] \o Converted(s, i)]
<1>1. MetricName(s) = w[Len(s)]
  BY Zenon DEF MetricName
<1>2. IsWritten(w, s, Len(s))
  BY WrittenExists, Zenon DEF IsWritten
<1> QED
  BY <1>1, <1>2

-----------------------------------------------------------------------------
(* Words                                                                   *)

\* Ranks go up to the number of letters.
LEMMA RanksCount ==
    ASSUME NEW S, NEW s \in Seq(S)
    PROVE  /\ IsFiniteSet(Letters(s)) /\ Cardinality(Letters(s)) \in Nat
           /\ \A i \in Letters(s) : Rank(s, i) \in 0 .. Cardinality(Letters(s))
<1>1. Len(s) \in Nat /\ DOMAIN s = 1 .. Len(s)
  BY LenProperties
<1>2. IsFiniteSet(Letters(s))
  <2>1. IsFiniteSet(1 .. Len(s))
    BY <1>1, FS_Interval
  <2> QED
    BY <1>1, <2>1, FS_Subset DEF Letters
<1>3. ASSUME NEW i \in Letters(s) PROVE Rank(s, i) \in 0 .. Cardinality(Letters(s))
  <2> DEFINE below == {j \in Letters(s) : j <= i}
  <2>1. /\ IsFiniteSet(below) /\ Cardinality(below) <= Cardinality(Letters(s))
        /\ Cardinality(below) \in Nat /\ Cardinality(Letters(s)) \in Nat
    BY <1>2, FS_Subset, FS_CardinalityType
  <2> QED
    BY <2>1 DEF Rank
<1> QED
  BY <1>2, <1>3, FS_CardinalityType

\* t has the runes of s and the letter r after them.
AddsLetter(t, s, r) ==
    LET n == Len(s) + 1
    IN /\ Letters(t) = Letters(s) \union {n} /\ n \notin Letters(s)
       /\ Cardinality(Letters(t)) = Cardinality(Letters(s)) + 1
       /\ Rank(t, n) = Cardinality(Letters(s)) + 1
       /\ Begins(t, n) <=> IsUpper(r) \/ Len(s) = 0 \/ ~IsLetter(s[Len(s)])
       /\ t[n] = r
       /\ \A i \in Letters(s) : /\ Rank(t, i) = Rank(s, i) /\ t[i] = s[i]
                                /\ Begins(t, i) <=> Begins(s, i)

\* A letter more comes last and leaves the others as they are.
LEMMA LetterAdded ==
    ASSUME NEW S, NEW s \in Seq(S), NEW r \in S, IsLetter(r)
    PROVE  AddsLetter(Append(s, r), s, r)
<1> DEFINE t == Append(s, r)
           n == Len(s) + 1
<1>1. /\ Len(s) \in Nat /\ DOMAIN s = 1 .. Len(s) /\ DOMAIN t = 1 .. n
      /\ t[n] = r /\ \A i \in 1 .. Len(s) : t[i] = s[i]
  BY LenProperties, AppendProperties
<1> HIDE DEF t
<1>2. Letters(t) = Letters(s) \union {n} /\ n \notin Letters(s)
  BY <1>1 DEF Letters
<1>3. IsFiniteSet(Letters(s)) /\ Cardinality(Letters(s)) \in Nat
  BY RanksCount
<1>4. Cardinality(Letters(t)) = Cardinality(Letters(s)) + 1
  BY <1>2, <1>3, FS_AddElement
<1>5. Rank(t, n) = Cardinality(Letters(s)) + 1
  <2>1. {j \in Letters(t) : j <= n} = Letters(t)
    BY <1>1, <1>2 DEF Letters
  <2> QED
    BY <1>4, <2>1 DEF Rank
<1>6. Begins(t, n) <=> IsUpper(r) \/ Len(s) = 0 \/ ~IsLetter(s[Len(s)])
  <2>1. Len(s) # 0 => t[n - 1] = s[Len(s)]
    BY <1>1
  <2> QED
    BY <1>1, <2>1 DEF Begins
<1>7. ASSUME NEW i \in Letters(s)
      PROVE  Rank(t, i) = Rank(s, i) /\ t[i] = s[i] /\ (Begins(t, i) <=> Begins(s, i))
  <2>1. i \in 1 .. Len(s)
    BY <1>1 DEF Letters
  <2>2. {j \in Letters(t) : j <= i} = {j \in Letters(s) : j <= i}
    BY <1>1, <1>2, <2>1
  <2>3. t[i] = s[i] /\ (i # 1 => t[i - 1] = s[i - 1])
    BY <1>1, <2>1
  <2> QED
    BY <2>2, <2>3 DEF Rank, Begins
<1>9. AddsLetter(t, s, r)
  BY <1>1, <1>2, <1>4, <1>5, <1>6, <1>7, Zenon DEF AddsLetter
<1> QED
  BY <1>9, Zenon DEF t

\* Any other rune changes nothing.
LEMMA OtherAdded ==
    ASSUME NEW S, NEW s \in Seq(S), NEW r \in S, ~IsLetter(r)
    PROVE  LET t == Append(s, r)
           IN /\ Letters(t) = Letters(s)
              /\ \A i \in Letters(s) : /\ Rank(t, i) = Rank(s, i) /\ t[i] = s[i]
                                       /\ Begins(t, i) <=> Begins(s, i)
<1> DEFINE t == Append(s, r)
<1>1. /\ Len(s) \in Nat /\ DOMAIN s = 1 .. Len(s) /\ DOMAIN t = 1 .. Len(s) + 1
      /\ t[Len(s) + 1] = r /\ \A i \in 1 .. Len(s) : t[i] = s[i]
  BY LenProperties, AppendProperties
<1> HIDE DEF t
<1>2. Letters(t) = Letters(s)
  BY <1>1 DEF Letters
<1>3. ASSUME NEW i \in Letters(s)
      PROVE  Rank(t, i) = Rank(s, i) /\ t[i] = s[i] /\ (Begins(t, i) <=> Begins(s, i))
  <2>1. i \in 1 .. Len(s)
    BY <1>1 DEF Letters
  <2>2. t[i] = s[i] /\ (i # 1 => t[i - 1] = s[i - 1])
    BY <1>1, <2>1
  <2> QED
    BY <1>2, <2>2 DEF Rank, Begins
<1> QED
  BY <1>2, <1>3 DEF t

\* Both get the same letter, and both begin a word with it or neither does.
LEMMA SameLetter ==
    ASSUME NEW S, NEW s \in Seq(S), NEW r \in S, IsLetter(r),
           NEW T, NEW t \in Seq(T), NEW q \in T, IsLetter(q),
           SameWords(s, t), ToLower(r) = ToLower(q),
           (IsUpper(r) \/ Len(s) = 0 \/ ~IsLetter(s[Len(s)]))
               <=> (IsUpper(q) \/ Len(t) = 0 \/ ~IsLetter(t[Len(t)]))
    PROVE  SameWords(Append(s, r), Append(t, q))
<1> DEFINE a == Append(s, r)
           b == Append(t, q)
           m == Len(s) + 1
           n == Len(t) + 1
<1>5. AddsLetter(a, s, r) /\ AddsLetter(b, t, q)
  BY LetterAdded, Zenon
<1> HIDE DEF a, b
<1>1. /\ Letters(a) = Letters(s) \union {m}
      /\ Cardinality(Letters(a)) = Cardinality(Letters(s)) + 1
      /\ Rank(a, m) = Cardinality(Letters(s)) + 1
      /\ Begins(a, m) <=> IsUpper(r) \/ Len(s) = 0 \/ ~IsLetter(s[Len(s)])
      /\ a[m] = r
      /\ \A i \in Letters(s) : /\ Rank(a, i) = Rank(s, i) /\ a[i] = s[i]
                               /\ Begins(a, i) <=> Begins(s, i)
  BY <1>5, Zenon DEF AddsLetter
<1>2. /\ Letters(b) = Letters(t) \union {n}
      /\ Cardinality(Letters(b)) = Cardinality(Letters(t)) + 1
      /\ Rank(b, n) = Cardinality(Letters(t)) + 1
      /\ Begins(b, n) <=> IsUpper(q) \/ Len(t) = 0 \/ ~IsLetter(t[Len(t)])
      /\ b[n] = q
      /\ \A i \in Letters(t) : /\ Rank(b, i) = Rank(t, i) /\ b[i] = t[i]
                               /\ Begins(b, i) <=> Begins(t, i)
  BY <1>5, Zenon DEF AddsLetter
<1>3. /\ Cardinality(Letters(s)) = Cardinality(Letters(t)) /\ Cardinality(Letters(s)) \in Nat
      /\ \A i \in Letters(s), j \in Letters(t) :
            Rank(s, i) = Rank(t, j) =>
                ToLower(s[i]) = ToLower(t[j]) /\ (Begins(s, i) <=> Begins(t, j))
      /\ \A i \in Letters(s) : Rank(s, i) \in 0 .. Cardinality(Letters(s))
      /\ \A i \in Letters(t) : Rank(t, i) \in 0 .. Cardinality(Letters(s))
  BY RanksCount DEF SameWords
<1> HIDE DEF m, n
<1>4. ASSUME NEW i \in Letters(a), NEW j \in Letters(b), Rank(a, i) = Rank(b, j)
      PROVE  ToLower(a[i]) = ToLower(b[j]) /\ (Begins(a, i) <=> Begins(b, j))
  <2>1. CASE i \in Letters(s) /\ j \in Letters(t)
    BY <1>1, <1>2, <1>3, <1>4, <2>1
  <2>2. CASE i = m /\ j = n
    BY <1>1, <1>2, <2>2
  <2>3. CASE i \in Letters(s) /\ j = n
    <3>1. Rank(s, i) = Cardinality(Letters(s)) + 1
      BY <1>1, <1>2, <1>3, <1>4, <2>3
    <3> QED
      BY <1>3, <2>3, <3>1
  <2>4. CASE i = m /\ j \in Letters(t)
    <3>1. Rank(t, j) = Cardinality(Letters(s)) + 1
      BY <1>1, <1>2, <1>3, <1>4, <2>4
    <3> QED
      BY <1>3, <2>4, <3>1
  <2> QED
    BY <1>1, <1>2, <2>1, <2>2, <2>3, <2>4
<1> QED
  BY <1>1, <1>2, <1>3, <1>4 DEF SameWords, a, b

\* One of them gets a rune that is no letter.
LEMMA SameWithOther ==
    ASSUME NEW S, NEW s \in Seq(S), NEW r \in S, ~IsLetter(r), NEW t
    PROVE  /\ SameWords(s, t) => SameWords(Append(s, r), t)
           /\ SameWords(t, s) => SameWords(t, Append(s, r))
<1> DEFINE a == Append(s, r)
<1>1. /\ Letters(a) = Letters(s)
      /\ \A i \in Letters(s) : /\ Rank(a, i) = Rank(s, i) /\ a[i] = s[i]
                               /\ Begins(a, i) <=> Begins(s, i)
  BY OtherAdded
<1> HIDE DEF a
<1>2. SameWords(s, t) => SameWords(a, t)
  BY <1>1 DEF SameWords
<1>3. SameWords(t, s) => SameWords(t, a)
  BY <1>1 DEF SameWords
<1> QED
  BY <1>2, <1>3 DEF a

\* Writing a rune is appending it.
LEMMA Appended ==
    ASSUME NEW S, NEW w \in Seq(S), NEW x \in S
    PROVE  /\ w \o <<x>> = Append(w, x) /\ Append(w, x) \in Seq(S)
           /\ Len(Append(w, x)) = Len(w) + 1 /\ Append(w, x)[Len(w) + 1] = x
           /\ \A i \in 1 .. Len(w) : Append(w, x)[i] = w[i]
           /\ Len(w) \in Nat
           /\ Len(Append(w, x)) # 0 /\ Append(w, x)[Len(Append(w, x))] = x
<1>1. /\ Append(w, x) \in Seq(S) /\ Len(Append(w, x)) = Len(w) + 1 /\ Len(w) \in Nat
      /\ Append(w, x)[Len(w) + 1] = x /\ \A i \in 1 .. Len(w) : Append(w, x)[i] = w[i]
  BY AppendProperties, LenProperties
<1>2. <<x>> \in Seq(S) /\ Len(<<x>>) = 1 /\ <<x>>[1] = x
  OBVIOUS
<1>3. /\ w \o <<x>> \in Seq(S) /\ Len(w \o <<x>>) = Len(w) + 1
      /\ \A i \in 1 .. Len(w) + 1 : (w \o <<x>>)[i] = IF i <= Len(w) THEN w[i] ELSE x
  BY <1>1, <1>2, ConcatProperties
<1>4. \A i \in 1 .. Len(w \o <<x>>) : (w \o <<x>>)[i] = Append(w, x)[i]
  BY <1>1, <1>3
<1> QED
  BY <1>1, <1>3, <1>4, SeqEqual

\* Writing two runes is appending one and then the other.
LEMMA AppendedTwo ==
    ASSUME NEW S, NEW w \in Seq(S), NEW x \in S, NEW y \in S,
           NEW c \in Seq(S), Len(c) = 2, c[1] = x, c[2] = y
    PROVE  w \o c = Append(Append(w, x), y)
<1> DEFINE v == Append(w, x)
<1>1. c \in Seq(S) /\ Len(c) = 2 /\ c[1] = x /\ c[2] = y
  OBVIOUS
<1>2. /\ w \o c \in Seq(S) /\ Len(w \o c) = Len(w) + 2
      /\ \A i \in 1 .. Len(w) + 2 : (w \o c)[i] = IF i <= Len(w) THEN w[i] ELSE c[i - Len(w)]
  <2>1. /\ w \o c \in Seq(S) /\ Len(w \o c) = Len(w) + Len(c)
        /\ \A i \in 1 .. Len(w) + Len(c) :
              (w \o c)[i] = IF i <= Len(w) THEN w[i] ELSE c[i - Len(w)]
    BY <1>1, ConcatProperties, Zenon
  <2> QED
    BY <1>1, <2>1
<1>3. /\ v \in Seq(S) /\ Len(v) = Len(w) + 1 /\ v[Len(w) + 1] = x
      /\ \A i \in 1 .. Len(w) : v[i] = w[i]
      /\ Len(w) \in Nat
  BY Appended
<1> HIDE DEF v
<1>4. /\ Append(v, y) \in Seq(S) /\ Len(Append(v, y)) = Len(v) + 1
      /\ Append(v, y)[Len(v) + 1] = y /\ \A i \in 1 .. Len(v) : Append(v, y)[i] = v[i]
  BY <1>3, Appended
<1>5. \A i \in 1 .. Len(w \o c) : (w \o c)[i] = Append(v, y)[i]
  <2> TAKE i \in 1 .. Len(w \o c)
  <2>1. CASE i <= Len(w)
    BY <1>2, <1>3, <1>4, <2>1
  <2>2. CASE i = Len(w) + 1
    BY <1>1, <1>2, <1>3, <1>4, <2>2
  <2>3. CASE i = Len(w) + 2
    BY <1>1, <1>2, <1>3, <1>4, <2>3
  <2> QED
    BY <1>2, <1>3, <2>1, <2>2, <2>3
<1>6. w \o c = Append(v, y)
  BY <1>2, <1>3, <1>4, <1>5, SeqEqual
<1> QED
  BY <1>6 DEF v

\* Writing one or two runes of S after w appends them.
Appends(S, w) == \A x, y \in S : /\ w \o <<x>> = Append(w, x)
                                 /\ w \o <<x, y>> = Append(Append(w, x), y)

LEMMA AppendedBoth == ASSUME NEW S, NEW w \in Seq(S) PROVE Appends(S, w)
<1>1. ASSUME NEW x \in S PROVE w \o <<x>> = Append(w, x)
  BY Appended, Zenon
<1>2. ASSUME NEW x \in S, NEW y \in S PROVE w \o <<x, y>> = Append(Append(w, x), y)
  <2> DEFINE c == <<x, y>>
  <2>1. c \in Seq(S) /\ Len(c) = 2 /\ c[1] = x /\ c[2] = y
    OBVIOUS
  <2> HIDE DEF c
  <2>2. w \o c = Append(Append(w, x), y)
    BY <2>1, AppendedTwo, Zenon
  <2> QED
    BY <2>2, Zenon DEF c
<1> QED
  BY <1>1, <1>2 DEF Appends

-----------------------------------------------------------------------------
(* The runes of a metric name                                              *)

NameRunes == {r \in LetterOrDigit \cup {"_", ":"} : ~IsUpper(r)}

\* A rune becomes one that a name may have, and stays a letter or none.
LEMMA RuneConverted ==
    ASSUME NEW r
    PROVE  /\ ToNameRune(r) \in NameRunes /\ ~IsUpper(ToNameRune(r))
           /\ IsLetter(ToNameRune(r)) <=> IsLetter(r)
           /\ IsLetter(r) => ToLower(ToNameRune(r)) = ToLower(r)
           /\ ~IsLetter(r) <=> ToNameRune(r) = "_"
<1>1. DOMAIN LowerOf = {"A", "B", "S", "EAcute"}
      /\ LowerOf["A"] = "a" /\ LowerOf["B"] = "b" /\ LowerOf["S"] = "s"
      /\ LowerOf["EAcute"] = "eacute"
  BY DEF LowerOf
<1>2. CASE IsUpper(r)
  <2>1. r \in {"A", "B", "S", "EAcute"} /\ ToLower(r) = LowerOf[r]
    BY <1>1, <1>2 DEF IsUpper, ToLower
  <2> QED
    BY <1>1, <2>1
       DEF IsUpper, ToLower, ToNameRune, NameRunes, IsLetter, IsMetricNameRune,
           LetterOrDigit, Digits
<1>3. CASE ~IsUpper(r)
  <2>1. r \notin {"A", "B", "S", "EAcute"} /\ ToLower(r) = r
    BY <1>1, <1>3 DEF IsUpper, ToLower
  <2>2. CASE IsMetricNameRune(r)
    BY <1>1, <1>3, <2>1, <2>2 DEF ToNameRune, NameRunes, IsLetter, IsMetricNameRune
  <2>3. CASE ~IsMetricNameRune(r)
    <3>1. ToNameRune(r) = "_" /\ ~IsUpper("_") /\ ~IsLetter("_") /\ ~IsLetter(r)
      BY <1>1, <2>1, <2>3 DEF ToNameRune, IsLetter, IsUpper
    <3> QED
      BY <1>1, <3>1 DEF NameRunes
  <2> QED
    BY <2>2, <2>3
<1> QED
  BY <1>2, <1>3

\* w was written for the runes of t.
WrittenFor(w, t) ==
    /\ w \in Seq(NameRunes) /\ SameWords(w, t) /\ (Len(t) = 0 <=> Len(w) = 0)
    /\ Len(t) # 0 => w[Len(w)] = ToNameRune(t[Len(t)])

\* A rune more keeps the words, whatever came before it.
LEMMA RuneKeepsWords ==
    ASSUME NEW S, NEW t \in Seq(S), NEW r \in S, NEW w, WrittenFor(w, t)
    PROVE  IF IsUpper(r) /\ Len(t) # 0 /\ ToNameRune(t[Len(t)]) # "_"
           THEN WrittenFor(Append(Append(w, "_"), ToNameRune(r)), Append(t, r))
           ELSE WrittenFor(Append(w, ToNameRune(r)), Append(t, r))
<1>0. /\ w \in Seq(NameRunes) /\ SameWords(w, t) /\ (Len(t) = 0 <=> Len(w) = 0)
      /\ Len(t) # 0 => w[Len(w)] = ToNameRune(t[Len(t)])
  BY DEF WrittenFor
<1> DEFINE x == ToNameRune(r)
<1>1. /\ x \in NameRunes /\ ~IsUpper(x) /\ "_" \in NameRunes /\ ~IsLetter("_")
      /\ IsLetter(x) <=> IsLetter(r)
      /\ IsLetter(r) => ToLower(x) = ToLower(r)
  <2>1. "_" \in NameRunes
    BY DEF NameRunes, IsUpper, LowerOf
  <2>2. ~IsLetter("_")
    BY DEF IsLetter
  <2> QED
    BY <2>1, <2>2, RuneConverted
<1>2. Len(t) # 0 => (IsLetter(w[Len(w)]) <=> IsLetter(t[Len(t)]))
                    /\ (~IsLetter(t[Len(t)]) <=> ToNameRune(t[Len(t)]) = "_")
  BY <1>0, RuneConverted
<1> DEFINE v == Append(w, "_")
           a == Append(w, x)
           b == Append(v, x)
           u == Append(t, r)
<1>3. /\ v \in Seq(NameRunes) /\ v[Len(v)] = "_"
      /\ a \in Seq(NameRunes) /\ Len(a) # 0 /\ a[Len(a)] = x
      /\ b \in Seq(NameRunes) /\ Len(b) # 0 /\ b[Len(b)] = x
  <2>1. \A y \in Seq(NameRunes), z \in NameRunes :
           /\ Append(y, z) \in Seq(NameRunes)
           /\ Len(Append(y, z)) # 0 /\ Append(y, z)[Len(Append(y, z))] = z
    BY Appended
  <2> HIDE DEF x
  <2>2. v \in Seq(NameRunes) /\ v[Len(v)] = "_"
    BY <1>0, <1>1, <2>1, Zenon
  <2> HIDE DEF v
  <2> QED
    BY <1>0, <1>1, <2>1, <2>2, Zenon
<1>4. Len(u) # 0 /\ u[Len(u)] = r
  BY Appended
<1> HIDE DEF x
<1>5. CASE IsUpper(r) /\ Len(t) # 0 /\ ToNameRune(t[Len(t)]) # "_"
  <2>1. SameWords(v, t)
    BY <1>0, <1>1, SameWithOther
  <2> HIDE DEF v
  <2>2. SameWords(b, u)
    <3>1. CASE IsLetter(r)
      BY <1>1, <1>3, <1>5, <2>1, <3>1, SameLetter
    <3>2. CASE ~IsLetter(r)
      <4>1. SameWords(b, t)
        BY <1>1, <1>3, <2>1, <3>2, SameWithOther
      <4> HIDE DEF b
      <4> QED
        BY <1>3, <3>2, <4>1, SameWithOther
    <3> QED
      BY <3>1, <3>2
  <2>3. WrittenFor(b, u)
    <3> HIDE DEF a, b, v, u
    <3> QED
      BY <1>3, <1>4, <2>2, Zenon DEF WrittenFor, x
  <2> QED
    BY <1>5, <2>3, Zenon DEF b, v, u, x
<1>6. CASE ~(IsUpper(r) /\ Len(t) # 0 /\ ToNameRune(t[Len(t)]) # "_")
  <2>2. SameWords(a, u)
    <3>1. CASE IsLetter(r)
      <4>1. (IsUpper(x) \/ Len(w) = 0 \/ ~IsLetter(w[Len(w)]))
               <=> (IsUpper(r) \/ Len(t) = 0 \/ ~IsLetter(t[Len(t)]))
        BY <1>0, <1>1, <1>2, <1>6
      <4> QED
        BY <1>0, <1>1, <3>1, <4>1, SameLetter
    <3>2. CASE ~IsLetter(r)
      <4>1. SameWords(a, t)
        BY <1>0, <1>1, <3>2, SameWithOther
      <4> HIDE DEF a
      <4> QED
        BY <1>3, <3>2, <4>1, SameWithOther
    <3> QED
      BY <3>1, <3>2
  <2>3. WrittenFor(a, u)
    <3> HIDE DEF a, b, v, u
    <3> QED
      BY <1>3, <1>4, <2>2, Zenon DEF WrittenFor, x
  <2> QED
    BY <1>6, <2>3, Zenon DEF a, u, x
<1> QED
  BY <1>5, <1>6, Zenon

\* A metric name has the runes that Prometheus accepts and the words of the
\* parameter's name.
LEMMA NameKeepsWords ==
    ASSUME NEW S, NEW s \in Seq(S)
    PROVE  MetricName(s) \in Seq(NameRunes) /\ SameWords(MetricName(s), s)
<1>1. Len(s) \in Nat /\ DOMAIN s = 1 .. Len(s) /\ \A i \in 1 .. Len(s) : s[i] \in S
  BY LenProperties, ElementOfSeq
<1>2. PICK w : IsWritten(w, s, Len(s)) /\ MetricName(s) = w[Len(s)]
  BY <1>1, MetricNameIs
<1> DEFINE First(n) == SubSeq(s, 1, n)
           N == {n \in Nat : n <= Len(s) => WrittenFor(w[n], First(n))}
<1>3. ASSUME NEW n \in 0 .. Len(s)
      PROVE  /\ First(n) \in Seq(S) /\ Len(First(n)) = n
             /\ \A i \in 1 .. n : First(n)[i] = s[i]
  BY <1>1, <1>3
<1>4. 0 \in N
  <2>1. w[0] = <<>> /\ First(0) = <<>>
    BY <1>1, <1>2, <1>3 DEF IsWritten
  <2>2. SameWords(<<>>, <<>>)
    BY DEF SameWords, Letters
  <2>3. WrittenFor(<<>>, <<>>)
    BY <2>2, EmptySeq DEF WrittenFor
  <2> QED
    BY <2>1, <2>3
<1>5. ASSUME NEW n \in N PROVE n + 1 \in N
  <2> SUFFICES ASSUME n + 1 <= Len(s) PROVE WrittenFor(w[n + 1], First(n + 1))
    OBVIOUS
  <2> DEFINE r == s[n + 1]
             t == First(n)
             hump == IsUpper(r) /\ Len(t) # 0 /\ ToNameRune(t[Len(t)]) # "_"
  <2>1. n \in Nat /\ n <= Len(s) /\ WrittenFor(w[n], t) /\ n + 1 \in 0 .. Len(s)
        /\ n + 1 # 0 /\ (n + 1) - 1 = n
    BY <1>1
  <2>2. t \in Seq(S) /\ Len(t) = n /\ r \in S /\ (n # 0 => t[n] = s[n])
    BY <1>1, <1>3, <2>1
  <2>3. First(n + 1) = Append(t, r)
    <3>1. First(n + 1) \in Seq(S) /\ Len(First(n + 1)) = n + 1
          /\ \A i \in 1 .. n + 1 : First(n + 1)[i] = s[i]
      BY <1>1, <1>3, <2>1
    <3>2. Append(t, r) \in Seq(S) /\ Len(Append(t, r)) = n + 1
          /\ \A i \in 1 .. n : Append(t, r)[i] = t[i] /\ Append(t, r)[n + 1] = r
      BY <2>1, <2>2, AppendProperties
    <3>3. \A i \in 1 .. n : t[i] = s[i]
      BY <1>1, <1>3, <2>1
    <3> QED
      BY <3>1, <3>2, <3>3, <2>1
  <2> HIDE DEF First
  <2>4. w[n + 1] = IF hump THEN Append(Append(w[n], "_"), ToNameRune(r))
                   ELSE Append(w[n], ToNameRune(r))
    <3>1. w[n + 1] = w[n] \o Converted(s, n + 1)
      BY <1>2, <2>1 DEF IsWritten
    <3>2. Converted(s, n + 1) = IF IsUpper(r) /\ n + 1 > 1 /\ ToNameRune(s[n]) # "_"
                                THEN <<"_", ToNameRune(r)>> ELSE <<ToNameRune(r)>>
      BY <2>1, Zenon DEF Converted
    <3>3. hump <=> IsUpper(r) /\ n + 1 > 1 /\ ToNameRune(s[n]) # "_"
      <4> HIDE DEF r, t
      <4>1. Len(t) # 0 <=> n + 1 > 1
        BY <2>1, <2>2
      <4>2. Len(t) # 0 => t[Len(t)] = s[n]
        BY <2>2, Zenon
      <4> QED
        BY <4>1, <4>2, Zenon
    <3>4. ToNameRune(r) \in NameRunes /\ "_" \in NameRunes
      BY RuneConverted DEF NameRunes, IsUpper, LowerOf
    <3>5. w[n] \in Seq(NameRunes)
      BY <2>1, Zenon DEF WrittenFor
    <3>6. \A x, y \in NameRunes : /\ w[n] \o <<x>> = Append(w[n], x)
                                  /\ w[n] \o <<x, y>> = Append(Append(w[n], x), y)
      <4>1. Appends(NameRunes, w[n])
        BY <3>5, AppendedBoth, Zenon
      <4> QED
        BY <4>1, Zenon DEF Appends
    <3> HIDE DEF r, t, hump
    <3> QED
      BY <3>1, <3>2, <3>3, <3>4, <3>6, Zenon
  <2>5. IF hump THEN WrittenFor(Append(Append(w[n], "_"), ToNameRune(r)), Append(t, r))
        ELSE WrittenFor(Append(w[n], ToNameRune(r)), Append(t, r))
    BY <2>1, <2>2, RuneKeepsWords, Zenon
  <2> HIDE DEF r, t, hump
  <2> QED
    BY <2>3, <2>4, <2>5, Zenon
<1>6. N = Nat
  <2>1. N \in SUBSET Nat
    OBVIOUS
  <2> HIDE DEF N
  <2> QED
    BY <1>4, <1>5, <2>1, AllNumbers
<1>7. WrittenFor(w[Len(s)], s)
  <2>1. Len(s) \in N
    BY <1>1, <1>6
  <2>2. First(Len(s)) = s
    BY SubSeqFull
  <2>3. WrittenFor(w[Len(s)], First(Len(s)))
    BY <1>1, <2>1
  <2> QED
    BY <2>2, <2>3, Zenon
<1> QED
  BY <1>2, <1>7 DEF WrittenFor

-----------------------------------------------------------------------------
(* Headers and messages                                                    *)

\* Masking a byte twice gives it back.
LEMMA MaskedTwice == ASSUME NEW b \in 0 .. 255 PROVE Xor(b, b) = 0
<1>1. \A n \in Int : (n + n) % 2 = 0
  OBVIOUS
<1>2. \A w \in {1, 2, 4, 8, 16, 32, 64, 128} : w * ((b \div w + b \div w) % 2) = 0
  <2>1. \A w \in {1, 2, 4, 8, 16, 32, 64, 128} : b \div w \in Int
    OBVIOUS
  <2> QED
    BY <1>1, <2>1
<1> QED
  BY <1>2 DEF Xor

\* Unmasking gives back what was masked, whatever the encryption type, the
\* sequence number and the source (decoder.go:176).
LEMMA Unmasked ==
    ASSUME NEW h, IsHeader(h)
    PROVE  /\ Decrypted(h).mask = 0 /\ Decrypted(h).kind = h.pdata.kind
           /\ h.pdata.kind = "json" => Decrypted(h).params = h.pdata.params
           /\ h.pdata.kind = "message" => Decrypted(h).m = h.pdata.m
<1>1. h.seq \in Int /\ h.seq % 256 \in 0 .. 255
  BY DEF IsHeader
<1>2. CASE h.encType = 1 /\ h.seq # 0 /\ h.src # 32
  <2>1. Decrypted(h) = [h.pdata EXCEPT !.mask = Xor(h.pdata.mask, h.seq % 256)]
    BY <1>2 DEF Decrypted, XorDecrypt
  <2>2. Xor(h.pdata.mask, h.seq % 256) = 0
    BY <1>1, <1>2, MaskedTwice DEF IsHeader
  <2> QED
    BY <2>1, <2>2 DEF IsHeader
<1>3. CASE ~(h.encType = 1 /\ h.seq # 0 /\ h.src # 32)
  <2>1. Decrypted(h) = h.pdata
    BY <1>3 DEF Decrypted
  <2>2. h.pdata.mask = 0
    BY <1>1, <1>3 DEF IsHeader
  <2> QED
    BY <2>1, <2>2
<1> QED
  BY <1>2, <1>3

\* A header is read as what it says, or passed over.
LEMMA HeaderIsRead ==
    ASSUME NEW h, IsHeader(h)
    PROVE  /\ ReadHeader(h).parsed <=> Known(h)
           /\ ReadHeader(h).params = IF Known(h) THEN Said(h) ELSE NoParams
<1> DEFINE pdata == Decrypted(h)
<1>1. /\ pdata.mask = 0 /\ pdata.kind = h.pdata.kind
      /\ h.pdata.kind = "json" => pdata.params = h.pdata.params
      /\ h.pdata.kind = "message" => pdata.m = h.pdata.m
  BY Unmasked
<1> HIDE DEF pdata
<1>2. CASE h.pdata.kind = "json"
  <2>1. ReadHeader(h) = [parsed |-> TRUE, params |-> pdata.params]
    BY <1>1, <1>2 DEF ReadHeader, pdata
  <2> QED
    BY <1>1, <1>2, <2>1 DEF Known, Said
<1>3. CASE h.pdata.kind = "message" /\ TypeOf(h) # "none"
  <2>1. pdata.kind # "json" /\ h.pdata.kind # "json"
    BY <1>1, <1>3
  <2>2. ReadHeader(h) = [parsed |-> TRUE, params |-> AsParams(FlatParams(TypeOf(h), pdata.m))]
    BY <1>1, <1>3, <2>1 DEF ReadHeader, pdata
  <2> QED
    BY <1>1, <1>3, <2>1, <2>2 DEF Known, Said
<1>4. CASE ~Known(h)
  <2>1. pdata.kind # "json" /\ (TypeOf(h) = "none" \/ pdata.kind # "message")
    BY <1>1, <1>4 DEF Known
  <2>2. ReadHeader(h) = [parsed |-> FALSE, params |-> NoParams]
    BY <1>1, <2>1 DEF ReadHeader, pdata
  <2> QED
    BY <1>4, <2>2
<1> QED
  BY <1>2, <1>3, <1>4 DEF Known

\* A sequence of runes is a name.
LEMMA SequenceIsName == ASSUME NEW S, NEW s \in Seq(S) PROVE IsName(s)
<1>1. s \in [1 .. Len(s) -> S] /\ Len(s) \in Nat
  BY LenProperties
<1>2. s \in [1 .. Len(s) -> Range(s)]
  BY <1>1 DEF Range
<1> QED
  BY <1>1, <1>2, SeqDef DEF IsName

\* A name after a name is a name.
LEMMA NameAfterName == ASSUME NEW p, IsName(p), NEW q, IsName(q) PROVE IsName(p \o q)
<1> DEFINE S == Range(p) \union Range(q)
<1>1. p \in Seq(S) /\ q \in Seq(S)
  BY SeqMonotonic DEF IsName
<1> HIDE DEF S
<1>2. p \o q \in Seq(S)
  BY <1>1, ConcatProperties
<1> QED
  BY <1>2, SequenceIsName

\* One rune or two are a name.
LEMMA ShortNames == /\ \A r : IsName(<<r>>)
                    /\ \A r, q : IsName(<<r, q>>)
                    /\ IsName(<<>>)
<1>1. \A r : <<r>> \in Seq({r})
  OBVIOUS
<1>2. \A r, q : <<r, q>> \in Seq({r, q})
  OBVIOUS
<1>3. <<>> \in Seq({})
  BY EmptySeq
<1> QED
  BY <1>1, <1>2, <1>3, SequenceIsName

\* The named fields are those that are listed.
LEMMA NamedFieldsAre ==
    ASSUME NEW pairs
    PROVE  /\ NamedFields(pairs) = [n \in DOMAIN NamedFields(pairs) |-> NamedFields(pairs)[n]]
           /\ DOMAIN NamedFields(pairs) = {p[1] : p \in pairs}
           /\ \A n \in DOMAIN NamedFields(pairs) :
                 \E p \in pairs : p[1] = n /\ NamedFields(pairs)[n] = p[2]
<1> DEFINE Chosen(n) == CHOOSE p \in pairs : p[1] = n
           names == {p[1] : p \in pairs}
           fields == [n \in names |-> Chosen(n)[2]]
<1>1. NamedFields(pairs) = fields
  BY Zenon DEF NamedFields
<1>2. \A n \in names : Chosen(n) \in pairs /\ Chosen(n)[1] = n
  <2> TAKE n \in names
  <2>1. \E p \in pairs : p[1] = n
    OBVIOUS
  <2> QED
    BY <2>1, Zenon
<1> HIDE DEF Chosen
<1>3. /\ DOMAIN fields = names /\ fields = [n \in DOMAIN fields |-> fields[n]]
      /\ \A n \in names : fields[n] = Chosen(n)[2]
  <2> HIDE DEF names
  <2> QED
    OBVIOUS
<1>4. \A n \in DOMAIN fields : \E p \in pairs : p[1] = n /\ fields[n] = p[2]
  <2> HIDE DEF names, fields
  <2> QED
    BY <1>2, <1>3, Zenon
<1> HIDE DEF fields
<1> QED
  BY <1>1, <1>3, <1>4, Zenon

\* The types of the schema.
LEMMA SchemaTypes ==
    /\ DOMAIN Schema = {"PropertyUpload", "CMSHeartBeatReport", "BMSHeartBeatReport",
                        "CMSStatus1", "CMSStatus2", "EnergyStrategyOperateMode"}
    /\ Schema["PropertyUpload"] = PropertyUpload
    /\ Schema["CMSHeartBeatReport"] = CMSHeartBeatReport
    /\ Schema["BMSHeartBeatReport"] = BMSHeartBeatReport
    /\ Schema["CMSStatus1"] = CMSStatus1 /\ Schema["CMSStatus2"] = CMSStatus2
    /\ Schema["EnergyStrategyOperateMode"] = EnergyStrategyOperateMode
  BY DEF Schema

\* Fields of a message type: they have names, and the nested ones a type.
FirstRunes == {"a", "m", "n", "o", "p", "s", "x"}
AreFields(pairs) ==
    \A p \in pairs : /\ IsName(p[1]) /\ p[1] # <<>> /\ p[1][1] \in FirstRunes
                     /\ p[2].kind = "message" => p[2].of \in DOMAIN Schema

\* The schema lists such fields.
LEMMA SchemaFields ==
    ASSUME NEW type \in DOMAIN Schema, NEW f \in DOMAIN Schema[type]
    PROVE  /\ IsName(f) /\ f # <<>> /\ f[1] \in FirstRunes
           /\ Schema[type][f].kind = "message" => Schema[type][f].of \in DOMAIN Schema
<1>1. \E pairs : PropertyUpload = NamedFields(pairs) /\ AreFields(pairs)
  <2> DEFINE pairs == {
    << <<"p", "S">>, Field("float") >>, << <<"p", "B">>, Field("uint32") >>,
    << <<"n">>, Field("int32") >>, << <<"s", "A">>, Field("string") >>,
    << <<"p", "x">>, Field("bytes") >>,
    << <<"o", "S">>, Nested("EnergyStrategyOperateMode") >> }
  <2>1. AreFields(pairs)
    BY SchemaTypes, ShortNames DEF AreFields, FirstRunes, Field, Nested
  <2> QED
    BY <2>1, Zenon DEF PropertyUpload
<1>2. \E pairs : EnergyStrategyOperateMode = NamedFields(pairs) /\ AreFields(pairs)
  <2> DEFINE pairs == { << <<"o", "A">>, Field("int32") >> }
  <2>1. AreFields(pairs)
    BY ShortNames DEF AreFields, FirstRunes, Field
  <2> QED
    BY <2>1, Zenon DEF EnergyStrategyOperateMode
<1>3. \E pairs : CMSHeartBeatReport = NamedFields(pairs) /\ AreFields(pairs)
  <2> DEFINE pairs == {
    << <<"m", "0">>, Nested("CMSStatus1") >>, << <<"m", "1">>, Nested("CMSStatus2") >> }
  <2>1. AreFields(pairs)
    BY SchemaTypes, ShortNames DEF AreFields, FirstRunes, Nested
  <2> QED
    BY <2>1, Zenon DEF CMSHeartBeatReport
<1>4. \E pairs : CMSStatus1 = NamedFields(pairs) /\ AreFields(pairs)
  <2> DEFINE pairs == {
    << <<"s">>, Field("float") >>, << <<"n">>, Field("int32") >>,
    << <<"p", "B">>, Field("uint32") >>, << <<"x">>, List("int32") >> }
  <2>1. AreFields(pairs)
    BY ShortNames, SMTT(30) DEF AreFields, FirstRunes, Field, List
  <2> QED
    BY <2>1, Zenon DEF CMSStatus1
<1>5. \E pairs : CMSStatus2 = NamedFields(pairs) /\ AreFields(pairs)
  <2> DEFINE pairs == { << <<"m", "A">>, Field("int32") >> }
  <2>1. AreFields(pairs)
    BY ShortNames DEF AreFields, FirstRunes, Field
  <2> QED
    BY <2>1, Zenon DEF CMSStatus2
<1>6. \E pairs : BMSHeartBeatReport = NamedFields(pairs) /\ AreFields(pairs)
  <2> DEFINE pairs == {
    << <<"n">>, Field("uint32") >>, << <<"s">>, Field("uint32") >>,
    << <<"a", "S">>, Field("float") >>, << <<"a">>, Field("int32") >>,
    << <<"p", "S">>, Field("string") >>, << <<"x">>, List("uint32") >>,
    << <<"m">>, List("int32") >> }
  <2>1. AreFields({
    << <<"n">>, Field("uint32") >>, << <<"s">>, Field("uint32") >>,
    << <<"a", "S">>, Field("float") >>, << <<"a">>, Field("int32") >> })
    BY ShortNames DEF AreFields, FirstRunes, Field
  <2>2. AreFields({
    << <<"p", "S">>, Field("string") >>, << <<"x">>, List("uint32") >>,
    << <<"m">>, List("int32") >> })
    BY ShortNames DEF AreFields, FirstRunes, Field, List
  <2>3. AreFields(pairs)
    BY <2>1, <2>2 DEF AreFields
  <2> QED
    BY <2>3, Zenon DEF BMSHeartBeatReport
<1>7. PICK pairs : Schema[type] = NamedFields(pairs) /\ AreFields(pairs)
  BY <1>1, <1>2, <1>3, <1>4, <1>5, <1>6, SchemaTypes
<1>8. PICK p \in pairs : p[1] = f /\ Schema[type][f] = p[2]
  <2>1. f \in DOMAIN NamedFields(pairs)
    BY <1>7
  <2>2. \E p \in pairs : p[1] = f /\ NamedFields(pairs)[f] = p[2]
    BY <2>1, NamedFieldsAre
  <2> QED
    BY <1>7, <2>2, Zenon
<1> QED
  BY <1>7, <1>8 DEF AreFields

\* A pack number has a digit at least, and ten at most.
LEMMA WidthIs ==
    ASSUME NEW n
    PROVE  /\ Width(n) \in 1 .. 10
           /\ \A k \in 1 .. 10 : n >= Power[k] => Width(n) >= k
<1> DEFINE S == {1} \union {k \in 1 .. 10 : n >= Power[k]}
<1>1. S \in SUBSET (0 .. 10) /\ S # {} /\ S \subseteq 1 .. 10
  OBVIOUS
<1>2. \A k \in 1 .. 10 : n >= Power[k] => k \in S
  OBVIOUS
<1>3. Width(n) = Max(S)
  BY Zenon DEF Width
<1> HIDE DEF S
<1>4. Max(S) \in S /\ \A i \in S : Max(S) >= i
  BY <1>1, MaxExists
<1> QED
  BY <1>1, <1>2, <1>3, <1>4

\* The prefix of a pack is a name.
LEMMA PrefixIsName == ASSUME NEW num PROVE IsName(Decimal(num)) /\ IsName(BmsPrefix(num))
<1>1. IsName(Decimal(num))
  <2> DEFINE d == Decimal(num)
  <2>1. DOMAIN d = 1 .. Width(num) /\ d = [i \in 1 .. Width(num) |-> d[i]]
    BY Zenon DEF Decimal
  <2> HIDE DEF d
  <2>2. d \in [1 .. Width(num) -> Range(d)]
    BY <2>1 DEF Range
  <2>3. d \in Seq(Range(d))
    BY <2>2, WidthIs, SeqDef
  <2> QED
    BY <2>3 DEF IsName, d
<1>2. IsName(<<"b", "m", "s", ".">>)
  <2>1. <<"b", "m", "s", ".">> \in Seq({"b", "m", "s", "."})
    OBVIOUS
  <2> QED
    BY <2>1, SequenceIsName
<1> QED
  BY <1>1, <1>2, NameAfterName, ShortNames DEF BmsPrefix

\* Every scalar that is flattened has a name, and is a number or something else.
LEMMA ScalarsAreParams ==
    ASSUME NEW type \in DOMAIN Schema, NEW m, DOMAIN m \subseteq DOMAIN Schema[type],
           NEW prefix, IsName(prefix), NEW pair \in Scalars(type, m, prefix)
    PROVE  IsName(pair[1]) /\ pair[2].kind \in {"number", "other"}
<1>1. PICK f \in DOMAIN m : /\ pair[1] = prefix \o f
                            /\ pair[2].kind \in {"number", "other"}
  BY DEF Scalars, Other, Number
<1>2. IsName(f)
  BY SchemaFields
<1> QED
  BY <1>1, <1>2, NameAfterName

\* So has every field of a message, nested ones included.
LEMMA FlattenedAreParams ==
    ASSUME NEW type \in DOMAIN Schema, NEW m, HasFields(type, m), NEW prefix, IsName(prefix),
           NEW inline, NEW pair \in FlattenMessage(type, m, prefix, inline)
    PROVE  IsName(pair[1]) /\ pair[2].kind \in {"number", "other"}
<1>1. DOMAIN m \subseteq DOMAIN Schema[type]
  BY DEF HasFields
<1>2. CASE pair \in Scalars(type, m, prefix)
  BY <1>1, <1>2, ScalarsAreParams
<1>3. CASE pair \notin Scalars(type, m, prefix)
  <2> DEFINE inner(f) == IF inline THEN prefix ELSE prefix \o f \o <<".">>
  <2>1. PICK f \in DOMAIN m : /\ Schema[type][f].kind = "message"
                              /\ pair \in Scalars(Schema[type][f].of, m[f].m, inner(f))
    BY <1>3 DEF FlattenMessage
  <2>2. /\ IsName(f) /\ Schema[type][f].of \in DOMAIN Schema
        /\ DOMAIN m[f].m \subseteq DOMAIN Schema[Schema[type][f].of]
    BY <1>1, <2>1, SchemaFields DEF HasFields
  <2>3. IsName(inner(f))
    BY <2>2, NameAfterName, ShortNames
  <2> HIDE DEF inner
  <2> QED
    BY <2>1, <2>2, <2>3, ScalarsAreParams
<1> QED
  BY <1>2, <1>3

\* What a known header says are parameters.
LEMMA SaidIsParams == ASSUME NEW h, IsHeader(h), Known(h) PROVE IsParams(Said(h))
<1>1. CASE h.pdata.kind = "json"
  BY <1>1 DEF IsHeader, Said
<1>2. CASE h.pdata.kind # "json"
  <2> DEFINE pairs == FlatParams(TypeOf(h), h.pdata.m)
             ps == [n \in {p[1] : p \in pairs} |-> (CHOOSE p \in pairs : p[1] = n)[2]]
  <2>1. Said(h) = ps
    BY <1>2 DEF Said, AsParams, NamedFields
  <2>2. \A p \in pairs : IsName(p[1]) /\ p[2].kind \in {"number", "other"}
    <3>1. TypeOf(h) \in DOMAIN Schema /\ HasFields(TypeOf(h), h.pdata.m)
      BY <1>2, SchemaTypes DEF Known, IsHeader, TypeOf, NewMessageFor
    <3>2. IsName(BmsPrefix(GetNum(h.pdata.m))) /\ IsName(<<>>)
      BY PrefixIsName, ShortNames
    <3> QED
      BY <3>1, <3>2, FlattenedAreParams DEF FlatParams
  <2>3. ASSUME NEW n \in {p[1] : p \in pairs}
        PROVE  (CHOOSE p \in pairs : p[1] = n) \in pairs
    <3> HIDE DEF pairs
    <3>1. \E p \in pairs : p[1] = n
      OBVIOUS
    <3> QED
      BY <3>1, Zenon
  <2> HIDE DEF pairs
  <2>4. \A n \in DOMAIN ps : IsName(n) /\ ps[n].kind \in {"number", "other"}
    BY <2>2, <2>3
  <2> QED
    BY <2>1, <2>4 DEF IsParams
<1> QED
  BY <1>1, <1>2

\* What a message says are parameters.
LEMMA SaidByIsParams == ASSUME NEW m, IsMessage(m) PROVE IsParams(SaidBy(m))
<1>1. CASE m.kind = "json"
  BY <1>1 DEF IsMessage, SaidBy
<1>2. CASE m.kind # "json"
  <2> DEFINE f == [k \in KnownHeaders(m) |-> Said(m.headers[k])]
  <2>1. CASE m.kind = "headers"
    <3>1. Len(m.headers) \in Nat /\ DOMAIN m.headers = 1 .. Len(m.headers)
      BY <2>1, LenProperties DEF IsMessage
    <3>2. /\ KnownHeaders(m) \subseteq 0 .. Len(m.headers)
          /\ \A k \in KnownHeaders(m) : IsParams(Said(m.headers[k]))
      BY <2>1, <3>1, SaidIsParams DEF IsMessage, KnownHeaders, HeadersOf
    <3>3. IsParams(LastOf(f))
      <4>1. DOMAIN f \subseteq 0 .. Len(m.headers) /\ \A k \in DOMAIN f : IsParams(f[k])
        BY <3>2
      <4> HIDE DEF f
      <4> QED
        BY <3>1, <4>1, LastOfIsParams
    <3> QED
      BY <1>2, <3>3 DEF SaidBy
  <2>2. CASE m.kind # "headers"
    <3>1. DOMAIN f = {}
      BY <2>2 DEF KnownHeaders, HeadersOf
    <3>2. IsParams(LastOf(f))
      <4> HIDE DEF f
      <4> QED
        BY <3>1, LastOfIsParams
    <3> QED
      BY <1>2, <3>2 DEF SaidBy
  <2> QED
    BY <2>1, <2>2
<1> QED
  BY <1>1, <1>2

\* A message in which nothing is known says nothing.
LEMMA NothingIsSaid == ASSUME NEW m, Nothing(m) PROVE SaidBy(m) = NoParams
<1> DEFINE f == [k \in KnownHeaders(m) |-> Said(m.headers[k])]
<1>1. DOMAIN f = {}
  BY DEF Nothing
<1>2. LastOf(f) = NoParams
  <2> HIDE DEF f
  <2> QED
    BY <1>1, LastOfNothing
<1> QED
  BY <1>2 DEF Nothing, SaidBy

-----------------------------------------------------------------------------
(* One message more                                                        *)

\* The messages of this behaviour, and how many were received.
InboxOK == inbox \in Inboxes /\ at \in 0 .. Len(inbox)

\* They are messages.
LEMMA InboxFacts ==
    ASSUME InboxOK
    PROVE  /\ Len(inbox) \in Nat /\ at \in Nat
           /\ \A i \in 1 .. Len(inbox) : IsMessage(inbox[i]) /\ IsParams(SaidBy(inbox[i]))
<1>1. inbox \in Seq(Range(inbox)) /\ \A i \in DOMAIN inbox : IsMessage(inbox[i])
  BY InboxAssumption DEF InboxOK
<1>2. Len(inbox) \in Nat /\ DOMAIN inbox = 1 .. Len(inbox)
  BY <1>1, LenProperties
<1> QED
  BY <1>1, <1>2, SaidByIsParams DEF InboxOK

\* The next message is of the device or not.
LEMMA HeardNext ==
    ASSUME NEW n \in Nat
    PROVE  /\ Heard(n) \subseteq 1 .. n
           /\ n + 1 \in Heard(n + 1) <=> getSnFromTopic(inbox[n + 1].topic) = Device
           /\ n + 1 \in Heard(n + 1) => Heard(n + 1) = Heard(n) \union {n + 1}
           /\ n + 1 \notin Heard(n + 1) => Heard(n + 1) = Heard(n)
  BY DEF Heard

\* What was said before is kept until it is said again.
LEMMA LatestNext ==
    ASSUME NEW n \in Nat, n + 1 \in Heard(n + 1)
    PROVE  /\ Latest(n + 1) = MergeParams(Latest(n), SaidBy(inbox[n + 1]))
           /\ LatestNumbers(n + 1)
                  = MergeParams(LatestNumbers(n), OnlyNumbers(SaidBy(inbox[n + 1])))
<1>1. Heard(n) \in SUBSET (0 .. n) /\ Heard(n + 1) = Heard(n) \union {n + 1}
  BY HeardNext
<1> DEFINE f == [i \in Heard(n) |-> SaidBy(inbox[i])]
           g == [i \in Heard(n + 1) |-> SaidBy(inbox[i])]
           fn == [i \in Heard(n) |-> OnlyNumbers(SaidBy(inbox[i]))]
           gn == [i \in Heard(n + 1) |-> OnlyNumbers(SaidBy(inbox[i]))]
<1>2. LastOf(g) = MergeParams(LastOf(f), g[n + 1])
  <2>1. /\ DOMAIN f = Heard(n) /\ DOMAIN g = Heard(n) \union {n + 1}
        /\ \A i \in Heard(n) : g[i] = f[i]
    BY <1>1
  <2>2. n + 1 \in Nat /\ Heard(n) \in SUBSET (0 .. (n + 1) - 1)
    BY <1>1
  <2> HIDE DEF f, g
  <2> QED
    BY <2>1, <2>2, LastOfNext
<1>3. LastOf(gn) = MergeParams(LastOf(fn), gn[n + 1])
  <2>1. /\ DOMAIN fn = Heard(n) /\ DOMAIN gn = Heard(n) \union {n + 1}
        /\ \A i \in Heard(n) : gn[i] = fn[i]
    BY <1>1
  <2>2. n + 1 \in Nat /\ Heard(n) \in SUBSET (0 .. (n + 1) - 1)
    BY <1>1
  <2> HIDE DEF fn, gn
  <2> QED
    BY <2>1, <2>2, LastOfNext
<1>4. g[n + 1] = SaidBy(inbox[n + 1]) /\ gn[n + 1] = OnlyNumbers(SaidBy(inbox[n + 1]))
  OBVIOUS
<1> QED
  BY <1>2, <1>3, <1>4 DEF Latest, LatestNumbers

\* A message of another device, or one that says nothing, changes nothing.
LEMMA LatestKept ==
    ASSUME NEW n \in Nat,
           n + 1 \in Heard(n + 1) => SaidBy(inbox[n + 1]) = NoParams
    PROVE  Latest(n + 1) = Latest(n) /\ LatestNumbers(n + 1) = LatestNumbers(n)
<1>1. CASE n + 1 \notin Heard(n + 1)
  BY <1>1, HeardNext DEF Latest, LatestNumbers
<1>2. CASE n + 1 \in Heard(n + 1)
  <2>1. OnlyNumbers(NoParams) = NoParams
    <3>1. DOMAIN NoParams = {} /\ NoParams = [p \in {} |-> NoParams[p]]
      BY Zenon DEF NoParams, AsParams, NamedFields
    <3>2. OnlyNumbers(NoParams) = [p \in {} |-> NoParams[p]]
      BY <3>1 DEF OnlyNumbers
    <3> QED
      BY <3>1, <3>2
  <2>2. /\ Latest(n) = [p \in DOMAIN Latest(n) |-> Latest(n)[p]]
        /\ LatestNumbers(n) = [p \in DOMAIN LatestNumbers(n) |-> LatestNumbers(n)[p]]
    BY LastOfIsFunction DEF Latest, LatestNumbers
  <2> QED
    BY <1>2, <2>1, <2>2, LatestNext, MergeNothing
<1> QED
  BY <1>1, <1>2

\* The state has the latest numbers.
NumbersAgree(n) ==
    \A p \in DOMAIN Latest(n) :
        Latest(n)[p].kind # "other" =>
            p \in DOMAIN LatestNumbers(n) /\ LatestNumbers(n)[p] = Latest(n)[p]

\* A message more keeps it so.
LEMMA NumbersAgreeNext ==
    ASSUME NEW n \in Nat, NumbersAgree(n) PROVE NumbersAgree(n + 1)
<1>1. CASE n + 1 \notin Heard(n + 1)
  BY <1>1, LatestKept DEF NumbersAgree
<1>2. CASE n + 1 \in Heard(n + 1)
  <2> DEFINE said == SaidBy(inbox[n + 1])
  <2>1. /\ Latest(n + 1) = MergeParams(Latest(n), said)
        /\ LatestNumbers(n + 1) = MergeParams(LatestNumbers(n), OnlyNumbers(said))
    BY <1>2, LatestNext
  <2> HIDE DEF said
  <2> SUFFICES ASSUME NEW p \in DOMAIN Latest(n + 1), Latest(n + 1)[p].kind # "other"
               PROVE  /\ p \in DOMAIN LatestNumbers(n + 1)
                      /\ LatestNumbers(n + 1)[p] = Latest(n + 1)[p]
    BY DEF NumbersAgree
  <2>2. CASE p \in DOMAIN said
    <3>1. Latest(n + 1)[p] = said[p]
      BY <2>1, <2>2 DEF MergeParams
    <3>2. p \in DOMAIN OnlyNumbers(said) /\ OnlyNumbers(said)[p] = said[p]
      BY <2>2, <3>1 DEF OnlyNumbers
    <3> QED
      BY <2>1, <3>1, <3>2 DEF MergeParams
  <2>3. CASE p \notin DOMAIN said
    <3>1. p \in DOMAIN Latest(n) /\ Latest(n + 1)[p] = Latest(n)[p]
      BY <2>1, <2>3 DEF MergeParams
    <3>2. p \notin DOMAIN OnlyNumbers(said)
      BY <2>3 DEF OnlyNumbers
    <3> QED
      BY <2>1, <3>1, <3>2 DEF MergeParams, NumbersAgree
  <2> QED
    BY <2>2, <2>3
<1> QED
  BY <1>1, <1>2

-----------------------------------------------------------------------------
(* The decoder                                                             *)

\* What was read of the headers before the k-th.
ReadBefore(k) == {j \in KnownHeaders(payload) : j < k}
ReadParams(k) == LastOf([j \in ReadBefore(k) |-> Said(payload.headers[j])])

\* Where MessageHandler is with which message, and what it has decoded of it.
ReadOK ==
    /\ InboxOK
    /\ step \in {"idle", "json", "protobuf", "headers", "decoded", "merged", "handling"}
    /\ step # "idle" => at \in Heard(at)
    /\ step = "json" => payload.kind \in {"json", "object"}
    /\ step = "protobuf" => params = NoParams
    /\ step \in {"protobuf", "headers"} => payload.kind = "headers"
    /\ step = "headers" =>
          /\ nextHeader \in 1 .. Len(payload.headers) + 1
          /\ params = ReadParams(nextHeader)
          /\ parsedCount \in Nat /\ (parsedCount = 0 <=> ReadBefore(nextHeader) = {})
    /\ step \in {"decoded", "merged"} => params = SaidBy(payload)
    /\ step = "merged" => params # NoParams
    /\ step = "handling" => SaidBy(payload) # NoParams
    /\ step \in {"decoded", "merged", "handling"} => ~Nothing(payload)

\* The message in hand is a message.
LEMMA PayloadFacts ==
    ASSUME InboxOK, at \in Heard(at)
    PROVE  /\ at \in 1 .. Len(inbox) /\ IsMessage(payload) /\ IsParams(SaidBy(payload))
           /\ payload.kind = "headers" =>
                 /\ Len(payload.headers) \in Nat
                 /\ DOMAIN payload.headers = 1 .. Len(payload.headers)
                 /\ \A k \in 1 .. Len(payload.headers) : IsHeader(payload.headers[k])
<1>1. at \in 1 .. Len(inbox)
  BY InboxFacts DEF InboxOK, Heard
<1>2. IsMessage(payload) /\ IsParams(SaidBy(payload))
  BY <1>1, InboxFacts DEF payload
<1>3. ASSUME payload.kind = "headers"
      PROVE  /\ Len(payload.headers) \in Nat
             /\ DOMAIN payload.headers = 1 .. Len(payload.headers)
             /\ \A k \in 1 .. Len(payload.headers) : IsHeader(payload.headers[k])
  <2>1. payload.headers \in Seq(Range(payload.headers))
    BY <1>2, <1>3 DEF IsMessage
  <2>2. /\ Len(payload.headers) \in Nat
        /\ DOMAIN payload.headers = 1 .. Len(payload.headers)
    BY <2>1, LenProperties
  <2> QED
    BY <1>2, <1>3, <2>2 DEF IsMessage
<1> QED
  BY <1>1, <1>2, <1>3

\* Before the first header nothing was read.
LEMMA ReadNone ==
    ASSUME InboxOK, at \in Heard(at), payload.kind = "headers"
    PROVE  ReadBefore(1) = {} /\ ReadParams(1) = NoParams
<1>1. ReadBefore(1) = {}
  BY PayloadFacts DEF ReadBefore, KnownHeaders, HeadersOf
<1> DEFINE f == [j \in ReadBefore(1) |-> Said(payload.headers[j])]
<1>2. DOMAIN f = {}
  BY <1>1
<1>3. LastOf(f) = NoParams
  <2> HIDE DEF f
  <2> QED
    BY <1>2, LastOfNothing
<1> QED
  BY <1>1, <1>3 DEF ReadParams

\* A header more is read and merged, or passed over.
LEMMA ReadNext ==
    ASSUME InboxOK, at \in Heard(at), payload.kind = "headers",
           NEW k \in 1 .. Len(payload.headers)
    PROVE  /\ ReadHeader(payload.headers[k]).parsed <=> k \in KnownHeaders(payload)
           /\ ReadBefore(k + 1) = IF k \in KnownHeaders(payload)
                                  THEN ReadBefore(k) \union {k} ELSE ReadBefore(k)
           /\ ReadParams(k + 1)
                 = MergeParams(ReadParams(k), ReadHeader(payload.headers[k]).params)
<1>1. /\ Len(payload.headers) \in Nat /\ DOMAIN payload.headers = 1 .. Len(payload.headers)
      /\ IsHeader(payload.headers[k])
  BY PayloadFacts
<1>2. /\ KnownHeaders(payload) \subseteq 1 .. Len(payload.headers)
      /\ k \in KnownHeaders(payload) <=> Known(payload.headers[k])
  BY <1>1 DEF KnownHeaders, HeadersOf
<1>3. /\ ReadHeader(payload.headers[k]).parsed <=> Known(payload.headers[k])
      /\ ReadHeader(payload.headers[k]).params
            = IF Known(payload.headers[k]) THEN Said(payload.headers[k]) ELSE NoParams
  BY <1>1, HeaderIsRead
<1>4. ReadBefore(k + 1) = IF k \in KnownHeaders(payload)
                          THEN ReadBefore(k) \union {k} ELSE ReadBefore(k)
  BY <1>2 DEF ReadBefore
<1>5. ReadBefore(k) \in SUBSET (0 .. k - 1) /\ k \in Nat
  BY <1>2 DEF ReadBefore
<1> DEFINE f == [j \in ReadBefore(k) |-> Said(payload.headers[j])]
           g == [j \in ReadBefore(k + 1) |-> Said(payload.headers[j])]
<1>6. CASE k \in KnownHeaders(payload)
  <2>1. /\ DOMAIN f = ReadBefore(k) /\ DOMAIN g = ReadBefore(k) \union {k}
        /\ \A j \in ReadBefore(k) : g[j] = f[j]
        /\ g[k] = Said(payload.headers[k])
    BY <1>4, <1>6
  <2>2. LastOf(g) = MergeParams(LastOf(f), g[k])
    <3> HIDE DEF f, g
    <3> QED
      BY <1>5, <2>1, LastOfNext
  <2> QED
    BY <1>2, <1>3, <1>4, <1>6, <2>1, <2>2 DEF ReadParams
<1>7. CASE k \notin KnownHeaders(payload)
  <2>1. ReadParams(k + 1) = ReadParams(k)
    BY <1>4, <1>7 DEF ReadParams
  <2>2. MergeParams(ReadParams(k), NoParams) = ReadParams(k)
    BY LastOfIsFunction, MergeNothing DEF ReadParams
  <2> QED
    BY <1>2, <1>3, <1>4, <1>7, <2>1, <2>2
<1> QED
  BY <1>6, <1>7

\* After the last header everything that the message says was read.
LEMMA ReadAll ==
    ASSUME InboxOK, at \in Heard(at), payload.kind = "headers"
    PROVE  LET end == Len(payload.headers) + 1
           IN  ReadBefore(end) = KnownHeaders(payload) /\ ReadParams(end) = SaidBy(payload)
<1>1. /\ Len(payload.headers) \in Nat /\ DOMAIN payload.headers = 1 .. Len(payload.headers)
  BY PayloadFacts
<1>2. ReadBefore(Len(payload.headers) + 1) = KnownHeaders(payload)
  BY <1>1 DEF ReadBefore, KnownHeaders, HeadersOf
<1> QED
  BY <1>2 DEF ReadParams, SaidBy

\* What is left alone stays as it is.
LEMMA InboxStays ==
    ASSUME inbox' = inbox, NEW n
    PROVE  /\ Heard(n)' = Heard(n) /\ Latest(n)' = Latest(n)
           /\ LatestNumbers(n)' = LatestNumbers(n)
           /\ Errors(n)' = Errors(n) /\ Unread(n)' = Unread(n)
           /\ WithParams(n)' = WithParams(n)
<1>1. Heard(n)' = Heard(n)
  BY DEF Heard
<1>2. Latest(n)' = Latest(n) /\ LatestNumbers(n)' = LatestNumbers(n)
  BY <1>1 DEF Latest, LatestNumbers
<1>3. Errors(n)' = Errors(n) /\ WithParams(n)' = WithParams(n)
  BY <1>1 DEF Errors, WithParams
<1>4. Unread(n)' = Unread(n)
  BY <1>1 DEF Unread
<1> QED
  BY <1>1, <1>2, <1>3, <1>4

\* At first no message was received.
LEMMA InitReadOK == Init => ReadOK
<1> SUFFICES ASSUME Init PROVE ReadOK
  OBVIOUS
<1>1. inbox \in Inboxes /\ at = 0 /\ step = "idle"
  BY DEF Init
<1>2. Len(inbox) \in Nat
  <2>1. inbox \in Seq(Range(inbox))
    BY <1>1, InboxAssumption
  <2> QED
    BY <2>1, LenProperties
<1> QED
  BY <1>1, <1>2 DEF ReadOK, InboxOK

\* A message that is received is one of the device, in a known format, or is done.
LEMMA ReceiveKeepsReadOK == ASSUME ReadOK, Ignore \/ Receive PROVE ReadOK'
<1>1. /\ inbox' = inbox /\ at' = at + 1 /\ at \in Nat /\ at < Len(inbox)
      /\ Len(inbox) \in Nat
  BY InboxFacts DEF Ignore, Receive, ReadOK
<1>2. InboxOK'
  BY <1>1 DEF InboxOK, ReadOK
<1>3. CASE Ignore
  BY <1>2, <1>3 DEF Ignore, ReadOK
<1>4. CASE Receive
  <2>1. /\ step' = IF DetectFormat(inbox[at + 1]) = "unknown" THEN "idle"
                   ELSE DetectFormat(inbox[at + 1])
        /\ params' = NoParams
    BY <1>4 DEF Receive
  <2>2. payload' = inbox[at + 1]
    BY <1>1 DEF payload
  <2>3. at' \in Heard(at)'
    <3>1. at + 1 \in Heard(at + 1)
      BY <1>1, <1>4, HeardNext DEF Receive
    <3> QED
      BY <1>1, <3>1 DEF Heard
  <2>4. /\ step' \in {"idle", "json", "protobuf"}
        /\ step' = "json" => inbox[at + 1].kind \in {"json", "object"}
        /\ step' = "protobuf" => inbox[at + 1].kind = "headers"
    BY <2>1 DEF DetectFormat
  <2> QED
    BY <1>2, <2>1, <2>2, <2>3, <2>4 DEF ReadOK
<1> QED
  BY <1>3, <1>4

\* Decoding a message gives what it says, or nothing when nothing is known.
LEMMA DecodeKeepsReadOK ==
    ASSUME ReadOK, DecodeJson \/ DecodeProtobufMessage \/ DecodeHeader \/ EndHeaders
    PROVE  ReadOK'
<1>1. UNCHANGED <<inbox, at>> /\ payload' = payload
  BY DEF DecodeJson, DecodeProtobufMessage, DecodeHeader, EndHeaders, inputVars, payload
<1>2. InboxOK' /\ (at \in Heard(at))' /\ InboxOK /\ at \in Heard(at)
  BY <1>1 DEF InboxOK, Heard, ReadOK, DecodeJson, DecodeProtobufMessage, DecodeHeader,
              EndHeaders
<1>3. \A k : ReadBefore(k)' = ReadBefore(k) /\ ReadParams(k)' = ReadParams(k)
  BY <1>1 DEF ReadBefore, ReadParams
<1>4. CASE DecodeJson
  <2>1. CASE step' = "idle"
    BY <1>2, <2>1 DEF ReadOK
  <2>2. CASE step' # "idle"
    <3>1. step' = "decoded" /\ payload.kind = "json" /\ params' = payload.params
      BY <1>4, <2>2 DEF DecodeJson
    <3>2. params' = SaidBy(payload) /\ ~Nothing(payload)
      BY <3>1 DEF SaidBy, Nothing
    <3> QED
      BY <1>1, <1>2, <3>1, <3>2 DEF ReadOK
  <2> QED
    BY <2>1, <2>2
<1>5. CASE DecodeProtobufMessage
  <2>1. /\ payload.kind = "headers" /\ step' = "headers" /\ params' = NoParams
        /\ nextHeader' = 1 /\ parsedCount' = 0
    BY <1>5 DEF DecodeProtobufMessage, ReadOK
  <2>2. ReadBefore(1) = {} /\ ReadParams(1) = NoParams
    BY <1>2, <2>1, ReadNone
  <2>3. Len(payload.headers) \in Nat
    BY <1>2, <2>1, PayloadFacts
  <2>4. (ReadBefore(nextHeader) = {} /\ ReadParams(nextHeader) = NoParams)'
    BY <1>1, <2>1, <2>2 DEF ReadBefore, ReadParams
  <2> QED
    BY <1>1, <1>2, <2>1, <2>3, <2>4 DEF ReadOK
<1>6. CASE DecodeHeader
  <2> DEFINE k == nextHeader
             read == ReadHeader(payload.headers[k])
  <2>1. /\ step = "headers" /\ step' = "headers" /\ payload.kind = "headers"
        /\ k \in 1 .. Len(payload.headers) /\ Len(payload.headers) \in Nat
        /\ params = ReadParams(k) /\ parsedCount \in Nat
        /\ parsedCount = 0 <=> ReadBefore(k) = {}
    BY <1>2, <1>6, PayloadFacts DEF DecodeHeader, ReadOK
  <2>2. /\ nextHeader' = k + 1 /\ params' = MergeParams(params, read.params)
        /\ parsedCount' = IF read.parsed THEN parsedCount + 1 ELSE parsedCount
    BY <1>6 DEF DecodeHeader
  <2>3. /\ read.parsed <=> k \in KnownHeaders(payload)
        /\ ReadBefore(k + 1) = IF k \in KnownHeaders(payload)
                               THEN ReadBefore(k) \union {k} ELSE ReadBefore(k)
        /\ ReadParams(k + 1) = MergeParams(ReadParams(k), read.params)
    BY <1>2, <2>1, ReadNext
  <2>4. ReadBefore(nextHeader)' = ReadBefore(k + 1) /\ ReadParams(nextHeader)' = ReadParams(k + 1)
    BY <1>1, <2>2 DEF ReadBefore, ReadParams
  <2> HIDE DEF read
  <2>5. parsedCount' \in Nat /\ (parsedCount' = 0 <=> ReadBefore(k + 1) = {})
    <3>1. CASE k \in KnownHeaders(payload)
      <4>1. parsedCount' = parsedCount + 1 /\ k \in ReadBefore(k + 1)
        BY <2>2, <2>3, <3>1
      <4> QED
        BY <2>1, <4>1
    <3>2. CASE k \notin KnownHeaders(payload)
      BY <2>1, <2>2, <2>3, <3>2
    <3> QED
      BY <3>1, <3>2
  <2>6. nextHeader' \in 1 .. Len(payload.headers) + 1
    BY <2>1, <2>2
  <2>7. params' = ReadParams(k + 1)
    BY <2>1, <2>2, <2>3
  <2> QED
    BY <1>1, <1>2, <2>1, <2>4, <2>5, <2>6, <2>7 DEF ReadOK
<1>7. CASE EndHeaders
  <2>1. /\ payload.kind = "headers" /\ nextHeader = Len(payload.headers) + 1
        /\ params' = params /\ params = ReadParams(nextHeader)
        /\ parsedCount = 0 <=> ReadBefore(nextHeader) = {}
        /\ step' = IF parsedCount = 0 THEN "idle" ELSE "decoded"
    <3>1. payload.kind = "headers"
      BY <1>7 DEF EndHeaders, ReadOK
    <3>2. Len(payload.headers) \in Nat
      BY <1>2, <3>1, PayloadFacts
    <3> QED
      BY <1>7, <3>1, <3>2 DEF EndHeaders, ReadOK, decoderVars
  <2>2. /\ ReadBefore(nextHeader) = KnownHeaders(payload)
        /\ ReadParams(nextHeader) = SaidBy(payload)
    BY <1>2, <2>1, ReadAll
  <2>3. parsedCount = 0 <=> Nothing(payload)
    BY <2>1, <2>2 DEF Nothing
  <2>4. CASE parsedCount = 0
    BY <1>1, <1>2, <2>1, <2>4 DEF ReadOK
  <2>5. CASE parsedCount # 0
    BY <1>1, <1>2, <2>1, <2>2, <2>3, <2>5 DEF ReadOK
  <2> QED
    BY <2>4, <2>5
<1> QED
  BY <1>4, <1>5, <1>6, <1>7

\* So do the steps that use what was decoded.
LEMMA HandleKeepsReadOK ==
    ASSUME ReadOK,
           \/ MergeState \/ Dispatch \/ SetOnline \/ UNCHANGED vars
           \/ \E p \in left : SetSample(p)
    PROVE  ReadOK'
<1>1. UNCHANGED <<inbox, at, params, nextHeader, parsedCount>> /\ payload' = payload
  BY DEF MergeState, Dispatch, SetSample, SetOnline, inputVars, decoderVars, payload, vars
<1>2. InboxOK' /\ (at \in Heard(at) => at \in Heard(at))'
  BY <1>1 DEF InboxOK, ReadOK
<1>3. at' \in Heard(at)' <=> at \in Heard(at)
  BY <1>1 DEF Heard
<1>4. \A k : ReadBefore(k)' = ReadBefore(k) /\ ReadParams(k)' = ReadParams(k)
  BY <1>1 DEF ReadBefore, ReadParams
<1>5. CASE MergeState
  <2>1. step = "decoded" /\ step' = IF params = NoParams THEN "idle" ELSE "merged"
    BY <1>5 DEF MergeState
  <2> QED
    BY <1>1, <1>2, <1>3, <2>1 DEF ReadOK
<1>6. CASE Dispatch
  <2>1. step = "merged" /\ step' = "handling"
    BY <1>6 DEF Dispatch
  <2> QED
    BY <1>1, <1>2, <1>3, <2>1 DEF ReadOK
<1>7. CASE SetOnline
  <2>1. step' = "idle"
    BY <1>7 DEF SetOnline
  <2> QED
    BY <1>1, <1>2, <2>1 DEF ReadOK
<1>8. CASE step' = step
  <2>1. ReadBefore(nextHeader)' = ReadBefore(nextHeader)
        /\ ReadParams(nextHeader)' = ReadParams(nextHeader)
    BY <1>1 DEF ReadBefore, ReadParams
  <2> QED
    BY <1>1, <1>2, <1>3, <1>8, <2>1 DEF ReadOK
<1>9. (\E p \in left : SetSample(p)) \/ UNCHANGED vars => step' = step
  BY DEF SetSample, vars
<1> QED
  BY <1>5, <1>6, <1>7, <1>8, <1>9

\* Every step keeps track of the message in hand.
LEMMA NextReadOK == ReadOK /\ [Next]_vars => ReadOK'
  BY ReceiveKeepsReadOK, DecodeKeepsReadOK, HandleKeepsReadOK DEF Next

-----------------------------------------------------------------------------
(* The state of the device                                                 *)

\* The messages that are done with.
Done == IF step = "idle" THEN at ELSE at - 1

\* The state has what was said until a message that is done, or one that is merged.
StateOK == deviceState = Latest(IF step \in {"merged", "handling"} THEN at ELSE Done)

\* The message in hand is merged into what was said before.
LEMMA InHand ==
    ASSUME InboxOK, at \in Heard(at)
    PROVE  /\ at - 1 \in Nat
           /\ Latest(at) = MergeParams(Latest(at - 1), SaidBy(payload))
           /\ LatestNumbers(at) = MergeParams(LatestNumbers(at - 1), OnlyNumbers(SaidBy(payload)))
           /\ SaidBy(payload) = NoParams =>
                 Latest(at) = Latest(at - 1) /\ LatestNumbers(at) = LatestNumbers(at - 1)
           /\ NumbersAgree(at - 1) => NumbersAgree(at)
<1>1. at - 1 \in Nat /\ (at - 1) + 1 = at
  BY PayloadFacts, InboxFacts
<1>2. payload = inbox[(at - 1) + 1] /\ (at - 1) + 1 \in Heard((at - 1) + 1)
  BY <1>1 DEF payload
<1> DEFINE n == at - 1
<1>3. n \in Nat /\ n + 1 = at /\ payload = inbox[n + 1] /\ n + 1 \in Heard(n + 1)
  BY <1>1, <1>2
<1> HIDE DEF n
<1>4. /\ Latest(n + 1) = MergeParams(Latest(n), SaidBy(inbox[n + 1]))
      /\ LatestNumbers(n + 1) = MergeParams(LatestNumbers(n), OnlyNumbers(SaidBy(inbox[n + 1])))
  BY <1>3, LatestNext
<1>5. SaidBy(inbox[n + 1]) = NoParams =>
         Latest(n + 1) = Latest(n) /\ LatestNumbers(n + 1) = LatestNumbers(n)
  BY <1>3, LatestKept
<1>6. NumbersAgree(n) => NumbersAgree(n + 1)
  BY <1>3, NumbersAgreeNext
<1>7. n = at - 1
  BY DEF n
<1> QED
  BY <1>3, <1>4, <1>5, <1>6, <1>7

\* A message in no known format is one in which nothing is known.
LEMMA UnknownIsNothing == ASSUME NEW m, DetectFormat(m) = "unknown" PROVE Nothing(m)
<1>1. m.kind \notin {"json", "object"} /\ ~(m.kind = "headers" /\ m.headers # <<>>)
  BY Zenon DEF DetectFormat
<1>2. DOMAIN HeadersOf(m) = {}
  BY <1>1 DEF HeadersOf
<1> QED
  BY <1>1, <1>2 DEF Nothing, KnownHeaders

\* A message that ends without being handled has said nothing.
LEMMA DoneQuietly ==
    ASSUME ReadOK, [Next]_vars, ~SetOnline
    PROVE  Latest(Done)' = Latest(Done) /\ LatestNumbers(Done)' = LatestNumbers(Done)
<1>1. inbox' = inbox /\ at \in Nat
  BY InboxFacts
     DEF ReadOK, Next, vars, inputVars, Ignore, Receive, DecodeJson, DecodeProtobufMessage,
         DecodeHeader, EndHeaders, MergeState, Dispatch, SetSample, SetOnline
<1>2. \A n : Latest(n)' = Latest(n) /\ LatestNumbers(n)' = LatestNumbers(n)
  BY <1>1, InboxStays
<1>3. SUFFICES Latest(Done') = Latest(Done) /\ LatestNumbers(Done') = LatestNumbers(Done)
  BY <1>2
<1>4. CASE Ignore
  <2>1. Done = at /\ Done' = at + 1 /\ at + 1 \notin Heard(at + 1)
    BY <1>1, <1>4, HeardNext DEF Ignore, Done
  <2> QED
    BY <1>1, <2>1, LatestKept
<1>5. CASE Receive
  <2>1. Done = at /\ step' = IF DetectFormat(inbox[at + 1]) = "unknown" THEN "idle"
                             ELSE DetectFormat(inbox[at + 1])
    BY <1>5 DEF Receive, Done
  <2>2. at' = at + 1
    BY <1>5 DEF Receive
  <2>3. CASE step' = "idle"
    <3>1. DetectFormat(inbox[at + 1]) = "unknown"
      BY <2>1, <2>3 DEF DetectFormat
    <3>2. SaidBy(inbox[at + 1]) = NoParams
      BY <3>1, UnknownIsNothing, NothingIsSaid
    <3>3. Done' = at + 1
      BY <2>2, <2>3 DEF Done
    <3> QED
      BY <1>1, <2>1, <3>2, <3>3, LatestKept
  <2>4. CASE step' # "idle"
    BY <1>1, <2>1, <2>2, <2>4 DEF Done
  <2> QED
    BY <2>3, <2>4
<1>6. CASE DecodeJson \/ DecodeProtobufMessage \/ DecodeHeader \/ EndHeaders \/ MergeState
  <2>1. at' = at /\ step # "idle" /\ at \in Heard(at)
    BY <1>6 DEF ReadOK, inputVars, DecodeJson, DecodeProtobufMessage, DecodeHeader,
                EndHeaders, MergeState
  <2>2. CASE step' = "idle"
    <3>1. SaidBy(payload) = NoParams
      <4>1. CASE DecodeJson
        <5>1. payload.kind = "object"
          BY <2>2, <4>1 DEF DecodeJson
        <5>2. Nothing(payload)
          BY <5>1 DEF Nothing, KnownHeaders, HeadersOf
        <5> QED
          BY <5>2, NothingIsSaid
      <4>2. CASE EndHeaders
        <5>1. /\ payload.kind = "headers" /\ parsedCount = 0 /\ InboxOK
              /\ nextHeader \in 1 .. Len(payload.headers) + 1
              /\ nextHeader > Len(payload.headers)
              /\ ReadBefore(nextHeader) = {}
          BY <2>2, <4>2 DEF EndHeaders, ReadOK
        <5>2. nextHeader = Len(payload.headers) + 1
          BY <2>1, <5>1, PayloadFacts
        <5>3. KnownHeaders(payload) = {}
          BY <2>1, <5>1, <5>2, ReadAll
        <5> QED
          BY <5>1, <5>3, NothingIsSaid DEF Nothing
      <4>3. CASE MergeState
        BY <2>2, <4>3 DEF MergeState, ReadOK
      <4> QED
        BY <1>6, <2>2, <4>1, <4>2, <4>3 DEF DecodeProtobufMessage, DecodeHeader
    <3>2. Done = at - 1 /\ Done' = at
      BY <2>1, <2>2 DEF Done
    <3> QED
      BY <2>1, <3>1, <3>2, InHand DEF ReadOK
  <2>3. CASE step' # "idle"
    BY <2>1, <2>3 DEF Done
  <2> QED
    BY <2>2, <2>3
<1>7. CASE Dispatch \/ (\E p \in left : SetSample(p)) \/ UNCHANGED vars
  BY <1>7 DEF Dispatch, SetSample, vars, inputVars, Done
<1> QED
  BY <1>4, <1>5, <1>6, <1>7 DEF Next

\* Every step keeps the state.
LEMMA NextStateOK == ReadOK /\ StateOK /\ [Next]_vars => StateOK'
<1> SUFFICES ASSUME ReadOK, StateOK, [Next]_vars PROVE StateOK'
  OBVIOUS
<1>1. CASE MergeState
  <2>1. /\ step = "decoded" /\ deviceState' = MergeParams(deviceState, params)
        /\ step' = IF params = NoParams THEN "idle" ELSE "merged"
        /\ at' = at /\ inbox' = inbox
    BY <1>1 DEF MergeState, inputVars
  <2>2. at \in Heard(at) /\ params = SaidBy(payload) /\ InboxOK
    BY <2>1 DEF ReadOK
  <2>3. deviceState = Latest(at - 1)
    BY <2>1 DEF StateOK, Done
  <2>4. deviceState' = Latest(at)
    BY <2>1, <2>2, <2>3, InHand
  <2>5. (IF step \in {"merged", "handling"} THEN at ELSE Done)' = at
    BY <2>1 DEF Done
  <2>6. Latest(at)' = Latest(at)
    BY <2>1, InboxStays
  <2> QED
    BY <2>1, <2>4, <2>5, <2>6 DEF StateOK
<1>2. CASE SetOnline
  <2>1. step = "handling" /\ step' = "idle" /\ UNCHANGED <<deviceState, at, inbox>>
    BY <1>2 DEF SetOnline, inputVars
  <2>2. Latest(at)' = Latest(at)
    BY <2>1, InboxStays
  <2> QED
    BY <2>1, <2>2 DEF StateOK, Done
<1>3. CASE Dispatch \/ (\E p \in left : SetSample(p))
  <2>1. /\ step \in {"merged", "handling"} /\ step' = "handling"
        /\ UNCHANGED <<deviceState, at, inbox>>
    BY <1>3 DEF Dispatch, SetSample, inputVars
  <2>2. Latest(at)' = Latest(at)
    BY <2>1, InboxStays
  <2> QED
    BY <2>1, <2>2 DEF StateOK
<1>4. CASE \/ Ignore \/ Receive \/ DecodeJson \/ DecodeProtobufMessage \/ DecodeHeader
           \/ EndHeaders
  <2>1. /\ deviceState' = deviceState /\ step \notin {"merged", "handling"}
        /\ step' \notin {"merged", "handling"}
    BY <1>4 DEF Ignore, Receive, DetectFormat, DecodeJson, DecodeProtobufMessage,
                DecodeHeader, EndHeaders, ReadOK
  <2>2. Latest(Done)' = Latest(Done)
    BY <1>4, DoneQuietly
       DEF SetOnline, Ignore, Receive, DecodeJson, DecodeProtobufMessage, DecodeHeader,
           EndHeaders
  <2> QED
    BY <2>1, <2>2 DEF StateOK
<1>5. CASE UNCHANGED vars
  <2>1. UNCHANGED <<deviceState, at, inbox, step>>
    BY <1>5 DEF vars, inputVars
  <2>2. \A n : Latest(n)' = Latest(n)
    BY <2>1, InboxStays
  <2> QED
    BY <2>1, <2>2 DEF StateOK, Done
<1> QED
  BY <1>1, <1>2, <1>3, <1>4, <1>5 DEF Next

-----------------------------------------------------------------------------
(* The metrics                                                             *)

\* Between two writes: a metric has a value that was written for this message,
\* or, if nothing was written for its name, the last number before it.
HandlingOK ==
    LET written == Samples(deviceState) \ left
        before  == LatestNumbers(at - 1)
    IN /\ left \subseteq Samples(deviceState)
       /\ \A p \in written : MetricName(p) \in DOMAIN metrics
       /\ \A name \in DOMAIN metrics \ {OnlineName} :
             \/ \E p \in written : MetricName(p) = name /\ metrics[name] = deviceState[p].v
             \/ /\ \A p \in written : MetricName(p) # name
                /\ \E p \in Named(before, name) : metrics[name] = before[p].v

ShownOK ==
    /\ NumbersAgree(Done)
    /\ step # "handling" => Explained(Done)
    /\ step = "handling" => HandlingOK

\* What explains a metric is a number that was the last one of its parameter.
LEMMA FromNumbers ==
    ASSUME NEW n, NumbersAgree(n), Explained(n), NEW name \in DOMAIN metrics \ {OnlineName}
    PROVE  \E p \in Named(LatestNumbers(n), name) : metrics[name] = LatestNumbers(n)[p].v
<1>1. PICK p \in Named(Sources(n, name), name) : metrics[name] = Sources(n, name)[p].v
  BY DEF Explained
<1>2. CASE Sources(n, name) = LatestNumbers(n)
  BY <1>1, <1>2
<1>3. CASE Sources(n, name) = OnlyNumbers(Latest(n))
  <2>1. /\ p \in DOMAIN Latest(n) /\ Latest(n)[p].kind # "other"
        /\ OnlyNumbers(Latest(n))[p] = Latest(n)[p]
        /\ HasMetricName(p) /\ MetricName(p) = name
    BY <1>1, <1>3 DEF Named, OnlyNumbers
  <2>2. p \in DOMAIN LatestNumbers(n) /\ LatestNumbers(n)[p] = Latest(n)[p]
    BY <2>1 DEF NumbersAgree
  <2> QED
    BY <1>1, <1>3, <2>1, <2>2 DEF Named
<1> QED
  BY <1>2, <1>3 DEF Sources

\* What was said are parameters.
LEMMA LatestIsParams ==
    ASSUME InboxOK, NEW n \in 0 .. Len(inbox)
    PROVE  IsParams(Latest(n))
<1> DEFINE f == [i \in Heard(n) |-> SaidBy(inbox[i])]
<1>1. n \in Nat /\ Heard(n) \subseteq 1 .. n /\ n <= Len(inbox) /\ Len(inbox) \in Nat
  BY InboxFacts, HeardNext
<1>2. DOMAIN f \subseteq 0 .. n /\ \A i \in DOMAIN f : IsParams(f[i])
  BY <1>1, InboxFacts
<1>3. IsParams(LastOf(f))
  <2> HIDE DEF f
  <2> QED
    BY <1>1, <1>2, LastOfIsParams
<1> QED
  BY <1>3 DEF Latest

\* The samples are the named numbers of the state.
LEMMA SamplesAreNumbers ==
    ASSUME NEW ps, IsParams(ps)
    PROVE  \A p : p \in Samples(ps) <=> p \in DOMAIN OnlyNumbers(ps) /\ HasMetricName(p)
  BY DEF IsParams, Samples, OnlyNumbers, Numeric

\* When the last sample is written the message in hand explains the metrics.
LEMMA HandledIsExplained ==
    ASSUME ReadOK, StateOK, ShownOK, SetOnline
    PROVE  Explained(at)'
<1>1. /\ step = "handling" /\ left = {} /\ metrics' = Put(metrics, OnlineName, 1)
      /\ at' = at /\ inbox' = inbox
  BY DEF SetOnline, inputVars
<1>2. at \in Heard(at) /\ InboxOK /\ deviceState = Latest(at) /\ HandlingOK /\ at \in Nat
  BY <1>1, InboxFacts DEF ReadOK, StateOK, ShownOK
<1> DEFINE latest == Latest(at)
           numbers == LatestNumbers(at)
           before == LatestNumbers(at - 1)
           said == OnlyNumbers(SaidBy(payload))
<1>3. Latest(at)' = latest /\ LatestNumbers(at)' = numbers
  BY <1>1, InboxStays
<1>4. \A p : p \in Samples(latest) <=> p \in DOMAIN OnlyNumbers(latest) /\ HasMetricName(p)
  <2>1. at \in 0 .. Len(inbox)
    BY <1>2 DEF InboxOK
  <2> QED
    BY <1>2, <2>1, LatestIsParams, SamplesAreNumbers
<1>5. \A p \in Samples(latest) : MetricName(p) \in DOMAIN metrics
  BY <1>1, <1>2 DEF HandlingOK
<1>6. /\ DOMAIN metrics' = {OnlineName} \union DOMAIN metrics /\ metrics'[OnlineName] = 1
      /\ \A name \in DOMAIN metrics \ {OnlineName} : metrics'[name] = metrics[name]
  BY <1>1 DEF Put
<1>7. numbers = MergeParams(before, said) /\ latest = MergeParams(Latest(at - 1), SaidBy(payload))
  BY <1>2, InHand
<1> DEFINE sources(name) ==
              IF Named(OnlyNumbers(latest), name) # {} THEN OnlyNumbers(latest) ELSE numbers
<1>8. ASSUME NEW name \in DOMAIN metrics \ {OnlineName}
      PROVE  \E p \in Named(sources(name), name) : metrics[name] = sources(name)[p].v
  <2>1. CASE \E p \in Samples(latest) : MetricName(p) = name /\ metrics[name] = latest[p].v
    <3>1. PICK p \in Samples(latest) : MetricName(p) = name /\ metrics[name] = latest[p].v
      BY <2>1
    <3>2. p \in Named(OnlyNumbers(latest), name) /\ OnlyNumbers(latest)[p] = latest[p]
      <4>1. p \in DOMAIN OnlyNumbers(latest) /\ HasMetricName(p)
        BY <1>4
      <4> QED
        BY <3>1, <4>1 DEF Named, OnlyNumbers
    <3>3. sources(name) = OnlyNumbers(latest)
      BY <3>2
    <3> QED
      BY <3>1, <3>2, <3>3
  <2>2. CASE /\ \A p \in Samples(latest) : MetricName(p) # name
             /\ \E p \in Named(before, name) : metrics[name] = before[p].v
    <3>1. Named(OnlyNumbers(latest), name) = {}
      BY <1>4, <2>2 DEF Named
    <3>2. PICK p \in Named(before, name) : metrics[name] = before[p].v
      BY <2>2
    <3>3. p \in DOMAIN before /\ HasMetricName(p) /\ MetricName(p) = name
      BY <3>2 DEF Named
    <3>4. p \notin DOMAIN said
      <4> SUFFICES ASSUME p \in DOMAIN said PROVE FALSE
        OBVIOUS
      <4>1. p \in DOMAIN SaidBy(payload) /\ SaidBy(payload)[p].kind # "other"
        BY DEF OnlyNumbers
      <4>2. p \in DOMAIN latest /\ latest[p] = SaidBy(payload)[p]
        BY <1>7, <4>1 DEF MergeParams
      <4>3. p \in DOMAIN OnlyNumbers(latest)
        BY <4>1, <4>2 DEF OnlyNumbers
      <4> QED
        BY <3>1, <3>3, <4>3 DEF Named
    <3>5. p \in DOMAIN numbers /\ numbers[p] = before[p]
      BY <1>7, <3>3, <3>4 DEF MergeParams
    <3>6. p \in Named(numbers, name)
      BY <3>3, <3>5 DEF Named
    <3>7. sources(name) = numbers
      BY <3>1
    <3> HIDE DEF numbers, before
    <3> QED
      BY <3>2, <3>5, <3>6, <3>7
  <2> QED
    BY <1>1, <1>2, <2>1, <2>2 DEF HandlingOK
<1>9. \A name : Sources(at, name)' = sources(name)
  BY <1>3 DEF Sources
<1> HIDE DEF sources, latest, numbers, before
<1>10. /\ \A p \in DOMAIN OnlyNumbers(latest) : HasMetricName(p) => MetricName(p) \in DOMAIN metrics'
       /\ \A name \in DOMAIN metrics' \ {OnlineName} :
             \E p \in Named(sources(name), name) : metrics'[name] = sources(name)[p].v
       /\ OnlineName \in DOMAIN metrics' => metrics'[OnlineName] = 1
  BY <1>4, <1>5, <1>6, <1>8
<1> QED
  BY <1>3, <1>9, <1>10 DEF Explained

\* The state's samples begin to be written: nothing has been for this message.
LEMMA DispatchKeepsShownOK == ASSUME ReadOK, StateOK, ShownOK, Dispatch PROVE ShownOK'
<1>1. /\ step = "merged" /\ step' = "handling" /\ left' = Samples(deviceState)
      /\ UNCHANGED <<inbox, at, deviceState, metrics>>
  BY DEF Dispatch, inputVars
<1>2. Done = at - 1 /\ Done' = at - 1 /\ NumbersAgree(at - 1) /\ Explained(at - 1)
  BY <1>1 DEF Done, ShownOK
<1>3. \A n : Latest(n)' = Latest(n) /\ LatestNumbers(n)' = LatestNumbers(n)
  BY <1>1, InboxStays
<1>4. NumbersAgree(Done)'
  BY <1>2, <1>3 DEF NumbersAgree
<1>5. \A name \in DOMAIN metrics \ {OnlineName} :
         \E p \in Named(LatestNumbers(at - 1), name) :
             metrics[name] = LatestNumbers(at - 1)[p].v
  BY <1>2, FromNumbers
<1>6. Samples(deviceState') \ left' = {}
  BY <1>1
<1>7. HandlingOK'
  BY <1>1, <1>3, <1>5, <1>6 DEF HandlingOK
<1> QED
  BY <1>1, <1>4, <1>7 DEF ShownOK

\* A sample is written: the others keep what explains them.
LEMMA SampleKeepsShownOK ==
    ASSUME ReadOK, StateOK, ShownOK, NEW s \in left, SetSample(s)
    PROVE  ShownOK'
<1>1. /\ step = "handling" /\ step' = "handling" /\ left' = left \ {s}
      /\ metrics' = Put(metrics, MetricName(s), deviceState[s].v)
      /\ UNCHANGED <<inbox, at, deviceState>>
  BY DEF SetSample, inputVars
<1>2. Done = at - 1 /\ Done' = at - 1 /\ NumbersAgree(at - 1) /\ HandlingOK
  BY <1>1 DEF Done, ShownOK
<1>3. \A n : Latest(n)' = Latest(n) /\ LatestNumbers(n)' = LatestNumbers(n)
  BY <1>1, InboxStays
<1>4. NumbersAgree(Done)'
  BY <1>2, <1>3 DEF NumbersAgree
<1> DEFINE written == Samples(deviceState) \ left
           before == LatestNumbers(at - 1)
<1>5. /\ s \in Samples(deviceState)
      /\ Samples(deviceState') \ left' = written \union {s}
  BY <1>1, <1>2 DEF HandlingOK
<1>6. /\ DOMAIN metrics' = DOMAIN metrics \union {MetricName(s)}
      /\ metrics'[MetricName(s)] = deviceState[s].v
      /\ \A name \in DOMAIN metrics \ {MetricName(s)} : metrics'[name] = metrics[name]
  BY <1>1 DEF Put
<1>7. /\ left \subseteq Samples(deviceState)
      /\ \A p \in written : MetricName(p) \in DOMAIN metrics
      /\ \A name \in DOMAIN metrics \ {OnlineName} :
            \/ \E p \in written : MetricName(p) = name /\ metrics[name] = deviceState[p].v
            \/ /\ \A p \in written : MetricName(p) # name
               /\ \E p \in Named(before, name) : metrics[name] = before[p].v
  BY <1>2 DEF HandlingOK
<1> DEFINE now == written \union {s}
<1>8. ASSUME NEW name \in DOMAIN metrics' \ {OnlineName}
      PROVE  \/ \E p \in now : MetricName(p) = name /\ metrics'[name] = deviceState[p].v
             \/ /\ \A p \in now : MetricName(p) # name
                /\ \E p \in Named(before, name) : metrics'[name] = before[p].v
  <2> HIDE DEF written, before
  <2>1. CASE name = MetricName(s)
    BY <1>6, <2>1
  <2>2. CASE name # MetricName(s)
    <3>1. name \in DOMAIN metrics \ {OnlineName} /\ metrics'[name] = metrics[name]
      BY <1>6, <2>2
    <3> QED
      BY <1>7, <2>2, <3>1
  <2> QED
    BY <2>1, <2>2
<1>9. \A p \in now : MetricName(p) \in DOMAIN metrics'
  BY <1>6, <1>7
<1>10. left' \subseteq Samples(deviceState') /\ before' = before
  BY <1>1, <1>3, <1>7
<1> HIDE DEF before
<1>11. Samples(deviceState)' \ left' = now /\ deviceState' = deviceState
  BY <1>1, <1>5
<1> HIDE DEF now, written
<1>12. HandlingOK'
  BY <1>8, <1>9, <1>10, <1>11 DEF HandlingOK, before
<1> QED
  BY <1>1, <1>4, <1>12 DEF ShownOK

\* Every step keeps the metrics explained.
LEMMA NextShownOK == ReadOK /\ StateOK /\ ShownOK /\ [Next]_vars => ShownOK'
<1> SUFFICES ASSUME ReadOK, StateOK, ShownOK, [Next]_vars PROVE ShownOK'
  OBVIOUS
<1>1. CASE SetOnline
  <2>1. /\ step = "handling" /\ step' = "idle" /\ UNCHANGED <<inbox, at>>
        /\ at \in Heard(at) /\ InboxOK
    BY <1>1 DEF SetOnline, inputVars, ReadOK
  <2>2. Done = at - 1 /\ Done' = at
    BY <2>1 DEF Done
  <2>3. NumbersAgree(at)
    BY <2>1, <2>2, InHand DEF ShownOK
  <2>4. NumbersAgree(Done)'
    <3>1. Latest(at)' = Latest(at) /\ LatestNumbers(at)' = LatestNumbers(at)
      BY <2>1, InboxStays
    <3> QED
      BY <2>1, <2>2, <2>3, <3>1 DEF NumbersAgree
  <2>5. Explained(Done)'
    BY <1>1, <2>1, <2>2, HandledIsExplained DEF Done
  <2> QED
    BY <2>1, <2>4, <2>5 DEF ShownOK
<1>2. CASE Dispatch
  BY <1>2, DispatchKeepsShownOK
<1>3. CASE \E s \in left : SetSample(s)
  BY <1>3, SampleKeepsShownOK
<1>4. CASE \/ Ignore \/ Receive \/ DecodeJson \/ DecodeProtobufMessage \/ DecodeHeader
           \/ EndHeaders \/ MergeState
  <2>1. metrics' = metrics /\ step # "handling" /\ step' # "handling"
    BY <1>4 DEF Ignore, Receive, DetectFormat, DecodeJson, DecodeProtobufMessage,
                DecodeHeader, EndHeaders, MergeState
  <2>2. Latest(Done)' = Latest(Done) /\ LatestNumbers(Done)' = LatestNumbers(Done)
    BY <1>4, DoneQuietly
       DEF SetOnline, Ignore, Receive, DecodeJson, DecodeProtobufMessage, DecodeHeader,
           EndHeaders, MergeState
  <2>3. NumbersAgree(Done)'
    BY <2>2 DEF NumbersAgree, ShownOK
  <2>4. Explained(Done)'
    BY <2>1, <2>2 DEF Explained, Sources, ShownOK
  <2> QED
    BY <2>1, <2>3, <2>4 DEF ShownOK
<1>5. CASE UNCHANGED vars
  <2>1. UNCHANGED <<deviceState, at, inbox, step, metrics, left>>
    BY <1>5 DEF vars, inputVars
  <2>2. \A n : Latest(n)' = Latest(n) /\ LatestNumbers(n)' = LatestNumbers(n)
    BY <2>1, InboxStays
  <2>3. Done' = Done
    BY <2>1 DEF Done
  <2>4. NumbersAgree(Done)'
    BY <2>2, <2>3 DEF NumbersAgree, ShownOK
  <2>5. step' # "handling" => Explained(Done)'
    BY <2>1, <2>2, <2>3 DEF Explained, Sources, ShownOK
  <2>6. step' = "handling" => HandlingOK'
    BY <2>1, <2>2 DEF HandlingOK, ShownOK
  <2> QED
    BY <2>4, <2>5, <2>6 DEF ShownOK
<1> QED
  BY <1>1, <1>2, <1>3, <1>4, <1>5 DEF Next

\* At first there is neither a state nor a metric.
LEMMA InitShownOK == Init => StateOK /\ ShownOK
<1> SUFFICES ASSUME Init PROVE StateOK /\ ShownOK
  OBVIOUS
<1>1. /\ at = 0 /\ step = "idle" /\ deviceState = NoParams /\ metrics = NoParams
      /\ Done = 0
  BY DEF Init, Done
<1>2. Latest(0) = NoParams /\ LatestNumbers(0) = NoParams
  <2> DEFINE f == [i \in Heard(0) |-> SaidBy(inbox[i])]
             g == [i \in Heard(0) |-> OnlyNumbers(SaidBy(inbox[i]))]
  <2>1. DOMAIN f = {} /\ DOMAIN g = {}
    BY DEF Heard
  <2>2. LastOf(f) = NoParams /\ LastOf(g) = NoParams
    <3> HIDE DEF f, g
    <3> QED
      BY <2>1, LastOfNothing
  <2> QED
    BY <2>2 DEF Latest, LatestNumbers
<1>3. DOMAIN NoParams = {}
  BY Zenon DEF NoParams, AsParams, NamedFields
<1>4. NumbersAgree(0) /\ Explained(0)
  BY <1>1, <1>2, <1>3 DEF NumbersAgree, Explained, OnlyNumbers
<1> QED
  BY <1>1, <1>2, <1>4 DEF StateOK, ShownOK

\* What is exposed is explained by the messages that came, whatever they are:
\* every number the device sent last has its metric, and a metric shows the
\* latest number of a parameter that has its name.
THEOREM WhatIsSaidIsShown == Spec => []ExposedExplained
<1> DEFINE Inv == ReadOK /\ StateOK /\ ShownOK
<1>1. Init => Inv
  BY InitReadOK, InitShownOK
<1>2. Inv /\ [Next]_vars => Inv'
  BY NextReadOK, NextStateOK, NextShownOK
<1>3. Inv => ExposedExplained
  BY DEF ExposedExplained, ShownOK, Done
<1> QED
  BY <1>1, <1>2, <1>3, PTL DEF Spec

\* A metric name is one that Prometheus accepts, and has the words of the
\* parameter it came from, whatever runes its name has.
THEOREM NamesKeepTheirWords == Spec => []NamesKeepWords
<1> DEFINE Inv == ReadOK /\ StateOK
<1>1. Init => Inv
  BY InitReadOK, InitShownOK
<1>2. Inv /\ [Next]_vars => Inv'
  BY NextReadOK, NextStateOK
<1>3. Inv => NamesKeepWords
  <2> SUFFICES ASSUME Inv, step = "handling", NEW p \in DOMAIN deviceState
               PROVE  /\ \A i \in DOMAIN MetricName(p) : /\ IsMetricNameRune(MetricName(p)[i])
                                                         /\ ~IsUpper(MetricName(p)[i])
                      /\ SameWords(MetricName(p), p)
    BY DEF NamesKeepWords
  <2>1. IsParams(deviceState)
    <3>1. deviceState = Latest(at) /\ InboxOK /\ at \in 0 .. Len(inbox)
      BY DEF StateOK, ReadOK, InboxOK
    <3> QED
      BY <3>1, LatestIsParams
  <2>2. p \in Seq(Range(p))
    BY <2>1 DEF IsParams, IsName
  <2>3. MetricName(p) \in Seq(NameRunes) /\ SameWords(MetricName(p), p)
    BY <2>2, NameKeepsWords
  <2> DEFINE name == MetricName(p)
  <2> HIDE DEF name
  <2>4. \A i \in DOMAIN name : name[i] \in NameRunes
    BY <2>3, LenProperties, ElementOfSeq DEF name
  <2>5. \A r \in NameRunes : IsMetricNameRune(r) /\ ~IsUpper(r)
    BY DEF NameRunes, IsMetricNameRune
  <2> QED
    BY <2>3, <2>4, <2>5 DEF name
<1> QED
  BY <1>1, <1>2, <1>3, PTL DEF Spec

-----------------------------------------------------------------------------
(* Battery packs                                                           *)

\* The powers of ten.
LEMMA PowersOfTen ==
    /\ \A k \in 1 .. 10 : Power[k] \in Nat \ {0}
    /\ Power[1] = 1 /\ Power[2] = 10 /\ Power[3] = 100 /\ Power[4] = 1000
    /\ Power[5] = 10000 /\ Power[6] = 100000 /\ Power[7] = 1000000
    /\ Power[8] = 10000000 /\ Power[9] = 100000000 /\ Power[10] = 1000000000
  BY DEF Power

\* Digits tell their values apart.
LEMMA DigitsDiffer ==
    /\ \A x, y \in 1 .. 10 : Digit[x] = Digit[y] => x = y
    /\ \A x \in 1 .. 10 : Digit[x] \in Digits
    /\ \A r \in Digits : r # "_" /\ ~IsUpper(r) /\ ToNameRune(r) = r
    /\ Digits = {"0", "1", "2", "3", "4", "5", "6", "7", "8", "9"}
<1>1. /\ Digit[1] = "0" /\ Digit[2] = "1" /\ Digit[3] = "2" /\ Digit[4] = "3"
      /\ Digit[5] = "4" /\ Digit[6] = "5" /\ Digit[7] = "6" /\ Digit[8] = "7"
      /\ Digit[9] = "8" /\ Digit[10] = "9"
  BY DEF Digit
<1>2. \A x \in 1 .. 10 : x \in {1, 2, 3, 4, 5, 6, 7, 8, 9, 10}
  OBVIOUS
<1>3. \A x, y \in 1 .. 10 : Digit[x] = Digit[y] => x = y
  BY <1>1, <1>2
<1>4. Digits = {"0", "1", "2", "3", "4", "5", "6", "7", "8", "9"}
  BY <1>1, <1>2 DEF Digits
<1>5. \A r \in Digits : r # "_" /\ ~IsUpper(r)
  BY <1>4 DEF IsUpper, LowerOf
<1>6. \A r \in Digits : ToNameRune(r) = r
  BY <1>5 DEF ToNameRune, ToLower, IsMetricNameRune, LetterOrDigit
<1> QED
  BY <1>3, <1>4, <1>5, <1>6 DEF Digits

\* Numbers of 32 bits.
IsUint32(n) == n \in Nat /\ n \div 65536 < 65536

\* Two numbers of ten digits that agree in every digit are the same.
LEMMA SameDigits ==
    ASSUME NEW a, IsUint32(a), NEW b, IsUint32(b),
           \A k \in 1 .. 10 : (a \div Power[k]) % 10 = (b \div Power[k]) % 10
    PROVE  a = b
<1>1. a \in Nat /\ b \in Nat /\ a < 4294967296 /\ b < 4294967296
  BY DEF IsUint32
<1>2. \A x, y \in Nat : x \div 10 = y \div 10 /\ x % 10 = y % 10 => x = y
  OBVIOUS
<1>3. ASSUME NEW n \in Nat
      PROVE  /\ (n \div 100000000) \div 10 = n \div 1000000000
             /\ (n \div 10000000) \div 10 = n \div 100000000
             /\ (n \div 1000000) \div 10 = n \div 10000000
             /\ (n \div 100000) \div 10 = n \div 1000000
             /\ (n \div 10000) \div 10 = n \div 100000
             /\ (n \div 1000) \div 10 = n \div 10000
             /\ (n \div 100) \div 10 = n \div 1000
             /\ (n \div 10) \div 10 = n \div 100
             /\ n \div 1 = n
  OBVIOUS
<1>4. \A k \in 1 .. 10 : a \div Power[k] \in Nat /\ b \div Power[k] \in Nat
  BY <1>1, PowersOfTen
<1>5. a \div Power[10] = b \div Power[10]
  <2>1. \A n \in Nat : n < 4294967296 => (n \div 1000000000) % 10 = n \div 1000000000
    OBVIOUS
  <2> QED
    BY <1>1, <2>1, PowersOfTen
<1>6. ASSUME NEW k \in 1 .. 9, a \div Power[k + 1] = b \div Power[k + 1]
      PROVE  a \div Power[k] = b \div Power[k]
  <2>1. \A n \in Nat : (n \div Power[k]) \div 10 = n \div Power[k + 1]
    <3>1. k \in {1, 2, 3, 4, 5, 6, 7, 8, 9}
      OBVIOUS
    <3>2. /\ 1 + 1 = 2 /\ 2 + 1 = 3 /\ 3 + 1 = 4 /\ 4 + 1 = 5 /\ 5 + 1 = 6 /\ 6 + 1 = 7
          /\ 7 + 1 = 8 /\ 8 + 1 = 9 /\ 9 + 1 = 10
      OBVIOUS
    <3> QED
      BY <1>3, <3>1, <3>2, PowersOfTen
  <2> DEFINE x == a \div Power[k]
             y == b \div Power[k]
  <2>2. x \in Nat /\ y \in Nat /\ x \div 10 = y \div 10 /\ x % 10 = y % 10
    BY <1>1, <1>4, <1>6, <2>1
  <2> HIDE DEF x, y
  <2> QED
    BY <1>2, <2>2 DEF x, y
<1> DEFINE Same(k) == a \div Power[k] = b \div Power[k]
<1>7. Same(10) /\ \A k \in 1 .. 9 : Same(k + 1) => Same(k)
  BY <1>5, <1>6
<1>8. Same(1)
  <2> HIDE DEF Same
  <2>1. \A k \in 1 .. 9 : Same(k + 1) => Same(k)
    BY <1>7
  <2>2. /\ 1 + 1 = 2 /\ 2 + 1 = 3 /\ 3 + 1 = 4 /\ 4 + 1 = 5 /\ 5 + 1 = 6 /\ 6 + 1 = 7
        /\ 7 + 1 = 8 /\ 8 + 1 = 9 /\ 9 + 1 = 10
    OBVIOUS
  <2>3. Same(9) /\ (Same(9) => Same(8)) /\ (Same(8) => Same(7)) /\ (Same(7) => Same(6))
        /\ (Same(6) => Same(5)) /\ (Same(5) => Same(4)) /\ (Same(4) => Same(3))
        /\ (Same(3) => Same(2)) /\ (Same(2) => Same(1))
    BY <1>7, <2>1, <2>2
  <2> QED
    BY <2>3
<1> QED
  BY <1>1, <1>3, <1>8, PowersOfTen

\* So the numbers of packs have different digits.
LEMMA DecimalsDiffer ==
    ASSUME NEW a, IsUint32(a), NEW b, IsUint32(b), Decimal(a) = Decimal(b)
    PROVE  a = b
<1> DEFINE w == Width(a)
           At(n, k) == (n \div Power[k]) % 10
<1>1. Width(b) = w /\ w \in 1 .. 10
  <2>1. DOMAIN Decimal(a) = 1 .. Width(a) /\ DOMAIN Decimal(b) = 1 .. Width(b)
    BY Zenon DEF Decimal
  <2>2. 1 .. Width(a) = 1 .. Width(b)
    BY <2>1
  <2> QED
    BY <2>2, WidthIs
<1>2. a \in Nat /\ b \in Nat
  BY DEF IsUint32
<1>3. \A n \in Nat : \A k \in 1 .. 10 : At(n, k) \in 0 .. 9
  <2>1. \A n \in Nat : \A k \in 1 .. 10 : n \div Power[k] \in Nat
    BY PowersOfTen
  <2>2. \A x \in Nat : x % 10 \in 0 .. 9
    OBVIOUS
  <2> QED
    BY <2>1, <2>2
<1>4. ASSUME NEW k \in 1 .. w PROVE At(a, k) = At(b, k)
  <2> DEFINE i == w - k + 1
  <2>1. i \in 1 .. w /\ w - i + 1 = k
    BY <1>1
  <2> HIDE DEF i
  <2>2. Decimal(a)[i] = Digit[At(a, k) + 1]
    BY <1>1, <2>1 DEF Decimal
  <2>3. Decimal(b)[i] = Digit[At(b, k) + 1]
    BY <1>1, <2>1 DEF Decimal
  <2>4. At(a, k) \in 0 .. 9 /\ At(b, k) \in 0 .. 9
    BY <1>1, <1>2, <1>3
  <2> HIDE DEF At
  <2>5. Digit[At(a, k) + 1] = Digit[At(b, k) + 1]
    BY <2>2, <2>3
  <2>6. At(a, k) + 1 \in 1 .. 10 /\ At(b, k) + 1 \in 1 .. 10
    BY <2>4
  <2>7. At(a, k) + 1 = At(b, k) + 1
    BY <2>5, <2>6, DigitsDiffer
  <2> QED
    BY <2>4, <2>7
<1>5. ASSUME NEW k \in 1 .. 10, k \notin 1 .. w PROVE At(a, k) = At(b, k)
  <2>1. a < Power[k] /\ b < Power[k]
    BY <1>1, <1>2, <1>5, WidthIs, PowersOfTen
  <2>2. a \div Power[k] = 0 /\ b \div Power[k] = 0
    BY <1>2, <2>1, PowersOfTen
  <2> QED
    BY <2>2
<1> QED
  BY <1>1, <1>4, <1>5, SameDigits

\* No capital of the first k runes gets an underscore.
NoHump(s, k) == \A i \in 1 .. k : ~IsUpper(s[i]) \/ i = 1 \/ ToNameRune(s[i - 1]) = "_"

\* v is what the first n runes of s become, the first k of them one by one.
Fits(v, s, k, n) ==
    /\ v \in Seq(NameRunes) /\ Len(v) >= n /\ (n <= k => Len(v) = n)
    /\ \A i \in 1 .. k : i <= n => v[i] = ToNameRune(s[i])

\* So it is after a rune more.
LEMMA FitsNext ==
    ASSUME NEW s, NEW k \in Nat, NEW n \in Nat, NEW v, Fits(v, s, k, n), NEW r, r = s[n + 1]
    PROVE  /\ Fits(Append(v, ToNameRune(r)), s, k, n + 1)
           /\ n + 1 > k => Fits(Append(Append(v, "_"), ToNameRune(r)), s, k, n + 1)
<1> DEFINE x == ToNameRune(r)
           a == Append(v, x)
           u == Append(v, "_")
           b == Append(u, x)
<1>1. /\ v \in Seq(NameRunes) /\ Len(v) >= n /\ (n <= k => Len(v) = n) /\ Len(v) \in Nat
      /\ \A i \in 1 .. k : i <= n => v[i] = ToNameRune(s[i])
  BY LenProperties DEF Fits
<1>2. x \in NameRunes /\ "_" \in NameRunes
  BY RuneConverted DEF NameRunes, IsUpper, LowerOf
<1> HIDE DEF x
<1>3. \A w \in Seq(NameRunes), y \in NameRunes :
         /\ Append(w, y) \in Seq(NameRunes) /\ Len(Append(w, y)) = Len(w) + 1 /\ Len(w) \in Nat
         /\ Append(w, y)[Len(w) + 1] = y
         /\ \A i \in 1 .. Len(w) : Append(w, y)[i] = w[i]
  BY Appended
<1>4. /\ a \in Seq(NameRunes) /\ Len(a) = Len(v) + 1 /\ a[Len(v) + 1] = x
      /\ \A i \in 1 .. Len(v) : a[i] = v[i]
  BY <1>1, <1>2, <1>3, Zenon
<1>5. /\ u \in Seq(NameRunes) /\ Len(u) = Len(v) + 1
      /\ \A i \in 1 .. Len(v) : u[i] = v[i]
  BY <1>1, <1>2, <1>3, Zenon
<1> HIDE DEF a, u
<1>6. /\ b \in Seq(NameRunes) /\ Len(b) = Len(u) + 1
      /\ \A i \in 1 .. Len(u) : b[i] = u[i]
  BY <1>2, <1>3, <1>5, Zenon
<1> HIDE DEF b
<1>7. Fits(a, s, k, n + 1)
  <2>1. ASSUME NEW i \in 1 .. k, i <= n + 1 PROVE a[i] = ToNameRune(s[i])
    <3>1. CASE i = n + 1
      <4>1. i = Len(v) + 1 /\ s[i] = r
        BY <1>1, <3>1
      <4> QED
        BY <1>4, <4>1 DEF x
    <3>2. CASE i <= n
      BY <1>1, <1>4, <3>2
    <3> QED
      BY <2>1, <3>1, <3>2
  <2> QED
    BY <1>1, <1>4, <2>1 DEF Fits
<1>8. ASSUME n + 1 > k PROVE Fits(b, s, k, n + 1)
  <2>1. ASSUME NEW i \in 1 .. k PROVE b[i] = ToNameRune(s[i])
    <3>1. i <= n /\ i \in 1 .. Len(v) /\ i \in 1 .. Len(u)
      BY <1>1, <1>5, <1>8
    <3> QED
      BY <1>1, <1>5, <1>6, <3>1
  <2> QED
    BY <1>1, <1>5, <1>6, <1>8, <2>1 DEF Fits
<1> QED
  BY <1>7, <1>8 DEF a, b, u, x

\* Runes before any capital are converted one by one.
LEMMA ConvertedPrefix ==
    ASSUME NEW S, NEW s \in Seq(S), NEW k \in 0 .. Len(s), NoHump(s, k)
    PROVE  Fits(MetricName(s), s, k, Len(s))
<1>1. Len(s) \in Nat /\ k \in Nat
  BY LenProperties
<1>2. PICK w : IsWritten(w, s, Len(s)) /\ MetricName(s) = w[Len(s)]
  BY <1>1, MetricNameIs
<1> DEFINE N == {n \in Nat : n <= Len(s) => Fits(w[n], s, k, n)}
<1>3. 0 \in N
  <2>1. w[0] = <<>>
    BY <1>1, <1>2 DEF IsWritten
  <2>2. Fits(<<>>, s, k, 0)
    BY <1>1, EmptySeq DEF Fits
  <2> QED
    BY <2>1, <2>2
<1>4. ASSUME NEW n \in N PROVE n + 1 \in N
  <2> SUFFICES ASSUME n + 1 <= Len(s) PROVE Fits(w[n + 1], s, k, n + 1)
    OBVIOUS
  <2> DEFINE v == w[n]
             r == s[n + 1]
             x == ToNameRune(r)
             hump == IsUpper(r) /\ n + 1 > 1 /\ ToNameRune(s[n]) # "_"
  <2>1. n \in Nat /\ n <= Len(s) /\ Fits(v, s, k, n) /\ n + 1 \in 0 .. Len(s)
        /\ n + 1 # 0 /\ (n + 1) - 1 = n
    BY <1>1
  <2>2. w[n + 1] = v \o Converted(s, n + 1)
    BY <1>2, <2>1 DEF IsWritten
  <2>3. Converted(s, n + 1) = IF hump THEN <<"_", x>> ELSE <<x>>
    BY <2>1, Zenon DEF Converted
  <2>4. x \in NameRunes /\ "_" \in NameRunes
    BY RuneConverted DEF NameRunes, IsUpper, LowerOf
  <2>5. v \in Seq(NameRunes)
    BY <2>1, Zenon DEF Fits
  <2>6. Appends(NameRunes, v)
    BY <2>5, AppendedBoth, Zenon
  <2>8. /\ Fits(Append(v, x), s, k, n + 1)
        /\ n + 1 > k => Fits(Append(Append(v, "_"), x), s, k, n + 1)
    BY <1>1, <2>1, FitsNext
  <2>9. hump => n + 1 > k
    <3>1. n + 1 \in 1 .. k => ~IsUpper(r) \/ n + 1 = 1 \/ ToNameRune(s[n]) = "_"
      BY <2>1, Zenon DEF NoHump
    <3> HIDE DEF r
    <3>2. hump => n + 1 # 1
      <4>1. n + 1 > 1 => n + 1 # 1
        BY <2>1
      <4> QED
        BY <4>1, Zenon
    <3>3. hump => n + 1 \notin 1 .. k
      BY <3>1, <3>2, Zenon
    <3> HIDE DEF hump
    <3> QED
      BY <1>1, <2>1, <3>3
  <2> HIDE DEF v, r, x, hump
  <2>7. v \o <<x>> = Append(v, x) /\ v \o <<"_", x>> = Append(Append(v, "_"), x)
    BY <2>4, <2>6 DEF Appends
  <2> QED
    BY <2>2, <2>3, <2>7, <2>8, <2>9, Zenon
<1>5. N = Nat
  <2>1. N \in SUBSET Nat
    OBVIOUS
  <2> HIDE DEF N
  <2> QED
    BY <1>3, <1>4, <2>1, AllNumbers
<1>6. Fits(w[Len(s)], s, k, Len(s))
  <2>1. Len(s) \in N
    BY <1>1, <1>5
  <2> QED
    BY <1>1, <2>1
<1> QED
  BY <1>2, <1>6, Zenon

\* The name c is p and then q.
Joined(c, p, q) ==
    /\ IsName(c) /\ Len(p) \in Nat /\ Len(q) \in Nat /\ Len(c) = Len(p) + Len(q)
    /\ \A i \in 1 .. Len(p) : c[i] = p[i]
    /\ \A i \in 1 .. Len(q) : c[Len(p) + i] = q[i]

\* The runes of a name after a name.
LEMMA RunesAfter ==
    ASSUME NEW p, IsName(p), NEW q, IsName(q) PROVE Joined(p \o q, p, q)
<1> DEFINE S == Range(p) \union Range(q)
<1>1. p \in Seq(S) /\ q \in Seq(S)
  BY SeqMonotonic DEF IsName
<1> HIDE DEF S
<1>2. Len(p) \in Nat /\ Len(q) \in Nat
  BY <1>1, LenProperties
<1>3. /\ Len(p \o q) = Len(p) + Len(q)
      /\ \A i \in 1 .. Len(p) + Len(q) :
            (p \o q)[i] = IF i <= Len(p) THEN p[i] ELSE q[i - Len(p)]
  BY <1>1, ConcatProperties, Zenon
<1>4. ASSUME NEW i \in 1 .. Len(q) PROVE (p \o q)[Len(p) + i] = q[i]
  <2>1. Len(p) + i \in 1 .. Len(p) + Len(q) /\ ~(Len(p) + i <= Len(p))
        /\ (Len(p) + i) - Len(p) = i
    BY <1>2
  <2> QED
    BY <1>3, <2>1, Zenon
<1>5. \A i \in 1 .. Len(p) : i \in 1 .. Len(p) + Len(q) /\ i <= Len(p)
  BY <1>2
<1>6. \A i \in 1 .. Len(p) : (p \o q)[i] = p[i]
  BY <1>3, <1>5, Zenon
<1>7. IsName(p \o q)
  BY NameAfterName, Zenon
<1> QED
  BY <1>2, <1>3, <1>4, <1>6, <1>7, Zenon DEF Joined

\* The runes of a pack's number.
LEMMA DecimalRunes ==
    ASSUME NEW num \in Nat
    PROVE  /\ IsName(Decimal(num)) /\ Len(Decimal(num)) = Width(num) /\ Width(num) \in Nat
           /\ \A i \in 1 .. Width(num) : Decimal(num)[i] \in Digits
<1>1. Width(num) \in 1 .. 10
  BY WidthIs
<1>2. DOMAIN Decimal(num) = 1 .. Width(num)
  BY Zenon DEF Decimal
<1>3. IsName(Decimal(num))
  BY PrefixIsName
<1>4. Len(Decimal(num)) = Width(num)
  <2>1. Len(Decimal(num)) \in Nat /\ DOMAIN Decimal(num) = 1 .. Len(Decimal(num))
    BY <1>3, LenProperties DEF IsName
  <2> DEFINE l == Len(Decimal(num))
             w == Width(num)
  <2>2. 1 .. l = 1 .. w /\ l \in Nat /\ w \in 1 .. 10
    BY <1>1, <1>2, <2>1
  <2> HIDE DEF l, w
  <2> QED
    BY <2>2 DEF l, w
<1>5. ASSUME NEW i \in 1 .. Width(num) PROVE Decimal(num)[i] \in Digits
  <2> DEFINE j == Width(num) - i + 1
             d == (num \div Power[j]) % 10
  <2>1. Decimal(num)[i] = Digit[d + 1]
    BY Zenon DEF Decimal
  <2>2. j \in 1 .. 10
    BY <1>1
  <2> HIDE DEF j
  <2>3. num \div Power[j] \in Nat
    BY <2>2, PowersOfTen
  <2>4. d + 1 \in 1 .. 10
    BY <2>3
  <2> HIDE DEF d
  <2> QED
    BY <2>1, <2>4, DigitsDiffer
<1> QED
  BY <1>1, <1>3, <1>4, <1>5

\* q is the prefix of the pack with the w digits d, and then f.
Prefixed(q, w, d, f) ==
    /\ IsName(q) /\ Len(q) = w + 5 + Len(f) /\ Len(f) \in Nat
    /\ q[1] = "b" /\ q[2] = "m" /\ q[3] = "s" /\ q[4] = "." /\ q[w + 5] = "."
    /\ \A i \in 1 .. w : q[i + 4] = d[i]
    /\ \A i \in 1 .. Len(f) : q[w + 5 + i] = f[i]

\* A metric of the pack with the w digits d: the runes up to r, the first one
\* of the field.
OfPack(name, w, d, r) ==
    /\ IsName(name)
    /\ name[1] = "b" /\ name[2] = "m" /\ name[3] = "s" /\ name[4] = "_"
    /\ name[w + 5] = "_" /\ name[w + 6] = r
    /\ \A i \in 1 .. w : name[i + 4] = d[i]

\* The runes of a name that begins with the prefix of a pack.
LEMMA PackRunes ==
    ASSUME NEW num \in Nat, NEW f, IsName(f)
    PROVE  Prefixed(BmsPrefix(num) \o f, Width(num), Decimal(num), f)
<1> DEFINE b == <<"b", "m", "s", ".">>
           d == Decimal(num)
           e == <<".">>
           w == Width(num)
<1>1. /\ IsName(b) /\ Len(b) = 4 /\ b[1] = "b" /\ b[2] = "m" /\ b[3] = "s" /\ b[4] = "."
      /\ IsName(e) /\ Len(e) = 1 /\ e[1] = "."
  <2>1. b \in Seq({"b", "m", "s", "."})
    OBVIOUS
  <2>2. IsName(b) /\ IsName(e)
    BY <2>1, SequenceIsName, ShortNames
  <2> QED
    BY <2>2
<1>2. IsName(d) /\ Len(d) = w /\ w \in Nat
  BY DecimalRunes
<1>3. BmsPrefix(num) = (b \o d) \o e
  BY DEF BmsPrefix
<1> HIDE DEF b, d, e, w
<1> DEFINE bd == b \o d
           bde == bd \o e
           q == bde \o f
<1>12. Joined(bd, b, d)
  BY <1>1, <1>2, RunesAfter, Zenon
<1> HIDE DEF bd
<1>15. IsName(bd)
  BY <1>12 DEF Joined
<1>13. Joined(bde, bd, e)
  BY <1>1, <1>15, RunesAfter, Zenon
<1> HIDE DEF bde
<1>16. IsName(bde)
  BY <1>13 DEF Joined
<1>14. Joined(q, bde, f)
  BY <1>16, RunesAfter, Zenon
<1> HIDE DEF q
<1>4. /\ IsName(bd) /\ Len(bd) = 4 + w /\ \A i \in 1 .. 4 : bd[i] = b[i]
      /\ \A i \in 1 .. w : bd[4 + i] = d[i]
  BY <1>1, <1>2, <1>12 DEF Joined
<1>5. /\ IsName(bde) /\ Len(bde) = 4 + w + 1 /\ \A i \in 1 .. 4 + w : bde[i] = bd[i]
      /\ bde[4 + w + 1] = e[1]
  BY <1>1, <1>2, <1>4, <1>13 DEF Joined
<1>6. /\ IsName(q) /\ Len(q) = 4 + w + 1 + Len(f) /\ Len(f) \in Nat
      /\ \A i \in 1 .. 4 + w + 1 : q[i] = bde[i]
      /\ \A i \in 1 .. Len(f) : q[4 + w + 1 + i] = f[i]
  BY <1>2, <1>5, <1>14 DEF Joined
<1>7. q[1] = "b" /\ q[2] = "m" /\ q[3] = "s" /\ q[4] = "." /\ q[w + 5] = "."
  BY <1>1, <1>2, <1>4, <1>5, <1>6
<1>8. \A i \in 1 .. w : q[i + 4] = d[i]
  <2> TAKE i \in 1 .. w
  <2>1. i + 4 = 4 + i /\ 4 + i \in 1 .. 4 + w /\ 4 + i \in 1 .. 4 + w + 1
    BY <1>2
  <2> QED
    BY <1>4, <1>5, <1>6, <2>1
<1>9. \A i \in 1 .. Len(f) : q[w + 5 + i] = f[i]
  <2> TAKE i \in 1 .. Len(f)
  <2>1. w + 5 + i = 4 + w + 1 + i
    BY <1>2, <1>6
  <2> QED
    BY <1>6, <2>1
<1>10. q = BmsPrefix(num) \o f
  BY <1>3, Zenon DEF q, bde, bd
<1>11. Len(q) = w + 5 + Len(f)
  BY <1>2, <1>6
<1>17. Prefixed(q, w, d, f)
  BY <1>6, <1>7, <1>8, <1>9, <1>11 DEF Prefixed
<1> QED
  BY <1>10, <1>17 DEF d, w

\* The runes of a pack's metric.
LEMMA PackNameRunes ==
    ASSUME NEW num \in Nat
    PROVE  /\ OfPack(PackName(num), Width(num), Decimal(num), "s")
           /\ Len(PackName(num)) = Width(num) + 6
<1> DEFINE b == <<"b", "m", "s", "_">>
           d == Decimal(num)
           e == <<"_", "s">>
           w == Width(num)
<1>1. /\ IsName(b) /\ Len(b) = 4 /\ b[1] = "b" /\ b[2] = "m" /\ b[3] = "s" /\ b[4] = "_"
      /\ IsName(e) /\ Len(e) = 2 /\ e[1] = "_" /\ e[2] = "s"
  <2>1. b \in Seq({"b", "m", "s", "_"})
    OBVIOUS
  <2>2. IsName(b) /\ IsName(e)
    BY <2>1, SequenceIsName, ShortNames
  <2> QED
    BY <2>2
<1>2. IsName(d) /\ Len(d) = w /\ w \in Nat
  BY DecimalRunes
<1>3. PackName(num) = (b \o d) \o e
  BY DEF PackName
<1> HIDE DEF b, d, e, w
<1> DEFINE bd == b \o d
           q == bd \o e
<1>12. Joined(bd, b, d)
  BY <1>1, <1>2, RunesAfter, Zenon
<1> HIDE DEF bd
<1>15. IsName(bd)
  BY <1>12 DEF Joined
<1>13. Joined(q, bd, e)
  BY <1>1, <1>15, RunesAfter, Zenon
<1> HIDE DEF q
<1>4. /\ IsName(bd) /\ Len(bd) = 4 + w /\ \A i \in 1 .. 4 : bd[i] = b[i]
      /\ \A i \in 1 .. w : bd[4 + i] = d[i]
  BY <1>1, <1>2, <1>12 DEF Joined
<1>5. /\ IsName(q) /\ Len(q) = 4 + w + 2 /\ \A i \in 1 .. 4 + w : q[i] = bd[i]
      /\ \A i \in 1 .. 2 : q[4 + w + i] = e[i]
  BY <1>1, <1>2, <1>4, <1>13 DEF Joined
<1>6. /\ q[1] = "b" /\ q[2] = "m" /\ q[3] = "s" /\ q[4] = "_"
      /\ q[w + 5] = "_" /\ q[w + 6] = "s"
  <2>1. 1 \in 1 .. 2 /\ 2 \in 1 .. 2
    OBVIOUS
  <2>2. q[4 + w + 1] = "_" /\ q[4 + w + 2] = "s"
    BY <1>1, <1>5, <2>1, Zenon
  <2>3. /\ 4 + w + 1 = w + 5 /\ 4 + w + 2 = w + 6
        /\ \A i \in 1 .. 4 : i \in 1 .. 4 + w
    BY <1>2
  <2>4. \A i \in 1 .. 4 : q[i] = b[i]
    BY <1>4, <1>5, <2>3, Zenon
  <2>5. q[1] = "b" /\ q[2] = "m" /\ q[3] = "s" /\ q[4] = "_"
    <3>1. 1 \in 1 .. 4 /\ 2 \in 1 .. 4 /\ 3 \in 1 .. 4 /\ 4 \in 1 .. 4
      OBVIOUS
    <3> QED
      BY <1>1, <2>4, <3>1, Zenon
  <2> QED
    BY <2>2, <2>3, <2>5
<1>7. \A i \in 1 .. w : q[i + 4] = d[i]
  <2> TAKE i \in 1 .. w
  <2>1. i + 4 = 4 + i /\ 4 + i \in 1 .. 4 + w
    BY <1>2
  <2> QED
    BY <1>4, <1>5, <2>1
<1>8. Len(q) = w + 6
  BY <1>2, <1>5
<1>9. q = PackName(num)
  BY <1>3, Zenon DEF q, bd
<1>10. OfPack(q, w, d, "s")
  BY <1>5, <1>6, <1>7 DEF OfPack
<1> QED
  BY <1>8, <1>9, <1>10 DEF d, w

\* Some runes as they are in a metric name.
LEMMA PlainRunes ==
    /\ \A r \in {"b", "m", "s", "a", "n", "x", "p", "o"} : ~IsUpper(r) /\ ToNameRune(r) = r
    /\ ~IsUpper(".") /\ ToNameRune(".") = "_"
<1>1. DOMAIN LowerOf = {"A", "B", "S", "EAcute"}
  BY DEF LowerOf
<1>2. ASSUME NEW r \in {"b", "m", "s", "a", "n", "x", "p", "o"}
      PROVE  ~IsUpper(r) /\ ToNameRune(r) = r
  <2>1. ~IsUpper(r)
    BY <1>1 DEF IsUpper
  <2>2. IsMetricNameRune(r)
    BY DEF IsMetricNameRune, LetterOrDigit
  <2> QED
    BY <2>1, <2>2 DEF ToNameRune, ToLower
<1>3. ~IsUpper(".")
  BY <1>1 DEF IsUpper
<1>4. ~IsMetricNameRune(".")
  <2>1. Digits = {"0", "1", "2", "3", "4", "5", "6", "7", "8", "9"}
    BY DigitsDiffer
  <2> QED
    BY <2>1 DEF IsMetricNameRune, LetterOrDigit
<1> QED
  BY <1>2, <1>3, <1>4 DEF ToNameRune, ToLower

\* What the prefix of a pack becomes.
LEMMA PackPrefix ==
    ASSUME NEW num \in Nat, NEW f, IsName(f), Len(f) >= 1, ~IsUpper(f[1])
    PROVE  /\ OfPack(MetricName(BmsPrefix(num) \o f), Width(num), Decimal(num),
                     ToNameRune(f[1]))
           /\ Len(f) = 1 => Len(MetricName(BmsPrefix(num) \o f)) = Width(num) + 6
<1> DEFINE q == BmsPrefix(num) \o f
           w == Width(num)
           d == Decimal(num)
           name == MetricName(q)
<1>11. Prefixed(q, w, d, f)
  BY PackRunes, Zenon
<1>2. w \in Nat /\ \A i \in 1 .. w : d[i] \in Digits
  BY DecimalRunes
<1> HIDE DEF q, w, d, name
<1>1. /\ IsName(q) /\ Len(q) = w + 5 + Len(f) /\ Len(f) \in Nat
      /\ q[1] = "b" /\ q[2] = "m" /\ q[3] = "s" /\ q[4] = "." /\ q[w + 5] = "."
      /\ \A i \in 1 .. w : q[i + 4] = d[i]
      /\ \A i \in 1 .. Len(f) : q[w + 5 + i] = f[i]
  BY <1>11, Zenon DEF Prefixed
<1>3. q[w + 6] = f[1]
  <2>1. 1 \in 1 .. Len(f) /\ w + 5 + 1 = w + 6
    BY <1>1, <1>2
  <2>2. q[w + 5 + 1] = f[1]
    BY <1>1, <2>1, Zenon
  <2> QED
    BY <2>1, <2>2
<1>4. NoHump(q, w + 6)
  <2> SUFFICES ASSUME NEW i \in 1 .. w + 6 PROVE ~IsUpper(q[i])
    BY DEF NoHump
  <2>1. \A j \in 1 .. w : ~IsUpper(q[j + 4])
    BY <1>1, <1>2, DigitsDiffer
  <2>2. /\ ~IsUpper(q[1]) /\ ~IsUpper(q[2]) /\ ~IsUpper(q[3]) /\ ~IsUpper(q[4])
        /\ ~IsUpper(q[w + 5]) /\ ~IsUpper(q[w + 6])
    BY <1>1, <1>3, PlainRunes
  <2>3. CASE i \in 5 .. w + 4
    <3>1. i - 4 \in 1 .. w /\ (i - 4) + 4 = i
      BY <1>2, <2>3
    <3> QED
      BY <2>1, <3>1
  <2>4. i \in 5 .. w + 4 \/ i \in {1, 2, 3, 4, w + 5, w + 6}
    BY <1>2
  <2> QED
    BY <2>2, <2>3, <2>4
<1>5. w + 6 \in 0 .. Len(q) /\ q \in Seq(Range(q)) /\ Len(q) \in Nat
  BY <1>1, <1>2 DEF IsName
<1>6. Fits(name, q, w + 6, Len(q))
  BY <1>4, <1>5, ConvertedPrefix DEF name
<1>7. /\ name \in Seq(NameRunes)
      /\ \A i \in 1 .. w + 6 : name[i] = ToNameRune(q[i])
      /\ Len(f) = 1 => Len(name) = w + 6
  <2>1. /\ name \in Seq(NameRunes)
        /\ \A i \in 1 .. w + 6 : i <= Len(q) => name[i] = ToNameRune(q[i])
        /\ Len(q) <= w + 6 => Len(name) = Len(q)
    BY <1>6, Zenon DEF Fits
  <2> QED
    BY <1>1, <1>2, <2>1
<1>8. /\ name[1] = "b" /\ name[2] = "m" /\ name[3] = "s" /\ name[4] = "_"
      /\ name[w + 5] = "_" /\ name[w + 6] = ToNameRune(f[1])
  <2>1. /\ 1 \in 1 .. w + 6 /\ 2 \in 1 .. w + 6 /\ 3 \in 1 .. w + 6 /\ 4 \in 1 .. w + 6
        /\ w + 5 \in 1 .. w + 6 /\ w + 6 \in 1 .. w + 6
    BY <1>2
  <2> QED
    BY <1>1, <1>3, <1>7, <2>1, PlainRunes
<1>9. \A i \in 1 .. w : name[i + 4] = d[i]
  <2> TAKE i \in 1 .. w
  <2>1. i + 4 \in 1 .. w + 6
    BY <1>2
  <2>2. d[i] \in Digits /\ q[i + 4] = d[i]
    BY <1>1, <1>2
  <2> QED
    BY <1>7, <2>1, <2>2, DigitsDiffer
<1>10. IsName(name)
  BY <1>7, SequenceIsName
<1>12. OfPack(name, w, d, ToNameRune(f[1]))
  BY <1>8, <1>9, <1>10, Zenon DEF OfPack
<1>13. Len(f) = 1 => Len(name) = w + 6
  BY <1>7, Zenon
<1> QED
  BY <1>12, <1>13, Zenon DEF q, w, d, name

\* The charge of a pack has the pack's name.
LEMMA PackNamed ==
    ASSUME NEW num \in Nat
    PROVE  /\ MetricName(BmsPrefix(num) \o <<"s">>) = PackName(num)
           /\ BmsPrefix(num) \o <<"s">> # <<>>
<1> DEFINE f == <<"s">>
           w == Width(num)
           d == Decimal(num)
           name == MetricName(BmsPrefix(num) \o f)
           pack == PackName(num)
<1>1. IsName(f) /\ Len(f) = 1 /\ f[1] = "s"
  BY ShortNames
<1> HIDE DEF f
<1>2. OfPack(name, w, d, "s") /\ Len(name) = w + 6
  <2>2. ~IsUpper("s") /\ ToNameRune("s") = "s"
    BY PlainRunes
  <2>3. Len(f) >= 1
    BY <1>1
  <2>1. Len(f) >= 1 /\ ~IsUpper(f[1]) /\ ToNameRune(f[1]) = "s"
    BY <1>1, <2>2, <2>3, Zenon
  <2> QED
    BY <1>1, <2>1, PackPrefix, Zenon
<1>3. OfPack(pack, w, d, "s") /\ Len(pack) = w + 6
  BY PackNameRunes, Zenon
<1>4. w \in Nat
  BY DecimalRunes
<1> HIDE DEF w, d, name, pack
<1>5. ASSUME NEW i \in 1 .. w + 6 PROVE name[i] = pack[i]
  <2>1. \A j \in 1 .. w : name[j + 4] = pack[j + 4]
    BY <1>2, <1>3 DEF OfPack
  <2>2. CASE i \in 5 .. w + 4
    <3>1. i - 4 \in 1 .. w /\ (i - 4) + 4 = i
      BY <1>4, <2>2
    <3> QED
      BY <2>1, <3>1
  <2>3. i \in 5 .. w + 4 \/ i \in {1, 2, 3, 4, w + 5, w + 6}
    BY <1>4
  <2> QED
    BY <1>2, <1>3, <2>2, <2>3 DEF OfPack
<1>6. name \in Seq(Range(name) \union Range(pack)) /\ pack \in Seq(Range(name) \union Range(pack))
  BY <1>2, <1>3, SeqMonotonic DEF OfPack, IsName
<1>7. name = pack
  <2> DEFINE S == Range(name) \union Range(pack)
  <2>1. name \in Seq(S) /\ pack \in Seq(S)
    BY <1>6
  <2> HIDE DEF S
  <2> QED
    BY <1>2, <1>3, <1>5, <2>1, SeqEqual
<1>8. BmsPrefix(num) \o f # <<>>
  <2> DEFINE q == BmsPrefix(num) \o f
  <2>4. Prefixed(q, w, Decimal(num), f)
    BY <1>1, PackRunes, Zenon DEF w
  <2>1. Len(q) = w + 5 + Len(f)
    BY <2>4, Zenon DEF Prefixed
  <2> HIDE DEF q
  <2>2. Len(q) # 0
    BY <1>1, <1>4, <2>1
  <2>3. q # <<>>
    BY <2>2
  <2> QED
    BY <2>3 DEF q
<1> QED
  BY <1>7, <1>8 DEF name, pack, f

\* The runes after the first four are the digits d and an underscore.
Ends(name, w, d) ==
    name[w + 5] = "_" /\ \A i \in 1 .. w : name[i + 4] = d[i] /\ d[i] # "_"

\* Then there are no more and no fewer.
LEMMA SameEnd == ASSUME NEW v \in Nat, NEW w \in Nat
                 PROVE  \A name, c, d : Ends(name, v, c) /\ Ends(name, w, d) => v = w
<1>1. \A x, y \in Nat : x < y => x + 1 \in 1 .. y /\ (x + 1) + 4 = x + 5
  OBVIOUS
<1>2. ASSUME NEW x \in Nat, NEW y \in Nat, x < y, NEW name, NEW c, NEW d,
             Ends(name, x, c), Ends(name, y, d)
      PROVE  FALSE
  <2>1. x + 1 \in 1 .. y /\ (x + 1) + 4 = x + 5
    BY <1>1, <1>2, Zenon
  <2>2. name[(x + 1) + 4] # "_" /\ name[x + 5] = "_"
    BY <1>2, <2>1, Zenon DEF Ends
  <2> QED
    BY <2>1, <2>2, Zenon
<1>3. v < w \/ w < v \/ v = w
  OBVIOUS
<1> QED
  BY <1>2, <1>3, Zenon

\* No other field of any pack has it.
LEMMA PackNamedOnly ==
    ASSUME NEW num, IsUint32(num), NEW n, IsUint32(n), NEW f, IsName(f), Len(f) >= 1,
           ~IsUpper(f[1]), ToNameRune(f[1]) = f[1],
           MetricName(BmsPrefix(n) \o f) = PackName(num)
    PROVE  n = num /\ f[1] = "s"
<1> DEFINE w == Width(num)
           d == Decimal(num)
           v == Width(n)
           c == Decimal(n)
           name == PackName(num)
<1>1. num \in Nat /\ n \in Nat
  BY DEF IsUint32
<1>2. OfPack(name, w, d, "s")
  BY <1>1, PackNameRunes, Zenon
<1>3. OfPack(name, v, c, f[1])
  <2>1. OfPack(MetricName(BmsPrefix(n) \o f), v, c, ToNameRune(f[1]))
    BY <1>1, PackPrefix, Zenon
  <2> HIDE DEF v, c
  <2> QED
    BY <2>1, Zenon
<1>4. /\ w \in Nat /\ \A i \in 1 .. w : d[i] \in Digits
      /\ v \in Nat /\ \A i \in 1 .. v : c[i] \in Digits
      /\ \A r \in Digits : r # "_"
  BY <1>1, DecimalRunes, DigitsDiffer
<1>5. c = [i \in 1 .. v |-> c[i]] /\ d = [i \in 1 .. w |-> d[i]]
  BY Zenon DEF Decimal
<1> HIDE DEF w, d, v, c, name
<1>6. v = w
  <2>1. Ends(name, v, c) /\ Ends(name, w, d)
    BY <1>2, <1>3, <1>4, Zenon DEF Ends, OfPack
  <2> QED
    BY <1>4, <2>1, SameEnd, Zenon
<1>7. c = d
  <2>1. \A i \in 1 .. w : c[i] = d[i]
    BY <1>2, <1>3, <1>6 DEF OfPack
  <2> QED
    BY <1>5, <1>6, <2>1
<1>8. n = num
  BY <1>7, DecimalsDiffer DEF c, d
<1> QED
  BY <1>2, <1>3, <1>6, <1>8, Zenon DEF OfPack

\* A name that begins as a field does is no pack's.
LEMMA NotOfPack ==
    ASSUME NEW p, IsName(p), Len(p) >= 1, p[1] \in FirstRunes, NEW num \in Nat
    PROVE  MetricName(p) # PackName(num)
<1>1. p \in Seq(Range(p)) /\ 1 \in 0 .. Len(p)
  <2>1. p \in Seq(Range(p))
    BY DEF IsName
  <2>2. Len(p) \in Nat
    BY <2>1, LenProperties
  <2> QED
    BY <2>1, <2>2
<1>2. NoHump(p, 1)
  <2>1. \A i \in 1 .. 1 : i = 1
    OBVIOUS
  <2> QED
    BY <2>1, Zenon DEF NoHump
<1>3. Fits(MetricName(p), p, 1, Len(p))
  BY <1>1, <1>2, ConvertedPrefix
<1>4. MetricName(p)[1] = ToNameRune(p[1])
  <2>1. 1 \in 1 .. 1 /\ 1 <= Len(p)
    BY <1>1
  <2> QED
    BY <1>3, <2>1, Zenon DEF Fits
<1>5. ToNameRune(p[1]) = p[1] /\ p[1] # "b"
  BY PlainRunes DEF FirstRunes
<1>6. PackName(num)[1] = "b"
  BY PackNameRunes, Zenon DEF OfPack
<1> QED
  BY <1>4, <1>5, <1>6, Zenon

\* The fields of a pack's report.
LEMMA BmsFields ==
    ASSUME NEW f \in DOMAIN BMSHeartBeatReport
    PROVE  /\ BMSHeartBeatReport[f].kind # "message"
           /\ f[1] = "s" => f = <<"s">> /\ BMSHeartBeatReport[f] = Field("uint32")
           /\ f[1] = "n" => f = <<"n">> /\ BMSHeartBeatReport[f] = Field("uint32")
<1> DEFINE pairs == {
    << <<"n">>, Field("uint32") >>, << <<"s">>, Field("uint32") >>,
    << <<"a", "S">>, Field("float") >>, << <<"a">>, Field("int32") >>,
    << <<"p", "S">>, Field("string") >>, << <<"x">>, List("uint32") >>,
    << <<"m">>, List("int32") >> }
<1> DEFINE Fine(p) == /\ p[2].kind # "message"
                      /\ p[1][1] = "s" => p[1] = <<"s">> /\ p[2] = Field("uint32")
                      /\ p[1][1] = "n" => p[1] = <<"n">> /\ p[2] = Field("uint32")
<1>1. \A p \in pairs : Fine(p)
  <2>1. Fine(<< <<"n">>, Field("uint32") >>) /\ Fine(<< <<"s">>, Field("uint32") >>)
    BY DEF Field
  <2>2. Fine(<< <<"a", "S">>, Field("float") >>) /\ Fine(<< <<"p", "S">>, Field("string") >>)
    BY DEF Field
  <2>3. Fine(<< <<"a">>, Field("int32") >>)
    BY DEF Field
  <2>4. Fine(<< <<"x">>, List("uint32") >>) /\ Fine(<< <<"m">>, List("int32") >>)
    BY DEF List
  <2> HIDE DEF Fine
  <2> QED
    BY <2>1, <2>2, <2>3, <2>4
<1>2. BMSHeartBeatReport = NamedFields(pairs)
  BY Zenon DEF BMSHeartBeatReport
<1> HIDE DEF pairs
<1>3. PICK p \in pairs : p[1] = f /\ BMSHeartBeatReport[f] = p[2]
  BY <1>2, NamedFieldsAre
<1> QED
  BY <1>1, <1>3, Zenon

\* A report names its pack by a number of 32 bits, and says its charge.
LEMMA ReportSays ==
    ASSUME NEW h, IsHeader(h), h.pdata.kind = "message", TypeOf(h) = "BMSHeartBeatReport"
    PROVE  /\ IsUint32(GetNum(h.pdata.m)) /\ Known(h)
           /\ <<"s">> \in DOMAIN h.pdata.m =>
                 BmsPrefix(GetNum(h.pdata.m)) \o <<"s">> \in DOMAIN Said(h)
<1> DEFINE m == h.pdata.m
           fields == BMSHeartBeatReport
           prefix == BmsPrefix(GetNum(m))
           pairs == FlatParams("BMSHeartBeatReport", m)
<1>1. Schema["BMSHeartBeatReport"] = fields
  BY SchemaTypes
<1>2. \A f \in DOMAIN m : f \in DOMAIN fields /\ (fields[f] = Field("uint32") => IsUint32(m[f].v))
  BY <1>1 DEF IsHeader, HasFields, IsUint32
<1>3. IsUint32(GetNum(m))
  <2>1. IsUint32(0)
    BY DEF IsUint32
  <2>2. CASE BmsNum \in DOMAIN m
    <3>1. BmsNum[1] = "n"
      BY DEF BmsNum
    <3>2. fields[BmsNum] = Field("uint32")
      BY <1>2, <2>2, <3>1, BmsFields
    <3> QED
      BY <1>2, <2>2, <3>2 DEF GetNum
  <2> QED
    BY <2>1, <2>2 DEF GetNum
<1>4. ASSUME <<"s">> \in DOMAIN m PROVE prefix \o <<"s">> \in DOMAIN Said(h)
  <2> DEFINE f == <<"s">>
             pair == <<prefix \o f, Number(m[f].v)>>
  <2>1. f \in DOMAIN fields /\ f[1] = "s"
    BY <1>2, <1>4
  <2>2. fields[f] = Field("uint32")
    BY <2>1, BmsFields
  <2>3. /\ ~fields[f].list /\ fields[f].kind \notin {"message", "bytes"}
        /\ fields[f].kind # "string"
    BY <2>2 DEF Field
  <2>4. pair \in Scalars("BMSHeartBeatReport", m, prefix)
    BY <1>1, <1>4, <2>3 DEF Scalars
  <2>5. pair \in pairs
    BY <2>4 DEF FlatParams, FlattenMessage
  <2>6. Said(h) = NamedFields(pairs)
    BY DEF Said, AsParams
  <2>7. pair[1] \in {p[1] : p \in pairs}
    BY <2>5
  <2>9. DOMAIN NamedFields(pairs) = {p[1] : p \in pairs}
    BY NamedFieldsAre, Zenon
  <2> HIDE DEF pair, pairs
  <2>8. pair[1] \in DOMAIN Said(h)
    BY <2>6, <2>7, <2>9, Zenon
  <2> USE DEF pair
  <2> QED
    BY <2>8
<1> QED
  BY <1>3, <1>4 DEF Known

\* What a header says under the name of a pack's metric is the charge of that pack.
LEMMA SaidOfPack ==
    ASSUME NEW h, IsHeader(h), h.pdata.kind = "message", Known(h), NEW q \in DOMAIN Said(h),
           NEW num, IsUint32(num), MetricName(q) = PackName(num)
    PROVE  /\ TypeOf(h) = "BMSHeartBeatReport" /\ GetNum(h.pdata.m) = num
           /\ <<"s">> \in DOMAIN h.pdata.m /\ q = BmsPrefix(num) \o <<"s">>
           /\ Said(h)[q] = Number(h.pdata.m[<<"s">>].v)
<1> DEFINE m == h.pdata.m
           type == TypeOf(h)
           pairs == FlatParams(type, m)
<1>1. /\ type \in {"PropertyUpload", "CMSHeartBeatReport", "BMSHeartBeatReport"}
      /\ type \in DOMAIN Schema /\ HasFields(type, m) /\ DOMAIN m \subseteq DOMAIN Schema[type]
  <2>1. type # "none" /\ HasFields(type, m)
    BY DEF Known, IsHeader
  <2>2. type \in {"PropertyUpload", "CMSHeartBeatReport", "BMSHeartBeatReport"}
    BY <2>1 DEF TypeOf, NewMessageFor
  <2> QED
    BY <2>1, <2>2, SchemaTypes DEF HasFields
<1>2. PICK pair \in pairs : pair[1] = q /\ Said(h)[q] = pair[2]
  <2>1. Said(h) = NamedFields(pairs)
    BY DEF Said, AsParams
  <2> HIDE DEF pairs
  <2>2. q \in DOMAIN NamedFields(pairs)
    BY <2>1
  <2>3. \E p \in pairs : p[1] = q /\ NamedFields(pairs)[q] = p[2]
    BY <2>2, NamedFieldsAre
  <2> QED
    BY <2>1, <2>3
<1>3. num \in Nat
  BY DEF IsUint32
<1>4. ASSUME NEW t \in DOMAIN Schema, NEW f \in DOMAIN Schema[t]
      PROVE  /\ IsName(f) /\ Len(f) >= 1 /\ f[1] \in FirstRunes
             /\ <<>> \o f = f
             /\ MetricName(f) # PackName(num)
  <2>1. IsName(f) /\ f # <<>> /\ f[1] \in FirstRunes
    BY SchemaFields
  <2>2. Len(f) >= 1 /\ <<>> \o f = f
    BY <2>1, LenProperties DEF IsName
  <2> QED
    BY <1>3, <2>1, <2>2, NotOfPack
<1>8. \A t, ms, prefix, p :
         p \in Scalars(t, ms, prefix) => \E f \in DOMAIN ms : p[1] = prefix \o f
  BY DEF Scalars
<1>5. CASE type = "BMSHeartBeatReport"
  <2> DEFINE fields == BMSHeartBeatReport
             n == GetNum(m)
             prefix == BmsPrefix(n)
  <2>1. Schema[type] = fields
    BY <1>5, SchemaTypes
  <2>2. pairs = FlattenMessage(type, m, prefix, FALSE)
    BY <1>5, Zenon DEF FlatParams
  <2>3. {f \in DOMAIN m : Schema[type][f].kind = "message"} = {}
    BY <1>1, <2>1, BmsFields
  <2>4. pair \in Scalars(type, m, prefix)
    BY <1>2, <2>2, <2>3 DEF FlattenMessage
  <2>5. PICK f \in DOMAIN m :
           pair = <<prefix \o f, IF Schema[type][f].kind = "string" THEN Other
                                 ELSE Number(m[f].v)>>
    BY <2>4 DEF Scalars
  <2>6. f \in DOMAIN fields /\ IsName(f) /\ Len(f) >= 1 /\ f[1] \in FirstRunes
    BY <1>1, <1>4, <2>1
  <2>7. ~IsUpper(f[1]) /\ ToNameRune(f[1]) = f[1]
    BY <2>6, PlainRunes DEF FirstRunes
  <2>8. q = prefix \o f
    BY <1>2, <2>5
  <2>9. IsUint32(n)
    BY <1>5, ReportSays
  <2>10. n = num /\ f[1] = "s"
    <3> HIDE DEF n
    <3>1. MetricName(BmsPrefix(n) \o f) = PackName(num)
      BY <2>8, Zenon
    <3> QED
      BY <2>6, <2>7, <2>9, <3>1, PackNamedOnly, Zenon
  <2>11. f = <<"s">> /\ fields[f] = Field("uint32")
    BY <2>6, <2>10, BmsFields
  <2>12. pair[2] = Number(m[f].v)
    BY <2>1, <2>5, <2>11 DEF Field
  <2> QED
    BY <1>2, <1>5, <2>8, <2>10, <2>11, <2>12, Zenon
<1>6. CASE type = "CMSHeartBeatReport"
  <2>1. pairs = FlattenMessage(type, m, <<>>, TRUE)
    BY <1>6, Zenon DEF FlatParams
  <2>2. \E t \in DOMAIN Schema : \E f \in DOMAIN Schema[t] : q = <<>> \o f
    <3>1. CASE pair \in Scalars(type, m, <<>>)
      BY <1>1, <1>2, <3>1 DEF Scalars
    <3>2. CASE pair \notin Scalars(type, m, <<>>)
      <4>1. PICK f \in DOMAIN m : /\ Schema[type][f].kind = "message"
                                  /\ pair \in Scalars(Schema[type][f].of, m[f].m, <<>>)
        BY <1>2, <2>1, <3>2 DEF FlattenMessage
      <4>2. /\ Schema[type][f].of \in DOMAIN Schema
            /\ DOMAIN m[f].m \subseteq DOMAIN Schema[Schema[type][f].of]
        BY <1>1, <4>1, SchemaFields DEF HasFields
      <4> QED
        BY <1>2, <4>1, <4>2 DEF Scalars
    <3> QED
      BY <3>1, <3>2
  <2> QED
    BY <1>4, <2>2
<1>7. CASE type = "PropertyUpload"
  <2>1. pairs = FlattenMessage(type, m, <<>>, FALSE)
    BY <1>7, Zenon DEF FlatParams
  <2>2. CASE pair \in Scalars(type, m, <<>>)
    <3>1. \E f \in DOMAIN Schema[type] : q = <<>> \o f
      BY <1>1, <1>2, <2>2 DEF Scalars
    <3> QED
      BY <1>1, <1>4, <3>1
  <2>3. CASE pair \notin Scalars(type, m, <<>>)
    <3> DEFINE inner(f) == <<>> \o f \o <<".">>
    <3>1. PICK f \in DOMAIN m : /\ Schema[type][f].kind = "message"
                                /\ pair \in Scalars(Schema[type][f].of, m[f].m, inner(f))
      BY <1>2, <2>1, <2>3 DEF FlattenMessage
    <3>2. /\ Schema[type][f].of \in DOMAIN Schema
          /\ DOMAIN m[f].m \subseteq DOMAIN Schema[Schema[type][f].of]
      BY <1>1, <3>1, SchemaFields DEF HasFields
    <3>3. PICK g \in DOMAIN Schema[Schema[type][f].of] : q = inner(f) \o g
      <4>1. PICK g \in DOMAIN m[f].m : pair[1] = inner(f) \o g
        <5> HIDE DEF inner
        <5> QED
          BY <1>8, <3>1
      <4> HIDE DEF inner
      <4> QED
        BY <1>2, <3>2, <4>1
    <3>4. /\ IsName(f) /\ Len(f) >= 1 /\ f[1] \in FirstRunes /\ IsName(g) /\ <<>> \o f = f
      BY <1>1, <1>4, <3>2
    <3> DEFINE dotted == f \o <<".">>
    <3>5. Joined(dotted, f, <<".">>)
      BY <3>4, ShortNames, RunesAfter
    <3>6. q = dotted \o g
      BY <3>3, <3>4
    <3> HIDE DEF dotted
    <3>7. IsName(dotted)
      BY <3>5 DEF Joined
    <3>8. Joined(q, dotted, g)
      BY <3>4, <3>6, <3>7, RunesAfter
    <3>9. IsName(q) /\ Len(q) >= 1 /\ q[1] = f[1]
      <4>1. Len(f) \in Nat /\ Len(<<".">>) \in Nat /\ Len(dotted) = Len(f) + Len(<<".">>)
            /\ \A i \in 1 .. Len(f) : dotted[i] = f[i]
        BY <3>5, Zenon DEF Joined
      <4>2. Len(g) \in Nat /\ Len(q) = Len(dotted) + Len(g) /\ IsName(q)
            /\ \A i \in 1 .. Len(dotted) : q[i] = dotted[i]
        BY <3>8, Zenon DEF Joined
      <4>3. 1 \in 1 .. Len(f) /\ 1 \in 1 .. Len(dotted) /\ Len(q) >= 1
        BY <3>4, <4>1, <4>2
      <4>4. q[1] = dotted[1] /\ dotted[1] = f[1]
        BY <4>1, <4>2, <4>3, Zenon
      <4> QED
        BY <4>2, <4>3, <4>4
    <3> QED
      BY <1>3, <3>4, <3>9, NotOfPack
  <2> QED
    BY <2>2, <2>3
<1> QED
  BY <1>1, <1>5, <1>6, <1>7

\* The charge that a message reports, if it reports this pack's.
ChargeAt(message, k) == message.headers[k].pdata.m
ReportsOf(message, num) == {k \in Reports(message) : GetNum(ChargeAt(message, k)) = num}

\* What a message says under the name of a pack's metric is the pack's last charge
\* in it, unless there is JSON with that name.
LEMMA SaidByOfPack ==
    ASSUME NEW M, IsMessage(M), NEW num, IsUint32(num),
           NEW q \in DOMAIN SaidBy(M), MetricName(q) = PackName(num), q \notin JsonParams(M)
    PROVE  /\ q = BmsPrefix(num) \o <<"s">>
           /\ \E l \in ReportsOf(M, num) :
                 /\ SaidBy(M)[q] = Number(ChargeAt(M, l)[<<"s">>].v)
                 /\ \A k \in ReportsOf(M, num) : k <= l
<1> DEFINE K == KnownHeaders(M)
           said == [k \in K |-> Said(M.headers[k])]
<1>1. M.kind = "headers"
  <2>1. CASE M.kind = "json"
    BY <2>1 DEF SaidBy, JsonParams
  <2>2. CASE M.kind \notin {"json", "headers"}
    <3>1. HeadersOf(M) = <<>>
      BY <2>2 DEF HeadersOf
    <3>2. K = {}
      BY <3>1 DEF KnownHeaders
    <3>3. DOMAIN said = {}
      BY <3>2
    <3>4. LastOf(said) = NoParams
      <4> HIDE DEF said
      <4> QED
        BY <3>3, LastOfNothing
    <3>5. SaidBy(M) = NoParams
      BY <2>2, <3>4 DEF SaidBy
    <3>6. DOMAIN NoParams = {}
      BY Zenon DEF NoParams, AsParams, NamedFields
    <3> QED
      BY <3>5, <3>6
  <2> QED
    BY <2>1, <2>2
<1>2. /\ HeadersOf(M) = M.headers /\ Len(M.headers) \in Nat
      /\ DOMAIN M.headers = 1 .. Len(M.headers)
      /\ \A k \in DOMAIN M.headers : IsHeader(M.headers[k])
  BY <1>1, LenProperties DEF HeadersOf, IsMessage
<1>3. K = {k \in DOMAIN M.headers : Known(M.headers[k])}
  BY <1>2 DEF KnownHeaders
<1>4. SaidBy(M) = LastOf(said)
  BY <1>1 DEF SaidBy
<1>5. PICK l \in K : /\ q \in DOMAIN Said(M.headers[l])
                     /\ SaidBy(M)[q] = Said(M.headers[l])[q]
                     /\ \A i \in K : q \in DOMAIN Said(M.headers[i]) => i <= l
  <2>1. DOMAIN said = K /\ \A k \in K : said[k] = Said(M.headers[k])
    OBVIOUS
  <2>2. K \in SUBSET (0 .. Len(M.headers))
    BY <1>2, <1>3
  <2> HIDE DEF said, K
  <2>3. \E j \in DOMAIN said : /\ q \in DOMAIN said[j] /\ LastOf(said)[q] = said[j][q]
                               /\ \A i \in DOMAIN said : q \in DOMAIN said[i] => i <= j
    BY <1>2, <1>4, <2>1, <2>2, LastOfAt
  <2> QED
    BY <1>4, <2>1, <2>3
<1> DEFINE h == M.headers[l]
<1>6. IsHeader(h) /\ Known(h) /\ l \in DOMAIN M.headers
  BY <1>2, <1>3
<1>7. h.pdata.kind # "json"
  <2> SUFFICES ASSUME h.pdata.kind = "json" PROVE q \in JsonParams(M)
    OBVIOUS
  <2>1. q \in DOMAIN h.pdata.params
    BY <1>5 DEF Said
  <2>2. h \in Range(HeadersOf(M))
    BY <1>2, <1>6 DEF Range
  <2> QED
    BY <1>1, <2>1, <2>2 DEF JsonParams
<1>8. h.pdata.kind = "message"
  BY <1>6, <1>7 DEF Known
<1>9. /\ TypeOf(h) = "BMSHeartBeatReport" /\ GetNum(h.pdata.m) = num
      /\ <<"s">> \in DOMAIN h.pdata.m /\ q = BmsPrefix(num) \o <<"s">>
      /\ Said(h)[q] = Number(h.pdata.m[<<"s">>].v)
  <2> HIDE DEF h
  <2>1. q \in DOMAIN Said(h)
    BY <1>5 DEF h
  <2> QED
    BY <1>6, <1>8, <2>1, SaidOfPack, Zenon
<1>10. l \in ReportsOf(M, num)
  BY <1>2, <1>6, <1>8, <1>9 DEF ReportsOf, Reports, ChargeAt
<1>11. ASSUME NEW k \in ReportsOf(M, num) PROVE k <= l
  <2>1. /\ k \in DOMAIN M.headers /\ M.headers[k].pdata.kind = "message"
        /\ TypeOf(M.headers[k]) = "BMSHeartBeatReport"
        /\ <<"s">> \in DOMAIN M.headers[k].pdata.m /\ GetNum(M.headers[k].pdata.m) = num
    BY <1>2 DEF ReportsOf, Reports, ChargeAt
  <2>2. /\ Known(M.headers[k])
        /\ BmsPrefix(GetNum(M.headers[k].pdata.m)) \o <<"s">> \in DOMAIN Said(M.headers[k])
    BY <1>2, <2>1, ReportSays
  <2>3. q \in DOMAIN Said(M.headers[k])
    BY <1>9, <2>1, <2>2, Zenon
  <2> QED
    BY <1>3, <1>5, <2>1, <2>2, <2>3
<1>12. SaidBy(M)[q] = Number(ChargeAt(M, l)[<<"s">>].v)
  BY <1>5, <1>9 DEF ChargeAt
<1> QED
  BY <1>9, <1>10, <1>11, <1>12, Zenon

\* A report is said by its message.
LEMMA ReportIsSaid ==
    ASSUME NEW M, IsMessage(M), NEW k \in Reports(M)
    PROVE  LET num == GetNum(ChargeAt(M, k))
           IN /\ IsUint32(num)
              /\ BmsPrefix(num) \o <<"s">> \in DOMAIN SaidBy(M)
<1> DEFINE h == M.headers[k]
           num == GetNum(h.pdata.m)
           q == BmsPrefix(num) \o <<"s">>
           K == KnownHeaders(M)
           said == [i \in K |-> Said(M.headers[i])]
<1>1. /\ k \in DOMAIN HeadersOf(M) /\ h.pdata.kind = "message"
      /\ TypeOf(h) = "BMSHeartBeatReport" /\ <<"s">> \in DOMAIN h.pdata.m
  BY DEF Reports
<1>2. M.kind = "headers"
  BY <1>1 DEF HeadersOf
<1>3. HeadersOf(M) = M.headers /\ IsHeader(h)
  BY <1>1, <1>2 DEF HeadersOf, IsMessage
<1>4. IsUint32(num) /\ Known(h) /\ q \in DOMAIN Said(h)
  <2> HIDE DEF h
  <2> QED
    BY <1>1, <1>3, ReportSays
<1>5. k \in K
  BY <1>1, <1>3, <1>4 DEF KnownHeaders
<1>6. q \in DOMAIN LastOf(said)
  <2>1. DOMAIN LastOf(said) = UNION {DOMAIN said[i] : i \in DOMAIN said}
    BY LastOfIsFunction
  <2>2. k \in DOMAIN said /\ said[k] = Said(h)
    BY <1>5
  <2> HIDE DEF said, q, h
  <2> QED
    BY <1>4, <2>1, <2>2
<1>7. SaidBy(M) = LastOf(said)
  BY <1>2 DEF SaidBy
<1> QED
  BY <1>4, <1>6, <1>7 DEF ChargeAt

\* What was heard are messages.
LEMMA HeardAreMessages ==
    ASSUME InboxOK
    PROVE  /\ at \in Nat /\ Heard(at) \subseteq 1 .. at
           /\ \A j \in Heard(at) : IsMessage(inbox[j])
<1>1. Len(inbox) \in Nat /\ at \in Nat /\ at <= Len(inbox)
  BY InboxFacts DEF InboxOK
<1>2. Heard(at) \subseteq 1 .. at
  BY DEF Heard
<1>3. ASSUME NEW j \in Heard(at) PROVE IsMessage(inbox[j])
  <2>1. j \in 1 .. Len(inbox)
    BY <1>1, <1>2
  <2> QED
    BY <2>1, InboxFacts
<1> QED
  BY <1>1, <1>2, <1>3

\* What is the latest under the name of a pack's metric is what the pack's last
\* report says.
LEMMA LatestOfPack ==
    ASSUME InboxOK, NEW i \in Heard(at), NEW k \in Reports(inbox[i]), NEW num,
           num = GetNum(ReportAt(i, k)),
           \A j \in Heard(at) : \A l \in ReportsOf(inbox[j], num) : j < i \/ (j = i /\ l <= k),
           \A j \in Heard(at) : \A p \in JsonParams(inbox[j]) :
               HasMetricName(p) => MetricName(p) # PackName(num)
    PROVE  LET q == BmsPrefix(num) \o <<"s">>
           IN /\ q \in DOMAIN Latest(at)
              /\ Latest(at)[q] = Number(ReportAt(i, k)[<<"s">>].v)
              /\ \A p \in Named(Latest(at), PackName(num)) : p = q
<1> DEFINE q == BmsPrefix(num) \o <<"s">>
           f == [j \in Heard(at) |-> SaidBy(inbox[j])]
<1>1. /\ at \in Nat /\ Heard(at) \subseteq 1 .. at
      /\ \A j \in Heard(at) : IsMessage(inbox[j])
  BY HeardAreMessages
<1>2. DOMAIN f = Heard(at) /\ Latest(at) = LastOf(f) /\ \A j \in Heard(at) : f[j] = SaidBy(inbox[j])
  BY DEF Latest
<1>3. IsUint32(num) /\ num \in Nat /\ q \in DOMAIN SaidBy(inbox[i])
  BY <1>1, ReportIsSaid DEF ReportAt, ChargeAt, IsUint32
<1>4. MetricName(q) = PackName(num) /\ HasMetricName(q)
  BY <1>3, PackNamed DEF HasMetricName
<1>5. k \in ReportsOf(inbox[i], num)
  BY DEF ReportsOf, ReportAt, ChargeAt
<1> HIDE DEF f
<1>6. q \in DOMAIN Latest(at)
  <2>1. DOMAIN LastOf(f) = UNION {DOMAIN f[j] : j \in DOMAIN f}
    BY LastOfIsFunction
  <2> HIDE DEF q
  <2> QED
    BY <1>2, <1>3, <2>1
<1>7. ASSUME NEW p \in DOMAIN Latest(at), HasMetricName(p), MetricName(p) = PackName(num)
      PROVE  p = q /\ Latest(at)[p] = Number(ReportAt(i, k)[<<"s">>].v)
  <2>1. PICK j \in Heard(at) : /\ p \in DOMAIN SaidBy(inbox[j])
                               /\ Latest(at)[p] = SaidBy(inbox[j])[p]
                               /\ \A n \in Heard(at) : p \in DOMAIN SaidBy(inbox[n]) => n <= j
    <3>1. DOMAIN f \in SUBSET (0 .. at)
      BY <1>1, <1>2
    <3>2. \E j \in DOMAIN f : /\ p \in DOMAIN f[j] /\ LastOf(f)[p] = f[j][p]
                              /\ \A n \in DOMAIN f : p \in DOMAIN f[n] => n <= j
      BY <1>1, <1>2, <1>7, <3>1, LastOfAt
    <3> QED
      BY <1>2, <3>2
  <2>2. p \notin JsonParams(inbox[j])
    BY <1>7
  <2>3. /\ p = q
        /\ \E l \in ReportsOf(inbox[j], num) :
              /\ SaidBy(inbox[j])[p] = Number(ChargeAt(inbox[j], l)[<<"s">>].v)
              /\ \A n \in ReportsOf(inbox[j], num) : n <= l
    BY <1>1, <1>3, <1>7, <2>1, <2>2, SaidByOfPack
  <2>4. PICK l \in ReportsOf(inbox[j], num) :
           /\ SaidBy(inbox[j])[p] = Number(ChargeAt(inbox[j], l)[<<"s">>].v)
           /\ \A n \in ReportsOf(inbox[j], num) : n <= l
    BY <2>3
  <2> HIDE DEF q
  <2>5. i <= j
    BY <1>3, <2>1, <2>3
  <2>6. j = i /\ l <= k
    BY <1>1, <2>4, <2>5
  <2>7. k <= l
    BY <1>5, <2>4, <2>6
  <2>8. l = k
    <3>1. k \in Int /\ l \in Int
      <4>1. /\ k \in DOMAIN HeadersOf(inbox[i]) /\ l \in DOMAIN HeadersOf(inbox[i])
            /\ IsMessage(inbox[i])
        BY <1>1, <2>6 DEF ReportsOf, Reports
      <4>2. DOMAIN HeadersOf(inbox[i]) \subseteq Int
        BY <4>1, LenProperties DEF HeadersOf, IsMessage
      <4> QED
        BY <4>1, <4>2
    <3> QED
      BY <2>6, <2>7, <3>1
  <2> QED
    BY <2>1, <2>3, <2>4, <2>6, <2>8 DEF ReportAt, ChargeAt
<1>8. \A p \in Named(Latest(at), PackName(num)) : p = q
  BY <1>7 DEF Named
<1>9. Latest(at)[q] = Number(ReportAt(i, k)[<<"s">>].v)
  BY <1>4, <1>6, <1>7
<1> QED
  BY <1>6, <1>8, <1>9

\* Each battery pack has a metric of its own with the charge that it reported
\* last, however many packs there are and however their reports are mixed.
THEOREM PacksHaveTheirOwn == Spec => []PacksKeptApart
<1> DEFINE Inv == ReadOK /\ StateOK /\ ShownOK
<1>1. Init => Inv
  BY InitReadOK, InitShownOK
<1>2. Inv /\ [Next]_vars => Inv'
  BY NextReadOK, NextStateOK, NextShownOK
<1>3. Inv => PacksKeptApart
  <2> SUFFICES ASSUME Inv, step = "idle", NEW i \in Heard(at), NEW k \in Reports(inbox[i]),
                      ~ \E j \in Heard(at) : \E l \in Reports(inbox[j]) :
                           /\ GetNum(ReportAt(j, l)) = GetNum(ReportAt(i, k))
                           /\ j > i \/ (j = i /\ l > k),
                      ~ \E j \in Heard(at) : \E p \in JsonParams(inbox[j]) :
                           HasMetricName(p) /\ MetricName(p) = PackName(GetNum(ReportAt(i, k)))
               PROVE  /\ PackName(GetNum(ReportAt(i, k))) \in DOMAIN metrics
                      /\ metrics[PackName(GetNum(ReportAt(i, k)))] = ReportAt(i, k)[<<"s">>].v
    BY DEF PacksKeptApart
  <2> DEFINE num == GetNum(ReportAt(i, k))
             name == PackName(num)
             q == BmsPrefix(num) \o <<"s">>
             latest == Latest(at)
  <2>1. /\ InboxOK /\ Explained(at) /\ at \in Nat /\ Heard(at) \subseteq 1 .. at
        /\ \A j \in Heard(at) : IsMessage(inbox[j])
    BY HeardAreMessages DEF ReadOK, ShownOK, Done
  <2>2. \A j \in Heard(at) : \A l \in ReportsOf(inbox[j], num) : j < i \/ (j = i /\ l <= k)
    <3> TAKE j \in Heard(at)
    <3> TAKE l \in ReportsOf(inbox[j], num)
    <3>1. l \in Reports(inbox[j]) /\ GetNum(ReportAt(j, l)) = num
      BY DEF ReportsOf, ReportAt, ChargeAt
    <3>2. ~(j > i) /\ ~(j = i /\ l > k)
      BY <3>1
    <3>3. \A n \in Heard(at) : DOMAIN HeadersOf(inbox[n]) \subseteq Int
      BY <2>1, LenProperties DEF HeadersOf, IsMessage
    <3>4. k \in Int /\ l \in Int /\ i \in Int /\ j \in Int
      BY <2>1, <3>1, <3>3 DEF Reports
    <3> HIDE DEF num
    <3> QED
      BY <3>2, <3>4
  <2>3. \A j \in Heard(at) : \A p \in JsonParams(inbox[j]) :
           HasMetricName(p) => MetricName(p) # PackName(num)
    OBVIOUS
  <2>4. /\ q \in DOMAIN latest /\ latest[q] = Number(ReportAt(i, k)[<<"s">>].v)
        /\ \A p \in Named(latest, name) : p = q
    BY <2>1, <2>2, <2>3, LatestOfPack
  <2>5. num \in Nat
    BY <2>1, ReportIsSaid DEF ReportAt, ChargeAt, IsUint32
  <2>6. MetricName(q) = name /\ HasMetricName(q) /\ name # OnlineName
    <3>1. MetricName(q) = name
      BY <2>5, PackNamed
    <3>2. name[1] = "b"
      BY <2>5, PackNameRunes, Zenon DEF OfPack
    <3>3. q # <<>>
      BY <2>5, PackNamed
    <3> QED
      BY <3>1, <3>2, <3>3, OnlineNameAssumption DEF HasMetricName
  <2> HIDE DEF num, name, q, latest
  <2>7. /\ q \in DOMAIN OnlyNumbers(latest)
        /\ \A p \in DOMAIN OnlyNumbers(latest) :
              p \in DOMAIN latest /\ OnlyNumbers(latest)[p] = latest[p]
    BY <2>4 DEF OnlyNumbers, Number
  <2>8. name \in DOMAIN metrics
    BY <2>1, <2>6, <2>7 DEF Explained, latest
  <2>9. Sources(at, name) = OnlyNumbers(latest)
    BY <2>6, <2>7 DEF Sources, Named, latest
  <2>10. PICK p \in Named(OnlyNumbers(latest), name) : metrics[name] = OnlyNumbers(latest)[p].v
    BY <2>1, <2>6, <2>8, <2>9 DEF Explained
  <2>11. p = q
    BY <2>4, <2>7, <2>10 DEF Named
  <2>12. metrics[name] = ReportAt(i, k)[<<"s">>].v
    BY <2>4, <2>7, <2>10, <2>11 DEF Number
  <2> QED
    BY <2>8, <2>12 DEF name, num
<1> QED
  BY <1>1, <1>2, <1>3, PTL DEF Spec

-----------------------------------------------------------------------------
(* Telemetry                                                               *)

\* Messages of which is known whether there is anything in them.
Judged == IF step \in {"json", "protobuf", "headers"} THEN at - 1 ELSE at

ErrorsOK == decodeErrors = Cardinality(Errors(Judged))

MessagesOK ==
    /\ mqttMessages \in [Formats -> Nat]
    /\ mqttMessages["json"] + mqttMessages["protobuf"] + mqttMessages["unknown"]
          = Cardinality(Heard(at))

LastOK ==
    lastMessage = Max(WithParams(IF step \in {"idle", "handling"} THEN at ELSE at - 1)
                         \union {0})

\* After the last header it is known whether any could be read.
LEMMA EndTells ==
    ASSUME ReadOK, EndHeaders
    PROVE  /\ payload.kind = "headers" /\ nextHeader = Len(payload.headers) + 1
           /\ parsedCount = 0 <=> Nothing(payload)
<1>1. /\ payload.kind = "headers" /\ InboxOK /\ at \in Heard(at)
      /\ nextHeader \in 1 .. Len(payload.headers) + 1
      /\ nextHeader > Len(payload.headers)
      /\ parsedCount = 0 <=> ReadBefore(nextHeader) = {}
  BY DEF EndHeaders, ReadOK
<1>2. nextHeader = Len(payload.headers) + 1
  BY <1>1, PayloadFacts
<1>3. ReadBefore(nextHeader) = KnownHeaders(payload)
  BY <1>1, <1>2, ReadAll
<1> QED
  BY <1>1, <1>2, <1>3 DEF Nothing

\* So it is with JSON: an object without parameters says nothing.
LEMMA JsonTells ==
    ASSUME DecodeJson
    PROVE  /\ HeadersOf(payload) = <<>>
           /\ step' = "decoded" \/ step' = "idle"
           /\ step' = "idle" <=> Nothing(payload)
<1>1. \/ payload.kind = "json" /\ step' = "decoded"
      \/ payload.kind = "object" /\ step' = "idle"
  BY DEF DecodeJson
<1>2. HeadersOf(payload) = <<>>
  BY <1>1 DEF HeadersOf
<1>3. KnownHeaders(payload) = {}
  BY <1>2 DEF KnownHeaders
<1> QED
  BY <1>1, <1>2, <1>3 DEF Nothing

\* A message more is an error more if nothing in it is known.
LEMMA ErrorsNext ==
    ASSUME NEW n \in Nat
    PROVE  Cardinality(Errors(n + 1)) =
              IF n + 1 \in Heard(n + 1) /\ Nothing(inbox[n + 1])
              THEN Cardinality(Errors(n)) + 1 ELSE Cardinality(Errors(n))
<1>1. IsFiniteSet(Errors(n)) /\ n + 1 \notin Errors(n)
  <2>1. Errors(n) \subseteq 1 .. n
    BY HeardNext DEF Errors
  <2> QED
    BY <2>1, FS_Interval, FS_Subset
<1>2. CASE n + 1 \in Heard(n + 1) /\ Nothing(inbox[n + 1])
  <2>1. Errors(n + 1) = Errors(n) \union {n + 1}
    BY <1>2, HeardNext DEF Errors
  <2> QED
    BY <1>1, <1>2, <2>1, FS_AddElement
<1>3. CASE ~(n + 1 \in Heard(n + 1) /\ Nothing(inbox[n + 1]))
  <2>1. Errors(n + 1) = Errors(n)
    BY <1>3, HeardNext DEF Errors
  <2> QED
    BY <1>3, <2>1
<1> QED
  BY <1>2, <1>3

\* Every step counts the errors.
LEMMA NextErrorsOK == ReadOK /\ ErrorsOK /\ [Next]_vars => ErrorsOK'
<1> SUFFICES ASSUME ReadOK, ErrorsOK, [Next]_vars PROVE ErrorsOK'
  OBVIOUS
<1>1. inbox' = inbox /\ at \in Nat
  BY InboxFacts
     DEF ReadOK, Next, vars, inputVars, Ignore, Receive, DecodeJson, DecodeProtobufMessage,
         DecodeHeader, EndHeaders, MergeState, Dispatch, SetSample, SetOnline
<1>2. \A n : Errors(n)' = Errors(n)
  BY <1>1, InboxStays
<1>3. SUFFICES decodeErrors' = Cardinality(Errors(Judged'))
  BY <1>2 DEF ErrorsOK
<1>4. CASE Ignore
  <2>1. /\ decodeErrors' = decodeErrors /\ Judged = at /\ Judged' = at + 1
        /\ at + 1 \notin Heard(at + 1)
    BY <1>1, <1>4, HeardNext DEF Ignore, Judged, telemetryVars
  <2> QED
    BY <1>1, <2>1, ErrorsNext DEF ErrorsOK
<1>5. CASE Receive
  <2> DEFINE format == DetectFormat(inbox[at + 1])
  <2>1. /\ Judged = at /\ at' = at + 1 /\ at + 1 \in Heard(at + 1)
        /\ step' = IF format = "unknown" THEN "idle" ELSE format
        /\ decodeErrors' = IF format = "unknown" THEN decodeErrors + 1 ELSE decodeErrors
    BY <1>1, <1>5, HeardNext DEF Receive, Judged, DecodeError
  <2>2. format \in {"json", "protobuf", "unknown"}
    BY DEF DetectFormat
  <2>3. CASE format = "unknown"
    <3>1. Nothing(inbox[at + 1]) /\ Judged' = at + 1
      BY <2>1, <2>3, UnknownIsNothing DEF Judged
    <3> QED
      BY <1>1, <2>1, <2>3, <3>1, ErrorsNext DEF ErrorsOK
  <2>4. CASE format # "unknown"
    <3>1. Judged' = (at + 1) - 1
      BY <2>1, <2>2, <2>4 DEF Judged
    <3> QED
      BY <1>1, <2>1, <2>4, <3>1 DEF ErrorsOK
  <2> QED
    BY <2>3, <2>4
<1>6. CASE DecodeJson \/ EndHeaders
  <2>1. /\ Judged = at - 1 /\ Judged' = at /\ at \in Heard(at) /\ InboxOK
        /\ decodeErrors' = IF Nothing(payload) THEN decodeErrors + 1 ELSE decodeErrors
    <3>1. CASE DecodeJson
      <4>1. /\ step = "json" /\ at' = at /\ at \in Heard(at) /\ InboxOK
            /\ step' \in {"decoded", "idle"}
            /\ decodeErrors' = IF step' = "idle" THEN decodeErrors + 1 ELSE decodeErrors
        BY <3>1 DEF DecodeJson, DecodeError, inputVars, ReadOK
      <4> QED
        BY <3>1, <4>1, JsonTells DEF Judged
    <3>2. CASE EndHeaders
      <4>1. /\ step = "headers" /\ at' = at /\ at \in Heard(at) /\ InboxOK
            /\ step' \in {"decoded", "idle"}
            /\ decodeErrors' = IF parsedCount = 0 THEN decodeErrors + 1 ELSE decodeErrors
        BY <3>2 DEF EndHeaders, DecodeError, inputVars, ReadOK
      <4> QED
        BY <3>2, <4>1, EndTells DEF Judged
    <3> QED
      BY <1>6, <3>1, <3>2
  <2> DEFINE n == at - 1
  <2>2. n \in Nat /\ n + 1 = at /\ payload = inbox[n + 1] /\ n = Judged
    BY <1>1, <2>1, InHand DEF payload
  <2> HIDE DEF n
  <2> QED
    BY <2>1, <2>2, ErrorsNext DEF ErrorsOK
<1>7. CASE \/ DecodeProtobufMessage \/ DecodeHeader \/ MergeState \/ Dispatch \/ SetOnline
           \/ (\E p \in left : SetSample(p)) \/ UNCHANGED vars
  <2>1. Judged' = Judged /\ decodeErrors' = decodeErrors
    BY <1>7 DEF DecodeProtobufMessage, DecodeHeader, MergeState, Dispatch, SetOnline,
                SetSample, vars, inputVars, telemetryVars, Judged
  <2> QED
    BY <2>1 DEF ErrorsOK
<1> QED
  BY <1>4, <1>5, <1>6, <1>7 DEF Next

\* Every message of the device is counted once.
LEMMA NextMessagesOK == ReadOK /\ MessagesOK /\ [Next]_vars => MessagesOK'
<1> SUFFICES ASSUME ReadOK, MessagesOK, [Next]_vars PROVE MessagesOK'
  OBVIOUS
<1>1. inbox' = inbox /\ at \in Nat
  BY InboxFacts
     DEF ReadOK, Next, vars, inputVars, Ignore, Receive, DecodeJson, DecodeProtobufMessage,
         DecodeHeader, EndHeaders, MergeState, Dispatch, SetSample, SetOnline
<1>2. \A n : Heard(n)' = Heard(n)
  BY <1>1, InboxStays
<1>3. CASE Ignore
  <2>1. mqttMessages' = mqttMessages /\ at' = at + 1 /\ at + 1 \notin Heard(at + 1)
    BY <1>1, <1>3, HeardNext DEF Ignore, telemetryVars
  <2>2. Heard(at)' = Heard(at)
    BY <1>1, <1>2, <2>1, HeardNext
  <2> QED
    BY <2>1, <2>2 DEF MessagesOK
<1>4. CASE Receive
  <2> DEFINE format == DetectFormat(inbox[at + 1])
  <2>1. /\ mqttMessages' = [mqttMessages EXCEPT ![format] = @ + 1]
        /\ at' = at + 1 /\ at + 1 \in Heard(at + 1)
    BY <1>1, <1>4, HeardNext DEF Receive, MqttMessage
  <2>2. format \in Formats
    BY DEF DetectFormat, Formats
  <2>3. /\ IsFiniteSet(Heard(at)) /\ at + 1 \notin Heard(at)
        /\ Heard(at + 1) = Heard(at) \union {at + 1}
    <3>1. Heard(at) \subseteq 1 .. at
      BY <1>1, HeardNext
    <3>2. IsFiniteSet(Heard(at))
      BY <1>1, <3>1, FS_Interval, FS_Subset
    <3> QED
      BY <1>1, <2>1, <3>1, <3>2, HeardNext
  <2>4. Cardinality(Heard(at)') = Cardinality(Heard(at)) + 1
    BY <1>2, <2>1, <2>3, FS_AddElement
  <2> HIDE DEF format
  <2>5. /\ mqttMessages' \in [Formats -> Nat]
        /\ mqttMessages'["json"] + mqttMessages'["protobuf"] + mqttMessages'["unknown"]
             = mqttMessages["json"] + mqttMessages["protobuf"] + mqttMessages["unknown"] + 1
    BY <2>1, <2>2 DEF MessagesOK, Formats
  <2> QED
    BY <2>4, <2>5 DEF MessagesOK
<1>5. CASE ~Ignore /\ ~Receive
  <2>1. mqttMessages' = mqttMessages /\ at' = at
    BY <1>5 DEF Next, vars, inputVars, telemetryVars, DecodeJson, DecodeProtobufMessage,
                DecodeHeader, EndHeaders, MergeState, Dispatch, SetSample, SetOnline
  <2> QED
    BY <1>2, <2>1 DEF MessagesOK
<1> QED
  BY <1>3, <1>4, <1>5

\* The message whose parameters are passed on is the last that had any.
LEMMA NextLastOK == ReadOK /\ LastOK /\ [Next]_vars => LastOK'
<1> SUFFICES ASSUME ReadOK, LastOK, [Next]_vars PROVE LastOK'
  OBVIOUS
<1>1. inbox' = inbox /\ at \in Nat
  BY InboxFacts
     DEF ReadOK, Next, vars, inputVars, Ignore, Receive, DecodeJson, DecodeProtobufMessage,
         DecodeHeader, EndHeaders, MergeState, Dispatch, SetSample, SetOnline
<1>2. \A n : WithParams(n)' = WithParams(n)
  BY <1>1, InboxStays
<1> DEFINE Passed == IF step \in {"idle", "handling"} THEN at ELSE at - 1
<1>3. CASE Dispatch
  <2>1. /\ lastMessage' = at /\ Passed' = at /\ at' = at /\ at \in Heard(at)
        /\ SaidBy(payload) # NoParams
    BY <1>3 DEF Dispatch, DeviceSeen, inputVars, ReadOK
  <2>2. WithParams(at) \subseteq 1 .. at /\ at \in WithParams(at)
    BY <1>1, <2>1, HeardNext DEF WithParams, payload
  <2>3. Max(WithParams(at) \union {0}) = at
    BY <1>1, <2>2, MaxIs
  <2> QED
    BY <1>2, <2>1, <2>3 DEF LastOK
<1>4. CASE ~Dispatch
  <2>1. lastMessage' = lastMessage
    BY <1>4 DEF Next, vars, telemetryVars, Ignore, Receive, DecodeJson,
                DecodeProtobufMessage, DecodeHeader, EndHeaders, MergeState, SetSample, SetOnline
  <2>2. WithParams(Passed') = WithParams(Passed)
    <3>1. ASSUME NEW n \in Nat, n + 1 \in Heard(n + 1) => SaidBy(inbox[n + 1]) = NoParams
          PROVE  WithParams(n + 1) = WithParams(n)
      BY <3>1, HeardNext DEF WithParams
    <3>2. CASE Ignore
      <4>1. Passed = at /\ Passed' = at + 1 /\ at + 1 \notin Heard(at + 1)
        BY <1>1, <3>2, HeardNext DEF Ignore
      <4> QED
        BY <1>1, <3>1, <4>1
    <3>3. CASE Receive
      <4>1. Passed = at /\ at' = at + 1
            /\ step' = IF DetectFormat(inbox[at + 1]) = "unknown" THEN "idle"
                       ELSE DetectFormat(inbox[at + 1])
        BY <3>3 DEF Receive
      <4>2. CASE step' = "idle"
        <5>1. DetectFormat(inbox[at + 1]) = "unknown"
          BY <4>1, <4>2 DEF DetectFormat
        <5>2. SaidBy(inbox[at + 1]) = NoParams
          BY <5>1, UnknownIsNothing, NothingIsSaid
        <5> QED
          BY <1>1, <3>1, <4>1, <4>2, <5>2
      <4>3. CASE step' # "idle"
        <5>1. step' # "handling"
          BY <4>1 DEF DetectFormat
        <5> QED
          BY <1>1, <4>1, <4>3, <5>1
      <4> QED
        BY <4>2, <4>3
    <3>4. CASE DecodeJson \/ EndHeaders \/ MergeState
      <4>1. /\ at' = at /\ Passed = at - 1 /\ step' \in {"idle", "decoded", "merged"}
            /\ at \in Heard(at) /\ InboxOK
        BY <3>4 DEF DecodeJson, EndHeaders, MergeState, inputVars, ReadOK
      <4>2. CASE step' = "idle"
        <5>1. SaidBy(payload) = NoParams
          <6>1. CASE DecodeJson \/ EndHeaders
            <7>1. Nothing(payload)
              BY <4>2, <6>1, JsonTells, EndTells DEF EndHeaders
            <7> QED
              BY <7>1, NothingIsSaid
          <6>2. CASE MergeState
            BY <4>2, <6>2 DEF MergeState, ReadOK
          <6> QED
            BY <3>4, <6>1, <6>2
        <5> DEFINE n == at - 1
        <5>2. n \in Nat /\ n + 1 = at /\ payload = inbox[n + 1] /\ n = Passed /\ Passed' = n + 1
          BY <1>1, <4>1, <4>2, InHand DEF payload
        <5> HIDE DEF n, Passed
        <5> QED
          BY <3>1, <5>1, <5>2
      <4>3. CASE step' # "idle"
        BY <4>1, <4>3
      <4> QED
        BY <4>2, <4>3
    <3>5. CASE \/ DecodeProtobufMessage \/ DecodeHeader \/ SetOnline
               \/ (\E p \in left : SetSample(p)) \/ UNCHANGED vars
      BY <3>5 DEF DecodeProtobufMessage, DecodeHeader, SetOnline, SetSample, vars, inputVars
    <3> QED
      BY <1>4, <3>2, <3>3, <3>4, <3>5 DEF Next
  <2> QED
    BY <1>2, <2>1, <2>2 DEF LastOK
<1> QED
  BY <1>3, <1>4

\* The headers that were passed over so far.
Passed ==
    IF step \in {"json", "protobuf"} THEN Unread(at - 1)
    ELSE IF step = "headers"
         THEN {pos \in Unread(at) : pos[1] < at \/ pos[2] < nextHeader}
         ELSE Unread(at)

Counted(U) ==
    /\ DOMAIN unknownCommands = {CommandAt(pos) : pos \in U}
    /\ \A cmd \in DOMAIN unknownCommands :
          unknownCommands[cmd] = Cardinality({pos \in U : CommandAt(pos) = cmd})

CommandsOK == IsFiniteSet(Passed) /\ Counted(Passed)

\* A message more adds its headers that say nothing.
LEMMA UnreadNext ==
    ASSUME NEW n \in Nat
    PROVE  /\ \A pos \in Unread(n) : pos[1] \in 1 .. n /\ pos = <<pos[1], pos[2]>>
           /\ Unread(n) \subseteq Unread(n + 1)
           /\ \A pos \in Unread(n + 1) : pos \in Unread(n) \/ pos[1] = n + 1
           /\ n + 1 \in Heard(n + 1) =>
                 \A k : <<n + 1, k>> \in Unread(n + 1) <=>
                           k \in DOMAIN HeadersOf(inbox[n + 1]) \ KnownHeaders(inbox[n + 1])
           /\ n + 1 \notin Heard(n + 1) => Unread(n + 1) = Unread(n)
<1> DEFINE From(i) == {<<i, k>> : k \in DOMAIN HeadersOf(inbox[i]) \ KnownHeaders(inbox[i])}
<1>1. \A m, pos : pos \in Unread(m) <=> \E i \in Heard(m) : pos \in From(i)
  BY DEF Unread
<1>2. \A i, pos : pos \in From(i) => pos[1] = i /\ pos = <<pos[1], pos[2]>>
  OBVIOUS
<1>3. \A i, k : <<i, k>> \in From(i) <=>
                   k \in DOMAIN HeadersOf(inbox[i]) \ KnownHeaders(inbox[i])
  OBVIOUS
<1> HIDE DEF From
<1>4. /\ Heard(n) \subseteq 1 .. n
      /\ n + 1 \in Heard(n + 1) => Heard(n + 1) = Heard(n) \union {n + 1}
      /\ n + 1 \notin Heard(n + 1) => Heard(n + 1) = Heard(n)
  BY HeardNext
<1>5. ASSUME n + 1 \in Heard(n + 1), NEW k
      PROVE  <<n + 1, k>> \in Unread(n + 1) <=> <<n + 1, k>> \in From(n + 1)
  BY <1>1, <1>2, <1>4, <1>5
<1>6. n + 1 \notin Heard(n + 1) => Unread(n + 1) = Unread(n)
  BY <1>4 DEF Unread
<1> QED
  BY <1>1, <1>2, <1>3, <1>4, <1>5, <1>6

\* A message without headers adds none.
LEMMA UnreadKept ==
    ASSUME NEW n \in Nat, HeadersOf(inbox[n + 1]) = <<>> \/ n + 1 \notin Heard(n + 1)
    PROVE  Unread(n + 1) = Unread(n)
<1>1. CASE n + 1 \in Heard(n + 1)
  <2>1. DOMAIN HeadersOf(inbox[n + 1]) = {}
    BY <1>1
  <2>2. Heard(n + 1) = Heard(n) \union {n + 1}
    BY <1>1, HeardNext
  <2> QED
    BY <2>1, <2>2 DEF Unread
<1> QED
  BY <1>1, UnreadNext

\* A command that cannot be read is counted once more.
LEMMA CountedNext ==
    ASSUME NEW U, IsFiniteSet(U), Counted(U), NEW pos, pos \notin U,
           logUnknownCommand(CommandAt(pos))
    PROVE  /\ DOMAIN unknownCommands' = {CommandAt(p) : p \in U \union {pos}}
           /\ \A c \in DOMAIN unknownCommands' :
                 unknownCommands'[c] = Cardinality({p \in U \union {pos} : CommandAt(p) = c})
<1> DEFINE cmd == CommandAt(pos)
           Of(V, c) == {p \in V : CommandAt(p) = c}
           seen == IF cmd \in DOMAIN unknownCommands THEN unknownCommands[cmd] ELSE 0
<1>1. /\ DOMAIN unknownCommands' = DOMAIN unknownCommands \union {cmd}
      /\ unknownCommands'[cmd] = seen + 1
      /\ \A c \in DOMAIN unknownCommands \ {cmd} : unknownCommands'[c] = unknownCommands[c]
  BY DEF logUnknownCommand, Put
<1>2. seen = Cardinality(Of(U, cmd))
  <2>1. CASE cmd \in DOMAIN unknownCommands
    BY <2>1 DEF Counted
  <2>2. CASE cmd \notin DOMAIN unknownCommands
    <3>1. Of(U, cmd) = {}
      BY <2>2 DEF Counted
    <3> QED
      BY <2>2, <3>1, FS_EmptySet
  <2> QED
    BY <2>1, <2>2
<1>3. Cardinality(Of(U \union {pos}, cmd)) = seen + 1
  <2>1. /\ Of(U \union {pos}, cmd) = Of(U, cmd) \union {pos}
        /\ pos \notin Of(U, cmd)
    OBVIOUS
  <2>2. IsFiniteSet(Of(U, cmd))
    BY FS_Subset
  <2> HIDE DEF Of
  <2> QED
    BY <1>2, <2>1, <2>2, FS_AddElement
<1>4. \A c : c # cmd => Of(U \union {pos}, c) = Of(U, c)
  OBVIOUS
<1>5. DOMAIN unknownCommands' = {CommandAt(p) : p \in U \union {pos}}
  BY <1>1 DEF Counted
<1>6. \A c \in DOMAIN unknownCommands :
         unknownCommands[c] = Cardinality(Of(U, c))
  BY DEF Counted
<1>7. \A c \in DOMAIN unknownCommands' :
         unknownCommands'[c] = Cardinality(Of(U \union {pos}, c))
  <2> HIDE DEF Of, seen, cmd
  <2> QED
    BY <1>1, <1>3, <1>4, <1>6
<1> QED
  BY <1>5, <1>7

\* Every step counts the headers that it passes over.
LEMMA NextCommandsOK == ReadOK /\ CommandsOK /\ [Next]_vars => CommandsOK'
<1> SUFFICES ASSUME ReadOK, CommandsOK, [Next]_vars PROVE CommandsOK'
  OBVIOUS
<1>1. inbox' = inbox /\ at \in Nat
  BY InboxFacts
     DEF ReadOK, Next, vars, inputVars, Ignore, Receive, DecodeJson, DecodeProtobufMessage,
         DecodeHeader, EndHeaders, MergeState, Dispatch, SetSample, SetOnline
<1>2. \A n : Unread(n)' = Unread(n)
  BY <1>1, InboxStays
<1>3. ASSUME unknownCommands' = unknownCommands, Passed' = Passed
      PROVE  CommandsOK'
  <2>1. \A p : CommandAt(p)' = CommandAt(p)
    BY <1>1 DEF CommandAt
  <2> QED
    BY <1>3, <2>1 DEF CommandsOK, Counted
<1>4. ASSUME step # "idle"
      PROVE  /\ at \in Heard(at) /\ InboxOK /\ at - 1 \in Nat
             /\ \A pos \in Unread(at - 1) : pos[1] < at
             /\ Unread(at - 1) \subseteq Unread(at)
             /\ \A pos \in Unread(at) :
                   pos = <<pos[1], pos[2]>> /\ (pos \in Unread(at - 1) \/ pos[1] = at)
             /\ \A k : <<at, k>> \in Unread(at) <=>
                          k \in DOMAIN HeadersOf(payload) \ KnownHeaders(payload)
             /\ HeadersOf(payload) = <<>> => Unread(at) = Unread(at - 1)
  <2>1. at \in Heard(at) /\ InboxOK
    BY <1>4 DEF ReadOK
  <2> DEFINE n == at - 1
  <2>2. n \in Nat /\ n + 1 = at /\ n + 1 \in Heard(n + 1) /\ payload = inbox[n + 1]
    BY <1>1, <2>1, InHand DEF payload
  <2>3. n = at - 1
    OBVIOUS
  <2> HIDE DEF n
  <2>4. /\ \A pos \in Unread(n) : pos[1] \in 1 .. n /\ pos = <<pos[1], pos[2]>>
        /\ \A pos \in Unread(n + 1) :
              pos = <<pos[1], pos[2]>> /\ (pos \in Unread(n) \/ pos[1] = n + 1)
    <3>1. n + 1 \in Nat
      BY <2>2
    <3> QED
      BY <2>2, <3>1, UnreadNext
  <2>5. /\ Unread(n) \subseteq Unread(n + 1)
        /\ \A k : <<n + 1, k>> \in Unread(n + 1) <=>
                     k \in DOMAIN HeadersOf(inbox[n + 1]) \ KnownHeaders(inbox[n + 1])
        /\ HeadersOf(inbox[n + 1]) = <<>> => Unread(n + 1) = Unread(n)
    BY <2>2, UnreadNext, UnreadKept
  <2> QED
    BY <2>1, <2>2, <2>3, <2>4, <2>5
<1>5. CASE Ignore
  <2>1. /\ unknownCommands' = unknownCommands /\ at' = at + 1 /\ step = "idle"
        /\ step' = "idle" /\ at + 1 \notin Heard(at + 1)
    BY <1>1, <1>5, HeardNext DEF Ignore
  <2>2. Unread(at + 1) = Unread(at)
    BY <1>1, <2>1, UnreadKept
  <2>3. Passed' = Passed
    BY <1>2, <2>1, <2>2 DEF Passed
  <2> QED
    BY <1>3, <2>1, <2>3
<1>6. CASE Receive
  <2> DEFINE format == DetectFormat(inbox[at + 1])
  <2>1. /\ unknownCommands' = unknownCommands /\ at' = at + 1 /\ step = "idle"
        /\ step' = IF format = "unknown" THEN "idle" ELSE format
    BY <1>6 DEF Receive
  <2>2. format \in {"json", "protobuf", "unknown"}
    BY DEF DetectFormat
  <2>3. CASE format = "unknown"
    <3>1. HeadersOf(inbox[at + 1]) = <<>>
      BY <2>3 DEF DetectFormat, HeadersOf
    <3>2. Unread(at + 1) = Unread(at)
      BY <1>1, <3>1, UnreadKept
    <3>3. Passed' = Passed
      BY <1>2, <2>1, <2>3, <3>2 DEF Passed
    <3> QED
      BY <1>3, <2>1, <3>3
  <2>4. CASE format # "unknown"
    <3>1. Passed' = Unread((at + 1) - 1) /\ Passed = Unread(at)
      BY <1>2, <2>1, <2>2, <2>4 DEF Passed
    <3> QED
      BY <1>1, <1>3, <2>1, <3>1
  <2> QED
    BY <2>3, <2>4
<1>7. CASE DecodeJson
  <2>1. /\ unknownCommands' = unknownCommands /\ at' = at /\ step = "json"
        /\ step' \in {"decoded", "idle"} /\ HeadersOf(payload) = <<>>
    BY <1>7, JsonTells DEF DecodeJson, inputVars
  <2>2. Passed' = Passed
    BY <1>2, <1>4, <2>1 DEF Passed
  <2> QED
    BY <1>3, <2>1, <2>2
<1>8. CASE DecodeProtobufMessage
  <2>1. /\ unknownCommands' = unknownCommands /\ at' = at /\ step = "protobuf"
        /\ step' = "headers" /\ nextHeader' = 1 /\ payload.kind = "headers"
    BY <1>8 DEF DecodeProtobufMessage, inputVars, telemetryVars, ReadOK
  <2>2. \A k : <<at, k>> \in Unread(at) => k \in Nat /\ k >= 1
    BY <1>4, <2>1, PayloadFacts DEF HeadersOf
  <2>3. {pos \in Unread(at) : pos[1] < at \/ pos[2] < 1} = Unread(at - 1)
    BY <1>1, <1>4, <2>1, <2>2
  <2>4. Passed' = Passed
    BY <1>2, <2>1, <2>3 DEF Passed
  <2> QED
    BY <1>3, <2>1, <2>4
<1>9. CASE DecodeHeader
  <2> DEFINE k == nextHeader
             read == ReadHeader(payload.headers[k])
             before == {pos \in Unread(at) : pos[1] < at \/ pos[2] < k}
             after == {pos \in Unread(at) : pos[1] < at \/ pos[2] < k + 1}
  <2>1. /\ step = "headers" /\ step' = "headers" /\ payload.kind = "headers"
        /\ k \in 1 .. Len(payload.headers) /\ Len(payload.headers) \in Nat
        /\ DOMAIN payload.headers = 1 .. Len(payload.headers)
        /\ nextHeader' = k + 1 /\ at' = at
    BY <1>4, <1>9, PayloadFacts DEF DecodeHeader, ReadOK, inputVars
  <2>2. read.parsed <=> k \in KnownHeaders(payload)
    BY <1>4, <2>1, ReadNext
  <2>3. \A j : <<at, j>> \in Unread(at) <=>
                  j \in 1 .. Len(payload.headers) /\ j \notin KnownHeaders(payload)
    BY <1>4, <2>1 DEF HeadersOf
  <2>4. /\ IsFiniteSet(before) /\ Counted(before) /\ Passed = before /\ Passed' = after
    BY <1>2, <2>1 DEF CommandsOK, Passed
  <2>5. \A pos \in Unread(at) : pos[1] < at \/ (pos[1] = at /\ pos = <<at, pos[2]>>
                                                  /\ pos[2] \in 1 .. Len(payload.headers))
    BY <1>4, <2>1, <2>3
  <2>6. CASE read.parsed
    <3>1. \A pos \in Unread(at) : pos[1] < at \/ pos[2] # k
      BY <2>2, <2>3, <2>5, <2>6
    <3>2. after = before
      BY <2>1, <2>5, <3>1
    <3>3. unknownCommands' = unknownCommands
      BY <1>9, <2>6 DEF DecodeHeader
    <3> QED
      BY <1>3, <2>4, <3>2, <3>3
  <2>7. CASE ~read.parsed
    <3>1. <<at, k>> \in Unread(at) /\ <<at, k>> \notin before
      BY <1>1, <2>1, <2>2, <2>3, <2>7
    <3>2. after = before \union {<<at, k>>}
      BY <2>1, <2>5, <3>1
    <3>3. logUnknownCommand(CommandAt(<<at, k>>))
      BY <1>9, <2>7 DEF DecodeHeader, CommandAt, payload
    <3> HIDE DEF before, after, read
    <3>4. /\ DOMAIN unknownCommands' = {CommandAt(p) : p \in after}
          /\ \A c \in DOMAIN unknownCommands' :
                unknownCommands'[c] = Cardinality({p \in after : CommandAt(p) = c})
      <4> DEFINE more == before \union {<<at, k>>}
      <4>1. /\ DOMAIN unknownCommands' = {CommandAt(p) : p \in more}
            /\ \A c \in DOMAIN unknownCommands' :
                  unknownCommands'[c] = Cardinality({p \in more : CommandAt(p) = c})
        BY <2>4, <3>1, <3>3, CountedNext
      <4> QED
        BY <3>2, <4>1
    <3>5. IsFiniteSet(after)
      BY <2>4, <3>2, FS_AddElement
    <3>6. \A p : CommandAt(p)' = CommandAt(p)
      BY <1>1 DEF CommandAt
    <3> QED
      BY <2>4, <3>4, <3>5, <3>6 DEF CommandsOK, Counted
  <2> QED
    BY <2>6, <2>7
<1>10. CASE EndHeaders
  <2>1. /\ unknownCommands' = unknownCommands /\ at' = at /\ step = "headers"
        /\ step' \in {"idle", "decoded"} /\ payload.kind = "headers"
        /\ nextHeader = Len(payload.headers) + 1
    BY <1>10, EndTells DEF EndHeaders, inputVars
  <2>2. /\ Len(payload.headers) \in Nat
        /\ \A k : <<at, k>> \in Unread(at) => k \in 1 .. Len(payload.headers)
    BY <1>4, <2>1, PayloadFacts DEF HeadersOf
  <2>3. {pos \in Unread(at) : pos[1] < at \/ pos[2] < nextHeader} = Unread(at)
    BY <1>1, <1>4, <2>1, <2>2
  <2>4. Passed' = Passed
    BY <1>2, <2>1, <2>3 DEF Passed
  <2> QED
    BY <1>3, <2>1, <2>4
<1>11. CASE \/ MergeState \/ Dispatch \/ SetOnline \/ (\E p \in left : SetSample(p))
            \/ UNCHANGED vars
  <2>1. unknownCommands' = unknownCommands /\ at' = at /\ nextHeader' = nextHeader
        /\ \/ step' = step
           \/ step \in {"decoded", "merged", "handling"}
              /\ step' \in {"idle", "merged", "handling"}
    BY <1>11 DEF MergeState, Dispatch, SetOnline, SetSample, vars, inputVars, decoderVars
  <2>2. Passed' = Passed
    BY <1>2, <2>1 DEF Passed
  <2> QED
    BY <1>3, <2>1, <2>2
<1> QED
  BY <1>5, <1>6, <1>7, <1>8, <1>9, <1>10, <1>11 DEF Next

\* At first nothing was counted.
LEMMA InitCountsOK == Init => ErrorsOK /\ MessagesOK /\ LastOK /\ CommandsOK
<1> SUFFICES ASSUME Init PROVE ErrorsOK /\ MessagesOK /\ LastOK /\ CommandsOK
  OBVIOUS
<1>1. /\ at = 0 /\ step = "idle" /\ unknownCommands = NoParams /\ decodeErrors = 0
      /\ mqttMessages = [f \in Formats |-> 0] /\ lastMessage = 0
  BY DEF Init, NewTelemetry, NewProtobufDecoder
<1>2. Heard(0) = {} /\ Errors(0) = {} /\ WithParams(0) = {} /\ Unread(0) = {}
  BY DEF Heard, Errors, WithParams, Unread
<1>3. IsFiniteSet({}) /\ Cardinality({}) = 0
  BY FS_EmptySet
<1>4. Max(WithParams(0) \union {0}) = 0
  BY <1>2, MaxIs
<1>5. DOMAIN NoParams = {}
  BY Zenon DEF NoParams, AsParams, NamedFields
<1>6. Passed = {} /\ Counted({})
  BY <1>1, <1>2, <1>5 DEF Passed, Counted
<1> QED
  BY <1>1, <1>2, <1>3, <1>4, <1>6
     DEF ErrorsOK, Judged, MessagesOK, LastOK, CommandsOK, Formats

\* Errors, messages and commands are counted as what was received says, however
\* it is encoded, and the last message is one that had parameters.
THEOREM TelemetryIsRight == Spec => []TelemetryTells
<1> DEFINE Inv == ReadOK /\ ErrorsOK /\ MessagesOK /\ LastOK /\ CommandsOK
<1>1. Init => Inv
  BY InitReadOK, InitCountsOK
<1>2. Inv /\ [Next]_vars => Inv'
  BY NextReadOK, NextErrorsOK, NextMessagesOK, NextLastOK, NextCommandsOK
<1>3. Inv => TelemetryTells
  BY DEF TelemetryTells, ErrorsOK, Judged, MessagesOK, LastOK, CommandsOK, Passed, Counted
<1> QED
  BY <1>1, <1>2, <1>3, PTL DEF Spec

=============================================================================

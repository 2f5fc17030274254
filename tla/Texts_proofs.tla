---------------------------- MODULE Texts_proofs ----------------------------
(***************************************************************************)
(* What is computed from a text, for texts of every length: what is called *)
(* an IBAN, an IMEI or a telephone number is one, and the scanners of the  *)
(* statements that come in see the same statements in them.                *)
(***************************************************************************)
EXTENDS ScalarFunctions, SqlText, SequenceTheorems, WellFoundedInduction, TLAPS

-------------------------------------------------------------------------------
\* Induction and recursion over numbers, with sets and functions in the place
\* of predicates and definitions.

Less == {p \in Nat \X Nat : p[1] < p[2]}

\* Natural numbers do not descend for ever.
LEMMA LessWellFounded == IsWellFoundedOn(Less, Nat)
<1>1. IsWellFoundedOn(OpToRel(<, Nat), Nat)
  BY NatLessThanWellFounded
<1>2. OpToRel(<, Nat) = Less
  BY DEF OpToRel, Less
<1> QED
  BY <1>1, <1>2

\* A set that holds 0, and with each number below n the next one, holds all
\* numbers up to n.
LEMMA UpTo ==
    ASSUME NEW n \in Nat, NEW T, 0 \in T, \A i \in 1 .. n : i - 1 \in T => i \in T
    PROVE  \A i \in 0 .. n : i \in T
<1> SUFFICES ASSUME (0 .. n) \ T # {} PROVE FALSE
  OBVIOUS
<1> DEFINE rest == (0 .. n) \ T
<1>1. PICK x \in rest : \A y \in rest : ~(<<y, x>> \in Less)
  <2>1. rest \subseteq Nat /\ rest # {}
    OBVIOUS
  <2> HIDE DEF rest
  <2> QED
    BY <2>1, LessWellFounded, WFMin
<1>2. x # 0 /\ x \in 1 .. n /\ x - 1 \in Nat /\ x - 1 \in 0 .. n /\ x - 1 < x
  OBVIOUS
<1>3. x - 1 \in T
  <2>1. <<x - 1, x>> \in Less
    BY <1>2 DEF Less
  <2>2. x - 1 \notin rest
    BY <1>1, <2>1
  <2> QED
    BY <1>2, <2>2
<1> QED
  BY <1>2, <1>3

\* The values on the way from a, if the i-th step is the function G[i].
Ways(k, X, a, G) ==
    {f \in [0 .. k -> X] : f[0] = a /\ \A i \in 1 .. k : f[i] = G[i][f[i - 1]]}

\* Any number of steps can be taken.
LEMMA Recursion ==
    ASSUME NEW n \in Nat, NEW X, NEW a \in X, NEW G \in [1 .. n -> [X -> X]]
    PROVE  Ways(n, X, a, G) # {}
<1> USE DEF Ways
<1> DEFINE F(k) == Ways(k, X, a, G)
           T == {k \in 0 .. n : F(k) # {}}
<1>1. 0 \in T
  <2>1. [i \in 0 .. 0 |-> a] \in F(0)
    OBVIOUS
  <2> QED
    BY <2>1
<1>2. ASSUME NEW k \in 1 .. n, k - 1 \in T PROVE k \in T
  <2>1. PICK f \in F(k - 1) : TRUE
    BY <1>2
  <2>2. /\ f \in [0 .. (k - 1) -> X] /\ f[0] = a
        /\ \A i \in 1 .. (k - 1) : f[i] = G[i][f[i - 1]]
    BY <2>1
  <2> DEFINE g == [i \in 0 .. k |-> IF i = k THEN G[k][f[k - 1]] ELSE f[i]]
  <2>3. G[k][f[k - 1]] \in X
    BY <2>2
  <2>4. g \in [0 .. k -> X] /\ g[0] = a
    BY <2>2, <2>3
  <2>5. ASSUME NEW i \in 1 .. k PROVE g[i] = G[i][g[i - 1]]
    BY <2>2
  <2>6. g \in F(k)
    BY <2>4, <2>5
  <2>7. k \in 0 .. n
    OBVIOUS
  <2> HIDE DEF F, g
  <2> QED
    BY <2>6, <2>7
<1>3. n \in T
  <2>1. n \in 0 .. n
    OBVIOUS
  <2>2. \A i \in 1 .. n : i - 1 \in T => i \in T
    BY <1>2
  <2> HIDE DEF T
  <2>3. \A i \in 0 .. n : i \in T
    BY <2>2, <1>1, UpTo
  <2> QED
    BY <2>1, <2>3
<1> QED
  BY <1>3

-------------------------------------------------------------------------------
\* Kept characters, and the parts of a number.

Char == 0 .. 35

\* Whoever keeps the characters one after another has what Only keeps.
LEMMA OnlyIs ==
    ASSUME NEW text \in Seq(Int), NEW chars, NEW g,
           g[0] = <<>>,
           \A i \in 1 .. Len(text) :
               g[i] = IF text[i] \in chars THEN Append(g[i - 1], text[i]) ELSE g[i - 1]
    PROVE  Only(text, chars) = g[Len(text)]
<1> DEFINE n == Len(text)
           Law(f) == [i \in 0 .. n |-> IF i = 0 THEN <<>>
                         ELSE IF text[i] \in chars THEN Append(f[i - 1], text[i]) ELSE f[i - 1]]
           h == [i \in 0 .. n |-> g[i]]
           kept == CHOOSE f : f = Law(f)
           T == {i \in 0 .. n : kept[i] = g[i]}
<1>1. n \in Nat
  OBVIOUS
<1>2. h = Law(h)
  <2>1. ASSUME NEW i \in 0 .. n, i # 0 PROVE h[i - 1] = g[i - 1] /\ i \in 1 .. n
    BY <1>1, <2>1
  <2> HIDE DEF n
  <2> QED
    BY <2>1 DEF n
<1>3. kept = Law(kept)
  <2> HIDE DEF h, Law
  <2> QED
    BY <1>2
<1>4. Only(text, chars) = kept[n]
  BY DEF Only
<1> HIDE DEF kept, h
<1>5. 0 \in T
  BY <1>1, <1>3
<1>6. ASSUME NEW i \in 1 .. n, i - 1 \in T PROVE i \in T
  <2>1. i \in 0 .. n /\ i # 0 /\ kept[i - 1] = g[i - 1]
    BY <1>1, <1>6
  <2>2. Law(kept)[i] = IF text[i] \in chars THEN Append(kept[i - 1], text[i]) ELSE kept[i - 1]
    BY <2>1
  <2>3. kept[i] = Law(kept)[i]
    BY <1>3
  <2> HIDE DEF Law
  <2> QED
    BY <2>1, <2>2, <2>3
<1>7. n \in T
  <2>1. \A i \in 1 .. n : i - 1 \in T => i \in T
    BY <1>6
  <2>2. n \in 0 .. n
    BY <1>1
  <2> HIDE DEF T, n
  <2> QED
    BY <2>1, <2>2, <1>1, <1>5, UpTo
<1> QED
  BY <1>4, <1>7

\* A text of such characters is kept whole.
LEMMA OnlyWhole ==
    ASSUME NEW chars \in SUBSET Int, NEW text \in Seq(chars)
    PROVE  Only(text, chars) = text
<1> DEFINE g == [i \in 0 .. Len(text) |-> SubSeq(text, 1, i)]
<1>1. text \in Seq(Int) /\ Len(text) \in Nat
  <2>1. chars \subseteq Int
    OBVIOUS
  <2>2. text \in Seq(Int)
    BY <2>1, SeqMonotonic, Zenon
  <2> QED
    BY <2>2
<1>2. g[0] = <<>>
  OBVIOUS
<1>3. ASSUME NEW i \in 1 .. Len(text)
      PROVE  g[i] = IF text[i] \in chars THEN Append(g[i - 1], text[i]) ELSE g[i - 1]
  <2>1. text[i] \in chars /\ g[i] = SubSeq(text, 1, i) /\ g[i - 1] = SubSeq(text, 1, i - 1)
    OBVIOUS
  <2>2. SubSeq(text, 1, i) = Append(SubSeq(text, 1, i - 1), text[i])
    BY SubSeqRecursiveSecond
  <2> QED
    BY <2>1, <2>2
<1>4. g[Len(text)] = text
  BY <1>1, SubSeqFull
<1> HIDE DEF g
<1> QED
  BY <1>1, <1>2, <1>3, <1>4, OnlyIs

\* Spaces are left out.
LEMMA OnlyAroundSpace ==
    ASSUME NEW u \in Seq(Char), NEW v \in Seq(Char)
    PROVE  Cleaned(u \o <<Space>> \o v) = u \o v
<1> DEFINE a == Len(u)
           b == Len(v)
           text == u \o <<Space>> \o v
           g == [i \in 0 .. (a + 1 + b) |->
                    IF i <= a THEN SubSeq(u, 1, i) ELSE u \o SubSeq(v, 1, i - a - 1)]
<1>1. a \in Nat /\ b \in Nat /\ Char \subseteq Int /\ Space \in Int /\ Space \notin Char
  BY DEF Char, Space
<1>2. u \in Seq(Int) /\ v \in Seq(Int)
  BY <1>1, SeqMonotonic, Zenon
<1>3. /\ text \in Seq(Int) /\ Len(text) = a + 1 + b
      /\ \A i \in 1 .. a : text[i] = u[i]
      /\ text[a + 1] = Space
      /\ \A i \in (a + 2) .. (a + 1 + b) : text[i] = v[i - a - 1]
  BY <1>1, <1>2
<1>4. \A i \in 1 .. a : SubSeq(u, 1, i) = Append(SubSeq(u, 1, i - 1), u[i])
  <2> TAKE i \in 1 .. a
  <2>1. 1 \in 1 .. Len(u) /\ i \in 1 .. Len(u)
    BY <1>1
  <2> QED
    BY <2>1, SubSeqRecursiveSecond
<1>5. \A i \in 1 .. b : u \o SubSeq(v, 1, i) = Append(u \o SubSeq(v, 1, i - 1), v[i])
  <2> TAKE i \in 1 .. b
  <2>1. 1 \in 1 .. Len(v) /\ i \in 1 .. Len(v)
    BY <1>1
  <2>2. SubSeq(v, 1, i) = Append(SubSeq(v, 1, i - 1), v[i])
    BY <2>1, SubSeqRecursiveSecond
  <2>3. SubSeq(v, 1, i - 1) \in Seq(Char) /\ v[i] \in Char
    BY <2>1
  <2> QED
    BY <2>2, <2>3
<1>6. SubSeq(u, 1, a) = u /\ SubSeq(v, 1, b) = v /\ SubSeq(v, 1, 0) = <<>> /\ SubSeq(u, 1, 0) = <<>>
  BY SubSeqFull, SubSeqEmpty
<1> HIDE DEF a, b, text
<1>7. g[0] = <<>>
  BY <1>1, <1>6
<1>8. ASSUME NEW i \in 1 .. (a + 1 + b)
      PROVE  g[i] = IF text[i] \in Char THEN Append(g[i - 1], text[i]) ELSE g[i - 1]
  <2>1. CASE i <= a
    <3>1. i \in 1 .. a /\ i - 1 <= a /\ i - 1 \in 0 .. (a + 1 + b) /\ u[i] \in Char
      BY <1>1, <2>1 DEF a
    <3>2. g[i] = SubSeq(u, 1, i) /\ g[i - 1] = SubSeq(u, 1, i - 1)
      BY <3>1, <2>1
    <3> QED
      BY <3>1, <3>2, <1>3, <1>4
  <2>2. CASE i = a + 1
    <3>1. g[i] = u \o SubSeq(v, 1, 0) /\ g[i - 1] = SubSeq(u, 1, a)
      BY <1>1, <2>2
    <3>2. u \o <<>> = u
      OBVIOUS
    <3> QED
      BY <3>1, <3>2, <1>1, <1>3, <1>6, <2>2
  <2>3. CASE i > a + 1
    <3> DEFINE j == i - a - 1
    <3>1. j \in 1 .. b /\ i \in (a + 2) .. (a + 1 + b) /\ v[j] \in Char /\ ~(i <= a)
      BY <1>1, <2>3 DEF b
    <3>2. g[i] = u \o SubSeq(v, 1, j)
      BY <3>1
    <3>3. g[i - 1] = u \o SubSeq(v, 1, j - 1)
      <4>1. i - 1 \in 0 .. (a + 1 + b) /\ ~(i - 1 <= a) /\ (i - 1) - a - 1 = j - 1
        BY <1>1, <2>3
      <4> QED
        BY <4>1
    <3>4. text[i] = v[j]
      BY <3>1, <1>3
    <3> HIDE DEF j, g
    <3> QED
      BY <3>1, <3>2, <3>3, <3>4, <1>5
  <2> QED
    BY <1>1, <2>1, <2>2, <2>3
<1>9. g[a + 1 + b] = u \o v
  <2>1. a + 1 + b \in 0 .. (a + 1 + b) /\ ~(a + 1 + b <= a) /\ (a + 1 + b) - a - 1 = b
    BY <1>1
  <2> QED
    BY <2>1, <1>6
<1> HIDE DEF g
<1>10. Only(text, Char) = g[a + 1 + b]
  <2>1. \A i \in 1 .. Len(text) :
            g[i] = IF text[i] \in Char THEN Append(g[i - 1], text[i]) ELSE g[i - 1]
    BY <1>3, <1>8
  <2>2. Only(text, Char) = g[Len(text)]
    <3>1. text \in Seq(Int)
      BY <1>3
    <3> QED
      BY ONLY <2>1, <1>7, <3>1, OnlyIs
  <2> QED
    BY <2>2, <1>3
<1> QED
  BY <1>9, <1>10 DEF Cleaned, Char, text

-------------------------------------------------------------------------------
\* The remainder by 97.

\* The remainder after one more character.
Shifted(r, c) == (r * (IF IsDigit(c) THEN 10 ELSE 100) + c) % 97

\* It is a remainder.
LEMMA ShiftedRange ==
    ASSUME NEW r \in 0 .. 96, NEW c \in Char
    PROVE  Shifted(r, c) \in 0 .. 96
<1>1. c \in Nat /\ r \in Nat
  BY DEF Char
<1>2. \A x \in Nat : x % 97 \in 0 .. 96
  OBVIOUS
<1>3. r * 10 + c \in Nat /\ r * 100 + c \in Nat
  BY <1>1
<1> QED
  BY <1>2, <1>3 DEF Shifted

\* The remainders of the first characters of a text.
Remainders(f, text) ==
    /\ f[0] = 0
    /\ \A i \in 0 .. Len(text) : f[i] \in 0 .. 96
    /\ \A i \in 1 .. Len(text) : f[i] = Shifted(f[i - 1], text[i])

\* Mod97 is the last of them.
LEMMA Mod97Law ==
    ASSUME NEW text \in Seq(Char)
    PROVE  \E f : Remainders(f, text) /\ Mod97(text) = f[Len(text)]
<1> DEFINE n == Len(text)
           G == [i \in 1 .. n |-> [r \in 0 .. 96 |-> Shifted(r, text[i])]]
           Law(f) == [i \in 0 .. n |-> IF i = 0 THEN 0 ELSE Shifted(f[i - 1], text[i])]
           rest == CHOOSE f : f = Law(f)
<1>1. n \in Nat /\ \A i \in 1 .. n : text[i] \in Char
  OBVIOUS
<1>2. G \in [1 .. n -> [0 .. 96 -> 0 .. 96]]
  <2> HIDE DEF n
  <2> QED
    BY <1>1, ShiftedRange
<1>3. PICK f \in [0 .. n -> 0 .. 96] : f[0] = 0 /\ \A i \in 1 .. n : f[i] = G[i][f[i - 1]]
  <2> DEFINE X == 0 .. 96
  <2>1. 0 \in X /\ G \in [1 .. n -> [X -> X]]
    <3>1. 0 \in X
      OBVIOUS
    <3> HIDE DEF n, G
    <3> QED
      BY ONLY <1>2, <3>1, Zenon
  <2> HIDE DEF n, G, X
  <2>2. Ways(n, X, 0, G) # {}
    BY <1>1, <2>1, Recursion
  <2> QED
    BY <2>2 DEF X, Ways
<1>4. \A i \in 1 .. n : f[i] = Shifted(f[i - 1], text[i])
  <2> HIDE DEF n
  <2> TAKE i \in 1 .. n
  <2>1. f[i - 1] \in 0 .. 96 /\ f[i] = G[i][f[i - 1]]
    <3> HIDE DEF G
    <3> QED
      BY <1>1, <1>3
  <2> QED
    BY <2>1
<1>5. f = Law(f)
  <2> HIDE DEF n
  <2>1. \A i \in 0 .. n : f[i] = IF i = 0 THEN 0 ELSE Shifted(f[i - 1], text[i])
    BY <1>1, <1>3, <1>4
  <2> QED
    BY <2>1
<1>6. rest = Law(rest)
  <2> HIDE DEF Law
  <2> QED
    BY <1>5
<1>7. Mod97(text) = rest[n]
  BY DEF Mod97, Shifted
<1> HIDE DEF rest, G
<1>8. \A i \in 0 .. n : rest[i] = f[i]
  <2> DEFINE T == {i \in 0 .. n : rest[i] = f[i]}
  <2>1. 0 \in T
    BY <1>1, <1>3, <1>6
  <2>2. ASSUME NEW i \in 1 .. n, i - 1 \in T PROVE i \in T
    <3>1. i \in 0 .. n /\ i # 0 /\ rest[i - 1] = f[i - 1]
      BY <1>1, <2>2
    <3>2. Law(rest)[i] = Shifted(rest[i - 1], text[i])
      BY <3>1
    <3>3. rest[i] = Law(rest)[i]
      BY <1>6
    <3> HIDE DEF Law
    <3> QED
      BY <3>1, <3>2, <3>3, <1>4
  <2>3. \A i \in 1 .. n : i - 1 \in T => i \in T
    BY <2>2
  <2> HIDE DEF T, n, Law
  <2>4. \A i \in 0 .. n : i \in T
    BY <2>1, <2>3, <1>1, UpTo
  <2> QED
    BY <2>4 DEF T
<1>9. Remainders(f, text)
  BY <1>3, <1>4 DEF Remainders
<1>10. rest[n] = f[n]
  <2> HIDE DEF n
  <2> QED
    BY <1>1, <1>8
<1> QED
  BY <1>7, <1>9, <1>10

\* The remainder keeps two values apart, and two digits.
LEMMA ShiftedDiffers ==
    /\ \A p, q \in 0 .. 96, c \in Char : p # q => Shifted(p, c) # Shifted(q, c)
    /\ \A p \in 0 .. 96, c, d \in 0 .. 9 : c # d => Shifted(p, c) # Shifted(p, d)
<1>1. ASSUME NEW p \in 0 .. 96, NEW c \in 0 .. 9, NEW d \in 0 .. 9, c # d
      PROVE  (p * 10 + c) % 97 # (p * 10 + d) % 97
  BY <1>1
<1>2. ASSUME NEW p \in 0 .. 96, NEW q \in 0 .. 96, NEW c \in Char, p # q
      PROVE  Shifted(p, c) # Shifted(q, c)
  <2>1. c \in 0 .. 35
    BY DEF Char
  <2>2. CASE c \in 0 .. 9
    <3>1. Shifted(p, c) = (p * 10 + c) % 97 /\ Shifted(q, c) = (q * 10 + c) % 97
      BY <2>2 DEF Shifted, IsDigit
    <3>2. (p * 10 + c) % 97 # (q * 10 + c) % 97
      BY ONLY <2>1, <1>2
    <3> QED
      BY ONLY <3>1, <3>2
  <2>3. CASE c \notin 0 .. 9
    <3>1. Shifted(p, c) = (p * 100 + c) % 97 /\ Shifted(q, c) = (q * 100 + c) % 97
      BY <2>3 DEF Shifted, IsDigit
    <3>2. (p * 100 + c) % 97 # (q * 100 + c) % 97
      BY ONLY <2>1, <1>2
    <3> QED
      BY ONLY <3>1, <3>2
  <2> QED
    BY <2>2, <2>3
<1>3. ASSUME NEW p \in 0 .. 96, NEW c \in 0 .. 9, NEW d \in 0 .. 9, c # d
      PROVE  Shifted(p, c) # Shifted(p, d)
  <2>1. Shifted(p, c) = (p * 10 + c) % 97 /\ Shifted(p, d) = (p * 10 + d) % 97
    BY DEF Shifted, IsDigit
  <2> QED
    BY <2>1, <1>1, <1>3
<1> QED
  BY <1>2, <1>3

\* Texts that begin alike have the same remainders so far.
LEMMA SameRemainders ==
    ASSUME NEW s \in Seq(Char), NEW t \in Seq(Char), NEW f, NEW g,
           Remainders(f, s), Remainders(g, t),
           NEW n \in Nat, n <= Len(s), n <= Len(t), \A i \in 1 .. n : s[i] = t[i]
    PROVE  \A i \in 0 .. n : f[i] = g[i]
<1> DEFINE T == {i \in 0 .. n : f[i] = g[i]}
<1>1. 0 \in T
  BY DEF Remainders
<1>2. ASSUME NEW i \in 1 .. n, i - 1 \in T PROVE i \in T
  <2>1. /\ i \in 0 .. n /\ i \in 1 .. Len(s) /\ i \in 1 .. Len(t)
        /\ f[i - 1] = g[i - 1] /\ s[i] = t[i]
    BY <1>2
  <2>2. f[i] = Shifted(f[i - 1], s[i]) /\ g[i] = Shifted(g[i - 1], t[i])
    BY <2>1 DEF Remainders
  <2> QED
    BY <2>1, <2>2
<1>3. \A i \in 1 .. n : i - 1 \in T => i \in T
  BY <1>2
<1> HIDE DEF T
<1>4. \A i \in 0 .. n : i \in T
  BY <1>1, <1>3, UpTo
<1> QED
  BY <1>4 DEF T

\* One digit after another is a number of two digits.
LEMMA TwoMoreDigits ==
    ASSUME NEW x \in 0 .. 96, NEW y \in 0 .. 9, NEW z \in 0 .. 9
    PROVE  ((((x * 10 + y) % 97) * 10) + z) % 97 = (x * 100 + y * 10 + z) % 97
<1> DEFINE v == x * 10 + y
<1>1. PICK q \in 0 .. 10, r \in 0 .. 96 : v = q * 97 + r
  <2>1. v \in 0 .. 969
    OBVIOUS
  <2> HIDE DEF v
  <2>2. v = (v \div 97) * 97 + (v % 97) /\ v \div 97 \in 0 .. 10 /\ v % 97 \in 0 .. 96
    BY <2>1
  <2> QED
    BY <2>2
<1>2. v % 97 = r
  <2> HIDE DEF v
  <2> QED
    BY <1>1
<1>3. x * 100 + y * 10 + z = q * 970 + r * 10 + z
  BY <1>1
<1>4. (q * 970 + r * 10 + z) % 97 = (r * 10 + z) % 97
  OBVIOUS
<1>5. ((((x * 10 + y) % 97) * 10) + z) % 97 = (r * 10 + z) % 97
  <2>1. (x * 10 + y) % 97 = r
    BY <1>2
  <2> QED
    BY ONLY <2>1
<1>6. (x * 100 + y * 10 + z) % 97 = (r * 10 + z) % 97
  BY ONLY <1>3, <1>4
<1> QED
  BY ONLY <1>5, <1>6

\* Two more digits.
LEMMA Mod97TwoMore ==
    ASSUME NEW s \in Seq(Char), NEW t \in Seq(Char), Len(t) = Len(s) + 2,
           \A i \in 1 .. Len(s) : t[i] = s[i],
           t[Len(s) + 1] \in 0 .. 9, t[Len(s) + 2] \in 0 .. 9
    PROVE  /\ Mod97(s) \in 0 .. 96
           /\ Mod97(t) = (Mod97(s) * 100 + t[Len(s) + 1] * 10 + t[Len(s) + 2]) % 97
<1> DEFINE n == Len(s)
           a == t[n + 1]
           b == t[n + 2]
<1>1. PICK f : Remainders(f, s) /\ Mod97(s) = f[n]
  BY Mod97Law
<1>2. PICK g : Remainders(g, t) /\ Mod97(t) = g[n + 2]
  BY Mod97Law
<1>3. n \in Nat /\ n <= Len(s) /\ n <= Len(t)
  OBVIOUS
<1>4. \A i \in 0 .. n : f[i] = g[i]
  BY <1>1, <1>2, <1>3, SameRemainders
<1>5. f[n] = g[n]
  BY <1>3, <1>4
<1>6. f[n] \in 0 .. 96
  BY <1>1, <1>3 DEF Remainders
<1>7. g[n + 1] = Shifted(g[n], a) /\ g[n + 2] = Shifted(g[n + 1], b)
  <2>1. n + 1 \in 1 .. Len(t) /\ n + 2 \in 1 .. Len(t) /\ (n + 1) - 1 = n /\ (n + 2) - 1 = n + 1
    BY <1>3
  <2> QED
    BY <1>2, <2>1 DEF Remainders
<1>8. a \in 0 .. 9 /\ b \in 0 .. 9
  OBVIOUS
<1> HIDE DEF n, a, b
<1>9. g[n + 2] = ((((f[n] * 10 + a) % 97) * 10) + b) % 97
  BY <1>5, <1>7, <1>8 DEF Shifted, IsDigit
<1>10. g[n + 2] = (f[n] * 100 + a * 10 + b) % 97
  <2> DEFINE x == f[n]
  <2>1. x \in 0 .. 96 /\ g[n + 2] = ((((x * 10 + a) % 97) * 10) + b) % 97
    BY <1>6, <1>9
  <2> HIDE DEF x
  <2>2. ((((x * 10 + a) % 97) * 10) + b) % 97 = (x * 100 + a * 10 + b) % 97
    BY ONLY <1>8, <2>1, TwoMoreDigits
  <2> QED
    BY ONLY <2>1, <2>2 DEF x
<1> QED
  BY <1>1, <1>2, <1>6, <1>10 DEF n, a, b

\* One misread digit.
LEMMA Mod97Differs ==
    ASSUME NEW s \in Seq(Char), NEW t \in Seq(Char), Len(t) = Len(s),
           NEW j \in 1 .. Len(s), s[j] \in 0 .. 9, t[j] \in 0 .. 9, s[j] # t[j],
           \A i \in 1 .. Len(s) : i # j => s[i] = t[i]
    PROVE  Mod97(s) # Mod97(t)
<1> DEFINE n == Len(s)
<1>1. PICK f : Remainders(f, s) /\ Mod97(s) = f[n]
  BY Mod97Law
<1>2. PICK g : Remainders(g, t) /\ Mod97(t) = g[n]
  BY Mod97Law
<1>3. n \in Nat /\ \A i \in 1 .. n : s[i] \in Char
  OBVIOUS
<1> DEFINE T == {i \in 0 .. n : (i < j => f[i] = g[i]) /\ (i >= j => f[i] # g[i])}
<1>4. 0 \in T
  BY <1>1, <1>2, <1>3 DEF Remainders
<1>5. ASSUME NEW i \in 1 .. n, i - 1 \in T PROVE i \in T
  <2>1. i \in 0 .. n /\ i - 1 \in 0 .. n /\ i \in 1 .. Len(t)
    BY <1>3, <1>5
  <2>2. /\ f[i] = Shifted(f[i - 1], s[i]) /\ g[i] = Shifted(g[i - 1], t[i])
        /\ f[i - 1] \in 0 .. 96 /\ g[i - 1] \in 0 .. 96
    BY <1>1, <1>2, <2>1 DEF Remainders
  <2>3. CASE i < j
    <3>1. s[i] = t[i] /\ f[i - 1] = g[i - 1]
      BY <1>5, <2>3, <1>3
    <3> QED
      BY <2>1, <2>2, <2>3, <3>1
  <2>4. CASE i = j
    <3>1. f[i - 1] = g[i - 1]
      BY <1>5, <2>4, <1>3
    <3>2. f[i] # g[i]
      <4>1. s[i] # t[i] /\ s[i] \in 0 .. 9 /\ t[i] \in 0 .. 9
        BY <2>4
      <4> QED
        BY <2>2, <3>1, <4>1, ShiftedDiffers
    <3> QED
      BY <2>1, <2>4, <3>2
  <2>5. CASE i > j
    <3>1. s[i] = t[i] /\ f[i - 1] # g[i - 1] /\ s[i] \in Char
      BY <1>5, <2>5, <1>3
    <3>2. f[i] # g[i]
      BY <2>2, <3>1, ShiftedDiffers
    <3> QED
      BY <2>1, <2>5, <3>2
  <2> QED
    BY <2>3, <2>4, <2>5
<1>6. \A i \in 1 .. n : i - 1 \in T => i \in T
  BY <1>5
<1>7. n \in 0 .. n /\ n >= j
  BY <1>3
<1> HIDE DEF T, n
<1>8. n \in T
  BY <1>3, <1>4, <1>6, <1>7, UpTo
<1> QED
  BY <1>1, <1>2, <1>7, <1>8 DEF T

-------------------------------------------------------------------------------
\* Account numbers.

Digits == 0 .. 9

\* Digits are characters, and both are integers.
LEMMA DigitsAreChars ==
    ASSUME NEW s \in Seq(Digits)
    PROVE  s \in Seq(Char) /\ s \in Seq(Int)
<1>1. Digits \subseteq Char /\ Digits \subseteq Int
  BY DEF Digits, Char
<1> QED
  BY <1>1, SeqMonotonic, Zenon

\* What a slice of a sequence holds.
LEMMA Sliced ==
    ASSUME NEW S, NEW c \in Seq(S), NEW m \in 0 .. Len(c), NEW n \in m .. Len(c)
    PROVE  /\ SubSeq(c, m + 1, n) \in Seq(S) /\ Len(SubSeq(c, m + 1, n)) = n - m
           /\ \A i \in 1 .. (n - m) : SubSeq(c, m + 1, n)[i] = c[i + m]
  OBVIOUS

\* An account number with its first four characters moved to the end.
Turned97(c) == From(c, 4) \o Slice(c, 0, 4)

\* Where its characters are then.
LEMMA TurnedIs ==
    ASSUME NEW c \in Seq(Char), Len(c) = 24
    PROVE  /\ Turned97(c) \in Seq(Char) /\ Len(Turned97(c)) = 24
           /\ \A i \in 1 .. 20 : Turned97(c)[i] = c[i + 4]
           /\ \A i \in 21 .. 24 : Turned97(c)[i] = c[i - 20]
<1> DEFINE u == SubSeq(c, 4 + 1, Len(c))
           v == SubSeq(c, 0 + 1, 4)
<1>1. u \in Seq(Char) /\ Len(u) = 20 /\ \A i \in 1 .. 20 : u[i] = c[i + 4]
  <2>1. 4 \in 0 .. Len(c) /\ Len(c) \in 4 .. Len(c) /\ Len(c) - 4 = 20
    OBVIOUS
  <2> HIDE DEF u
  <2>2. u \in Seq(Char) /\ Len(u) = Len(c) - 4 /\ \A i \in 1 .. (Len(c) - 4) : u[i] = c[i + 4]
    BY <2>1, Sliced, Zenon DEF u
  <2> QED
    BY <2>1, <2>2
<1>2. v \in Seq(Char) /\ Len(v) = 4 /\ \A i \in 1 .. 4 : v[i] = c[i]
  <2>1. 0 \in 0 .. Len(c) /\ 4 \in 0 .. Len(c) /\ 4 - 0 = 4 /\ \A i \in 1 .. 4 : i + 0 = i
    OBVIOUS
  <2> HIDE DEF v
  <2>2. v \in Seq(Char) /\ Len(v) = 4 - 0 /\ \A i \in 1 .. (4 - 0) : v[i] = c[i + 0]
    BY <2>1, Sliced, Zenon DEF v
  <2> QED
    BY <2>1, <2>2
<1>3. Turned97(c) = u \o v
  BY DEF Turned97, From, Slice
<1> DEFINE w == u \o v
<1> HIDE DEF u, v
<1>4. /\ w \in Seq(Char) /\ Len(w) = 24
      /\ \A i \in 1 .. 20 : w[i] = u[i]
      /\ \A i \in 21 .. 24 : w[i] = v[i - 20]
  <2>1. /\ w \in Seq(Char) /\ Len(w) = Len(u) + Len(v)
        /\ \A i \in 1 .. Len(u) + Len(v) : w[i] = IF i <= Len(u) THEN u[i] ELSE v[i - Len(u)]
    <3>1. u \in Seq(Char) /\ v \in Seq(Char)
      BY <1>1, <1>2
    <3> QED
      BY ONLY <3>1, ConcatProperties, Zenon
  <2> HIDE DEF w
  <2> QED
    BY <1>1, <1>2, <2>1
<1> HIDE DEF w
<1>5. \A i \in 21 .. 24 : v[i - 20] = c[i - 20]
  BY <1>2
<1>6. Turned97(c) = w
  BY <1>3 DEF w
<1> QED
  BY <1>1, <1>4, <1>5, <1>6

\* It is valid when the remainder is one.
LEMMA ValidIs ==
    ASSUME NEW text, NEW c \in Seq(Char), Len(c) = 24, Cleaned(text) = c
    PROVE  ValidIban(text) <=> Mod97(Turned97(c)) = 1
<1>1. Len(c) >= 5
  OBVIOUS
<1> QED
  BY <1>1 DEF ValidIban, Turned97

\* The check digits.
LEMMA CheckDigits ==
    ASSUME NEW r \in 0 .. 96
    PROVE  /\ Len(TwoDigits(98 - r)) = 2
           /\ TwoDigits(98 - r)[1] \in Digits /\ TwoDigits(98 - r)[2] \in Digits
           /\ TwoDigits(98 - r)[1] * 10 + TwoDigits(98 - r)[2] = 98 - r
<1>1. \A n \in 2 .. 98 : n \div 10 \in 0 .. 9 /\ n % 10 \in 0 .. 9 /\ (n \div 10) * 10 + (n % 10) = n
  OBVIOUS
<1>2. 98 - r \in 2 .. 98
  OBVIOUS
<1> QED
  BY <1>1, <1>2 DEF TwoDigits, Digits

\* The remainder with the check digits is one.
LEMMA CheckDigitsComplete ==
    \A m \in 0 .. 96, a, b \in 0 .. 9 :
        a * 10 + b = 98 - ((m * 100 + 0 * 10 + 0) % 97) => (m * 100 + a * 10 + b) % 97 = 1
<1> SUFFICES ASSUME NEW m \in 0 .. 96, NEW a \in 0 .. 9, NEW b \in 0 .. 9,
                    a * 10 + b = 98 - ((m * 100 + 0 * 10 + 0) % 97)
             PROVE  (m * 100 + a * 10 + b) % 97 = 1
  OBVIOUS
<1> DEFINE r == (m * 100) % 97
           q == (m * 100) \div 97
<1>1. m * 100 = q * 97 + r /\ r \in 0 .. 96 /\ q \in Int
  OBVIOUS
<1>2. m * 100 + a * 10 + b = (q + 1) * 97 + 1
  <2>1. a * 10 + b = 98 - r
    OBVIOUS
  <2> HIDE DEF r, q
  <2> QED
    BY <1>1, <2>1
<1>3. \A k \in Int : ((k + 1) * 97 + 1) % 97 = 1
  OBVIOUS
<1> HIDE DEF q
<1> QED
  BY ONLY <1>1, <1>2, <1>3, Zenon

\* One sequence behind another.
LEMMA Behind ==
    ASSUME NEW S, NEW u \in Seq(S), NEW v \in Seq(S), NEW w, w = u \o v
    PROVE  /\ w \in Seq(S) /\ Len(w) = Len(u) + Len(v)
           /\ \A i \in 1 .. Len(u) : w[i] = u[i]
           /\ \A i \in 1 .. Len(v) : w[Len(u) + i] = v[i]
  OBVIOUS

\* The account number of twenty digits, character by character.
LEMMA IbanIs ==
    ASSUME NEW num \in Seq(Digits), Len(num) = 20
    PROVE  /\ SwedishIban(num) \in Seq(Char) /\ Len(SwedishIban(num)) = 24
           /\ SwedishIban(num)[1] = 28 /\ SwedishIban(num)[2] = 14
           /\ \A i \in 3 .. 24 : SwedishIban(num)[i] \in Digits
           /\ \A i \in 5 .. 24 : SwedishIban(num)[i] = num[i - 4]
           /\ Mod97(Turned97(SwedishIban(num))) = 1
<1> DEFINE s == num \o SE
           t == s \o <<0, 0>>
           r == Mod97(t)
           cd == TwoDigits(98 - r)
           head == SE \o cd
           iban == head \o num
           w == Turned97(iban)
<1>1. num \in Seq(Char) /\ SE \in Seq(Char) /\ <<0, 0>> \in Seq(Char)
  <2>1. 28 \in Char /\ 14 \in Char /\ 0 \in Char
    BY DEF Char
  <2> QED
    BY <2>1, DigitsAreChars DEF SE
<1>2. SE[1] = 28 /\ SE[2] = 14 /\ Len(SE) = 2
  BY DEF SE
<1>3. /\ s \in Seq(Char) /\ Len(s) = 22
      /\ \A i \in 1 .. 20 : s[i] = num[i]
      /\ s[21] = 28 /\ s[22] = 14
  <2>1. s = num \o SE
    OBVIOUS
  <2> HIDE DEF s
  <2>2. /\ s \in Seq(Char) /\ Len(s) = Len(num) + Len(SE)
        /\ \A i \in 1 .. Len(num) : s[i] = num[i]
        /\ \A i \in 1 .. Len(SE) : s[Len(num) + i] = SE[i]
    BY ONLY <1>1, <2>1, Behind
  <2>3. s[20 + 1] = SE[1] /\ s[20 + 2] = SE[2]
    BY <1>2, <2>2
  <2> QED
    BY <1>2, <2>2, <2>3
<1>4. /\ t \in Seq(Char) /\ Len(t) = Len(s) + 2
      /\ \A i \in 1 .. Len(s) : t[i] = s[i]
      /\ t[Len(s) + 1] = 0 /\ t[Len(s) + 2] = 0
  <2> DEFINE zeros == <<0, 0>>
  <2>1. t = s \o zeros /\ zeros \in Seq(Char) /\ Len(zeros) = 2 /\ zeros[1] = 0 /\ zeros[2] = 0
    BY <1>1
  <2> HIDE DEF s, t, zeros
  <2>2. /\ t \in Seq(Char) /\ Len(t) = Len(s) + Len(zeros)
        /\ \A i \in 1 .. Len(s) : t[i] = s[i]
        /\ \A i \in 1 .. Len(zeros) : t[Len(s) + i] = zeros[i]
    <3>1. s \in Seq(Char) /\ zeros \in Seq(Char) /\ t = s \o zeros
      BY <1>3, <2>1
    <3> QED
      BY ONLY <3>1, Behind
  <2> QED
    BY <2>1, <2>2
<1> HIDE DEF s, t
<1>5. /\ Mod97(s) \in 0 .. 96
      /\ r = (Mod97(s) * 100 + 0 * 10 + 0) % 97
  <2>1. t[Len(s) + 1] \in 0 .. 9 /\ t[Len(s) + 2] \in 0 .. 9
    BY <1>4
  <2>2. /\ Mod97(s) \in 0 .. 96
        /\ Mod97(t) = (Mod97(s) * 100 + t[Len(s) + 1] * 10 + t[Len(s) + 2]) % 97
    BY <1>3, <1>4, <2>1, Mod97TwoMore
  <2> QED
    BY <1>4, <2>2
<1>6. r \in 0 .. 96
  <2>1. \A x \in Nat : x % 97 \in 0 .. 96
    OBVIOUS
  <2> DEFINE m == Mod97(s)
  <2>2. m \in 0 .. 96 /\ r = (m * 100 + 0 * 10 + 0) % 97
    BY <1>5
  <2> HIDE DEF m, r
  <2>3. m * 100 + 0 * 10 + 0 \in Nat
    BY <2>2
  <2> QED
    BY <2>1, <2>2, <2>3
<1> HIDE DEF r
<1>7. /\ Len(cd) = 2 /\ cd[1] \in Digits /\ cd[2] \in Digits
      /\ cd[1] * 10 + cd[2] = 98 - r /\ cd \in Seq(Char)
  <2>1. /\ Len(cd) = 2 /\ cd[1] \in Digits /\ cd[2] \in Digits
        /\ cd[1] * 10 + cd[2] = 98 - r
    BY <1>6, CheckDigits
  <2>2. cd = <<cd[1], cd[2]>>
    BY DEF TwoDigits
  <2>3. cd[1] \in Char /\ cd[2] \in Char
    BY <2>1 DEF Digits, Char
  <2>4. cd \in Seq(Char)
    <3> HIDE DEF cd
    <3>1. <<cd[1], cd[2]>> \in Seq(Char)
      BY <2>3
    <3> QED
      BY <2>2, <3>1
  <2> QED
    BY <2>1, <2>4
<1> HIDE DEF cd
<1>8. /\ iban \in Seq(Char) /\ Len(iban) = 24
      /\ iban[1] = 28 /\ iban[2] = 14 /\ iban[3] = cd[1] /\ iban[4] = cd[2]
      /\ \A i \in 5 .. 24 : iban[i] = num[i - 4]
  <2>1. head = SE \o cd /\ iban = head \o num
    OBVIOUS
  <2> HIDE DEF head, iban
  <2>2. /\ head \in Seq(Char) /\ Len(head) = Len(SE) + Len(cd)
        /\ \A i \in 1 .. Len(SE) : head[i] = SE[i]
        /\ \A i \in 1 .. Len(cd) : head[Len(SE) + i] = cd[i]
    <3>1. SE \in Seq(Char) /\ cd \in Seq(Char) /\ head = SE \o cd
      BY <1>1, <1>7, <2>1
    <3> QED
      BY ONLY <3>1, Behind
  <2>3. head[2 + 1] = cd[1] /\ head[2 + 2] = cd[2]
    BY <1>2, <1>7, <2>2
  <2>4. /\ Len(head) = 4
        /\ head[1] = 28 /\ head[2] = 14 /\ head[3] = cd[1] /\ head[4] = cd[2]
    BY <1>2, <1>7, <2>2, <2>3
  <2>5. /\ iban \in Seq(Char) /\ Len(iban) = Len(head) + Len(num)
        /\ \A i \in 1 .. Len(head) : iban[i] = head[i]
        /\ \A i \in 1 .. Len(num) : iban[Len(head) + i] = num[i]
    <3>1. head \in Seq(Char) /\ num \in Seq(Char) /\ iban = head \o num
      BY <1>1, <2>1, <2>2
    <3> QED
      BY ONLY <3>1, Behind
  <2>6. \A i \in 5 .. 24 : iban[i] = num[i - 4]
    <3> TAKE i \in 5 .. 24
    <3>1. PICK k \in 1 .. 20 : 4 + k = i /\ i - 4 = k
      <4>1. i - 4 \in 1 .. 20 /\ 4 + (i - 4) = i
        OBVIOUS
      <4> QED
        BY <4>1
    <3>2. k \in 1 .. Len(num) /\ Len(head) = 4
      BY <2>4
    <3>3. iban[4 + k] = num[k]
      BY <3>2, <2>5
    <3> QED
      BY ONLY <3>1, <3>3, Zenon
  <2>7. \A i \in 1 .. 4 : iban[i] = head[i]
    BY <2>4, <2>5
  <2>8. iban[1] = 28 /\ iban[2] = 14 /\ iban[3] = cd[1] /\ iban[4] = cd[2]
    BY ONLY <2>4, <2>7
  <2>9. iban \in Seq(Char) /\ Len(iban) = 24
    BY <2>4, <2>5
  <2> QED
    BY ONLY <2>6, <2>8, <2>9, Zenon
<1>9. SwedishIban(num) = iban
  BY DEF SwedishIban, head, r, t, s, cd
<1>10. \A i \in 3 .. 24 : iban[i] \in Digits
  <2> HIDE DEF iban
  <2>1. \A i \in 5 .. 24 : num[i - 4] \in Digits
    <3> TAKE i \in 5 .. 24
    <3>1. i - 4 \in 1 .. Len(num)
      OBVIOUS
    <3> QED
      BY <3>1, ElementOfSeq
  <2> TAKE i \in 3 .. 24
  <2>2. i = 3 \/ i = 4 \/ i \in 5 .. 24
    OBVIOUS
  <2> QED
    BY <1>7, <1>8, <2>1, <2>2
<1> HIDE DEF iban
<1>11. /\ w \in Seq(Char) /\ Len(w) = 24
       /\ \A i \in 1 .. 20 : w[i] = iban[i + 4]
       /\ \A i \in 21 .. 24 : w[i] = iban[i - 20]
  BY <1>8, TurnedIs
<1> HIDE DEF w
<1>12. \A i \in 1 .. 22 : w[i] = s[i]
  <2> TAKE i \in 1 .. 22
  <2>1. CASE i \in 1 .. 20
    <3>1. i + 4 \in 5 .. 24 /\ (i + 4) - 4 = i
      BY <2>1
    <3>2. iban[i + 4] = num[(i + 4) - 4]
      BY <3>1, <1>8
    <3> QED
      BY <2>1, <3>1, <3>2, <1>3, <1>11
  <2>2. w[21] = iban[1] /\ w[22] = iban[2]
    <3>1. 21 \in 21 .. 24 /\ 22 \in 21 .. 24 /\ 21 - 20 = 1 /\ 22 - 20 = 2
      OBVIOUS
    <3> QED
      BY <3>1, <1>11
  <2>3. w[21] = s[21] /\ w[22] = s[22]
    BY <2>2, <1>3, <1>8
  <2>4. i \in 1 .. 20 \/ i = 21 \/ i = 22
    OBVIOUS
  <2> QED
    BY <2>1, <2>3, <2>4
<1>13. w[23] = cd[1] /\ w[24] = cd[2]
  <2>1. 23 \in 21 .. 24 /\ 24 \in 21 .. 24 /\ 23 - 20 = 3 /\ 24 - 20 = 4
    OBVIOUS
  <2> QED
    BY <2>1, <1>8, <1>11
<1>14. Mod97(w) = (Mod97(s) * 100 + cd[1] * 10 + cd[2]) % 97
  <2>1. /\ Len(w) = Len(s) + 2 /\ \A i \in 1 .. Len(s) : w[i] = s[i]
        /\ Len(s) + 1 = 23 /\ Len(s) + 2 = 24
    BY <1>3, <1>11, <1>12
  <2>2. w[Len(s) + 1] \in 0 .. 9 /\ w[Len(s) + 2] \in 0 .. 9
    BY <1>7, <1>13, <2>1 DEF Digits
  <2>3. Mod97(w) = (Mod97(s) * 100 + w[Len(s) + 1] * 10 + w[Len(s) + 2]) % 97
    BY <1>3, <1>11, <2>1, <2>2, Mod97TwoMore
  <2> QED
    BY <1>13, <2>1, <2>3
<1>15. Mod97(w) = 1
  <2>1. cd[1] \in 0 .. 9 /\ cd[2] \in 0 .. 9
    BY <1>7 DEF Digits
  <2>2. cd[1] * 10 + cd[2] = 98 - ((Mod97(s) * 100 + 0 * 10 + 0) % 97)
    BY <1>5, <1>7
  <2>3. (Mod97(s) * 100 + cd[1] * 10 + cd[2]) % 97 = 1
    BY <1>5, <2>1, <2>2, CheckDigitsComplete
  <2> QED
    BY <1>14, <2>3
<1> QED
  BY <1>8, <1>9, <1>10, <1>15 DEF w

\* Characters are kept, as they are and around a space.
LEMMA CleanedIs ==
    ASSUME NEW c \in Seq(Char), Len(c) = 24
    PROVE  Cleaned(c) = c /\ Cleaned(Slice(c, 0, 4) \o <<Space>> \o From(c, 4)) = c
<1>1. Cleaned(c) = c
  <2>1. Char \in SUBSET Int
    BY DEF Char
  <2> QED
    BY <2>1, OnlyWhole DEF Cleaned, Char
<1>2. Slice(c, 0, 4) \in Seq(Char) /\ From(c, 4) \in Seq(Char)
  <2>1. 0 \in 0 .. Len(c) /\ 4 \in 0 .. Len(c) /\ Len(c) \in 4 .. Len(c)
    OBVIOUS
  <2>2. SubSeq(c, 0 + 1, 4) \in Seq(Char)
    BY <2>1, Sliced
  <2>3. SubSeq(c, 4 + 1, Len(c)) \in Seq(Char)
    BY <2>1, Sliced
  <2> QED
    BY <2>2, <2>3, Zenon DEF Slice, From
<1>3. Slice(c, 0, 4) \o From(c, 4) = c
  <2>1. /\ 1 \in 1 .. Len(c) + 1 /\ 4 \in 1 - 1 .. Len(c) /\ Len(c) \in 4 .. Len(c)
    OBVIOUS
  <2>2. SubSeq(c, 1, 4) \o SubSeq(c, 4 + 1, Len(c)) = SubSeq(c, 1, Len(c))
    BY <2>1, ConcatAdjacentSubSeq
  <2>3. SubSeq(c, 1, Len(c)) = c
    BY SubSeqFull
  <2> QED
    BY <2>2, <2>3 DEF Slice, From
<1> QED
  BY <1>1, <1>2, <1>3, OnlyAroundSpace

\* A sequence with one element changed.
LEMMA ChangedIs ==
    ASSUME NEW c \in Seq(Char), NEW i \in 1 .. Len(c), NEW d \in Char,
           NEW x, x = Changed(c, i, d)
    PROVE  /\ x \in Seq(Char) /\ Len(x) = Len(c) /\ x[i] = d
           /\ \A k \in 1 .. Len(c) : k # i => x[k] = c[k]
  BY ExceptSeq DEF Changed

\* Account numbers are valid, in groups too, and with a misread digit none is.
LEMMA IbansAgree ==
    ASSUME NEW num \in Seq(Digits), Len(num) = 20
    PROVE  LET iban == SwedishIban(num) IN
           /\ ValidIban(iban)
           /\ ValidIban(Slice(iban, 0, 4) \o <<Space>> \o From(iban, 4))
           /\ \A i \in 3 .. 24 : \A d \in 0 .. 9 \ {iban[i]} : ~ValidIban(Changed(iban, i, d))
<1> DEFINE iban == SwedishIban(num)
           turned == Turned97(iban)
<1>1. /\ iban \in Seq(Char) /\ Len(iban) = 24
      /\ \A i \in 3 .. 24 : iban[i] \in Digits
      /\ Mod97(turned) = 1
  BY IbanIs
<1> HIDE DEF iban
<1>2. Cleaned(iban) = iban /\ Cleaned(Slice(iban, 0, 4) \o <<Space>> \o From(iban, 4)) = iban
  BY <1>1, CleanedIs
<1>3. ValidIban(iban) /\ ValidIban(Slice(iban, 0, 4) \o <<Space>> \o From(iban, 4))
  BY <1>1, <1>2, ValidIs
<1>4. ASSUME NEW i \in 3 .. 24, NEW d \in 0 .. 9 \ {iban[i]}
      PROVE  ~ValidIban(Changed(iban, i, d))
  <2> DEFINE x == Changed(iban, i, d)
             y == Turned97(x)
             j == IF i > 4 THEN i - 4 ELSE i + 20
  <2>1. /\ x \in Seq(Char) /\ Len(x) = 24 /\ x[i] = d
        /\ \A k \in 1 .. 24 : k # i => x[k] = iban[k]
    <3>1. d \in Char /\ i \in 1 .. Len(iban)
      <4>1. d \in 0 .. 35 /\ i \in 1 .. 24
        OBVIOUS
      <4> QED
        BY ONLY <1>1, <4>1, Zenon DEF Char
    <3>2. /\ x \in Seq(Char) /\ Len(x) = Len(iban) /\ x[i] = d
          /\ \A k \in 1 .. Len(iban) : k # i => x[k] = iban[k]
      <4>1. x = Changed(iban, i, d)
        OBVIOUS
      <4>2. iban \in Seq(Char)
        BY <1>1
      <4> HIDE DEF x
      <4> QED
        BY ONLY <3>1, <4>1, <4>2, ChangedIs
    <3> HIDE DEF x
    <3> QED
      BY <1>1, <3>1, <3>2
  <2> HIDE DEF x
  <2>2. Cleaned(x) = x
    BY <2>1, CleanedIs
  <2>3. ValidIban(x) <=> Mod97(y) = 1
    BY <2>1, <2>2, ValidIs
  <2>4. /\ y \in Seq(Char) /\ Len(y) = 24
        /\ \A k \in 1 .. 20 : y[k] = x[k + 4]
        /\ \A k \in 21 .. 24 : y[k] = x[k - 20]
    BY <2>1, TurnedIs
  <2>5. /\ turned \in Seq(Char) /\ Len(turned) = 24
        /\ \A k \in 1 .. 20 : turned[k] = iban[k + 4]
        /\ \A k \in 21 .. 24 : turned[k] = iban[k - 20]
    BY <1>1, TurnedIs
  <2> HIDE DEF y, turned
  <2>6. j \in 1 .. 24 /\ y[j] = d /\ turned[j] = iban[i]
    <3>1. CASE i > 4
      <4>1. PICK k \in 1 .. 20 : k + 4 = i
        BY <3>1
      <4>2. j = k
        BY <3>1, <4>1
      <4>3. y[k] = x[k + 4] /\ turned[k] = iban[k + 4]
        BY <2>4, <2>5
      <4> HIDE DEF j
      <4> QED
        BY <4>1, <4>2, <4>3, <2>1
    <3>2. CASE ~(i > 4)
      <4>1. PICK k \in 21 .. 24 : k - 20 = i
        <5>1. i + 20 \in 21 .. 24 /\ (i + 20) - 20 = i
          BY <3>2
        <5> QED
          BY <5>1
      <4>2. j = k
        BY <3>2, <4>1
      <4>3. y[k] = x[k - 20] /\ turned[k] = iban[k - 20]
        BY <2>4, <2>5
      <4> HIDE DEF j
      <4> QED
        BY <4>1, <4>2, <4>3, <2>1
    <3> QED
      BY <3>1, <3>2
  <2>7. ASSUME NEW k \in 1 .. 24, k # j PROVE y[k] = turned[k]
    <3>1. CASE k <= 20
      <4>1. k \in 1 .. 20 /\ k + 4 \in 1 .. 24 /\ k + 4 # i
        BY <3>1, <2>7
      <4> QED
        BY <4>1, <2>1, <2>4, <2>5
    <3>2. CASE k > 20
      <4>1. k \in 21 .. 24 /\ k - 20 \in 1 .. 24 /\ k - 20 # i
        BY <3>2, <2>7
      <4> QED
        BY <4>1, <2>1, <2>4, <2>5
    <3> QED
      BY <3>1, <3>2
  <2>8. y[j] \in 0 .. 9 /\ turned[j] \in 0 .. 9 /\ y[j] # turned[j]
    BY <2>6, <1>1 DEF Digits
  <2> HIDE DEF j
  <2>9. Mod97(y) # Mod97(turned)
    <3>1. Len(turned) = Len(y) /\ j \in 1 .. Len(y) /\ \A k \in 1 .. Len(y) : k # j => y[k] = turned[k]
      BY <2>4, <2>5, <2>6, <2>7
    <3> QED
      BY <2>4, <2>5, <2>8, <3>1, Mod97Differs
  <2> QED
    BY <1>1, <2>3, <2>9 DEF x
<1> QED
  BY <1>3, <1>4 DEF iban

-------------------------------------------------------------------------------
\* Card numbers.

\* What the digit at place i counts for in the Luhn sum of n digits.
Worth(s, i) == IF (Len(s) - i) % 2 = 1 THEN Doubled(s[i]) ELSE s[i]

\* The sums of the first digits.
Sums(f, s) ==
    /\ f[0] = 0
    /\ \A i \in 0 .. Len(s) : f[i] \in Nat
    /\ \A i \in 1 .. Len(s) : f[i] = f[i - 1] + Worth(s, i)

\* A digit counts for a natural number.
LEMMA WorthNat ==
    ASSUME NEW s \in Seq(Digits), NEW i \in 1 .. Len(s)
    PROVE  Worth(s, i) \in Nat
<1>1. s[i] \in 0 .. 9
  BY DEF Digits
<1>2. Doubled(s[i]) \in Nat
  BY <1>1 DEF Doubled
<1> QED
  BY <1>1, <1>2 DEF Worth

\* LuhnSum is the last of them.
LEMMA LuhnLaw ==
    ASSUME NEW s \in Seq(Digits)
    PROVE  \E f : Sums(f, s) /\ LuhnSum(s) = f[Len(s)]
<1> DEFINE n == Len(s)
           G == [i \in 1 .. n |-> [r \in Nat |-> r + Worth(s, i)]]
           Law(f) == [i \in 0 .. n |-> IF i = 0 THEN 0 ELSE f[i - 1] + Worth(s, i)]
           sum == CHOOSE f : f = Law(f)
<1>1. n \in Nat /\ \A i \in 1 .. n : Worth(s, i) \in Nat
  BY WorthNat
<1>2. G \in [1 .. n -> [Nat -> Nat]]
  <2> HIDE DEF n
  <2> QED
    BY <1>1
<1>3. PICK f \in [0 .. n -> Nat] : f[0] = 0 /\ \A i \in 1 .. n : f[i] = G[i][f[i - 1]]
  <2> HIDE DEF n, G
  <2>1. 0 \in Nat
    OBVIOUS
  <2>2. Ways(n, Nat, 0, G) # {}
    BY <1>1, <1>2, <2>1, Recursion
  <2> QED
    BY <2>2 DEF Ways
<1>4. \A i \in 1 .. n : f[i] = f[i - 1] + Worth(s, i)
  <2> HIDE DEF n
  <2> TAKE i \in 1 .. n
  <2>1. f[i - 1] \in Nat /\ f[i] = G[i][f[i - 1]]
    <3> HIDE DEF G
    <3> QED
      BY <1>1, <1>3
  <2> QED
    BY <2>1
<1>5. f = Law(f)
  <2> HIDE DEF n
  <2>1. \A i \in 0 .. n : f[i] = IF i = 0 THEN 0 ELSE f[i - 1] + Worth(s, i)
    BY <1>1, <1>3, <1>4
  <2> QED
    BY <2>1
<1>6. sum = Law(sum)
  <2> HIDE DEF Law
  <2> QED
    BY <1>5
<1>7. LuhnSum(s) = sum[n]
  BY DEF LuhnSum, Worth
<1> HIDE DEF sum, G
<1>8. \A i \in 0 .. n : sum[i] = f[i]
  <2> DEFINE T == {i \in 0 .. n : sum[i] = f[i]}
  <2>1. 0 \in T
    BY <1>1, <1>3, <1>6
  <2>2. ASSUME NEW i \in 1 .. n, i - 1 \in T PROVE i \in T
    <3>1. i \in 0 .. n /\ i # 0 /\ sum[i - 1] = f[i - 1]
      BY <1>1, <2>2
    <3>2. Law(sum)[i] = sum[i - 1] + Worth(s, i)
      BY <3>1
    <3>3. sum[i] = Law(sum)[i]
      BY <1>6
    <3> HIDE DEF Law
    <3> QED
      BY <3>1, <3>2, <3>3, <1>4
  <2>3. \A i \in 1 .. n : i - 1 \in T => i \in T
    BY <2>2
  <2> HIDE DEF T, n, Law
  <2>4. \A i \in 0 .. n : i \in T
    BY <2>1, <2>3, <1>1, UpTo
  <2> QED
    BY <2>4 DEF T
<1>9. Sums(f, s)
  BY <1>3, <1>4 DEF Sums
<1>10. sum[n] = f[n]
  <2> HIDE DEF n
  <2> QED
    BY <1>1, <1>8
<1> QED
  BY <1>7, <1>9, <1>10

\* Of two numbers that differ in the last digit only, the sums differ by as much.
LEMMA LuhnLast ==
    ASSUME NEW s \in Seq(Digits), NEW t \in Seq(Digits), NEW n \in Nat \ {0}, Len(s) = n, Len(t) = n,
           \A i \in 1 .. (n - 1) : s[i] = t[i], s[n] = 0
    PROVE  LuhnSum(s) \in Nat /\ LuhnSum(t) = LuhnSum(s) + t[n]
<1>1. PICK f : Sums(f, s) /\ LuhnSum(s) = f[n]
  BY LuhnLaw
<1>2. PICK g : Sums(g, t) /\ LuhnSum(t) = g[n]
  BY LuhnLaw
<1> DEFINE T == {i \in 0 .. (n - 1) : f[i] = g[i]}
<1>3. 0 \in T
  BY <1>1, <1>2 DEF Sums
<1>4. ASSUME NEW i \in 1 .. (n - 1), i - 1 \in T PROVE i \in T
  <2>1. /\ i \in 0 .. (n - 1) /\ i \in 1 .. Len(s) /\ i \in 1 .. Len(t)
        /\ f[i - 1] = g[i - 1] /\ s[i] = t[i]
    BY <1>4
  <2>2. f[i] = f[i - 1] + Worth(s, i) /\ g[i] = g[i - 1] + Worth(t, i)
    BY <1>1, <1>2, <2>1 DEF Sums
  <2>3. Worth(s, i) = Worth(t, i)
    BY <2>1 DEF Worth
  <2> QED
    BY <2>1, <2>2, <2>3
<1>5. f[n - 1] = g[n - 1]
  <2>1. n - 1 \in Nat /\ n - 1 \in 0 .. (n - 1)
    OBVIOUS
  <2>2. \A i \in 1 .. (n - 1) : i - 1 \in T => i \in T
    BY <1>4
  <2> HIDE DEF T
  <2>3. n - 1 \in T
    BY <2>1, <2>2, <1>3, UpTo
  <2> QED
    BY <2>3 DEF T
<1>6. /\ n \in 1 .. Len(s) /\ n \in 1 .. Len(t) /\ n \in 0 .. Len(s) /\ n - 1 \in 0 .. Len(s)
      /\ t[n] \in Nat
  BY DEF Digits
<1>7. /\ f[n] = f[n - 1] + Worth(s, n) /\ g[n] = g[n - 1] + Worth(t, n)
      /\ f[n] \in Nat /\ f[n - 1] \in Nat
  BY <1>1, <1>2, <1>6 DEF Sums
<1>8. Worth(s, n) = 0 /\ Worth(t, n) = t[n]
  <2>1. (n - n) % 2 = 0
    OBVIOUS
  <2> QED
    BY <2>1 DEF Worth
<1> QED
  BY <1>1, <1>2, <1>5, <1>6, <1>7, <1>8

\* Exactly one last digit makes a number valid, the one LuhnDigit gives.
LEMMA OneLastDigit ==
    ASSUME NEW num \in Seq(Digits), Len(num) >= 2
    PROVE  {d \in 0 .. 9 : LuhnCheck(Changed(num, Len(num), d))} = {LuhnDigit(Front(num))}
<1> DEFINE n == Len(num)
           base == Append(Front(num), 0)
           sum == LuhnSum(base)
<1>1. n \in Nat \ {0} /\ n >= 2
  OBVIOUS
<1>2. /\ base \in Seq(Digits) /\ Len(base) = n /\ base[n] = 0
      /\ \A i \in 1 .. (n - 1) : base[i] = num[i]
  <2> DEFINE front == SubSeq(num, 0 + 1, n - 1)
  <2>1. 0 \in 0 .. n /\ n - 1 \in 0 .. n /\ 0 \in Digits
    BY <1>1 DEF Digits
  <2>2. front \in Seq(Digits) /\ Len(front) = n - 1 - 0 /\ \A i \in 1 .. (n - 1 - 0) : front[i] = num[i + 0]
    BY <2>1
  <2>3. base = Append(front, 0)
    BY DEF Front
  <2> HIDE DEF front, base
  <2> QED
    BY <1>1, <2>1, <2>2, <2>3
<1>3. ASSUME NEW d \in 0 .. 9
      PROVE  sum \in Nat /\ (LuhnCheck(Changed(num, n, d)) <=> (sum + d) % 10 = 0)
  <2> DEFINE x == Changed(num, n, d)
  <2>1. /\ x \in Seq(Digits) /\ Len(x) = n /\ x[n] = d
        /\ \A i \in 1 .. (n - 1) : x[i] = num[i]
    <3>1. d \in Digits /\ n \in 1 .. Len(num)
      BY <1>1 DEF Digits
    <3>2. x = [num EXCEPT ![n] = d]
      BY DEF Changed
    <3> HIDE DEF x
    <3> QED
      BY <1>1, <3>1, <3>2
  <2> HIDE DEF x, base
  <2>2. sum \in Nat /\ LuhnSum(x) = sum + x[n]
    <3>1. \A i \in 1 .. (n - 1) : base[i] = x[i]
      BY <1>2, <2>1
    <3> HIDE DEF n
    <3> QED
      BY <1>1, <1>2, <2>1, <3>1, LuhnLast
  <2>3. DigitsOf(x) = x
    <3>1. Digits \in SUBSET Int
      BY DEF Digits
    <3> QED
      BY <2>1, <3>1, OnlyWhole DEF DigitsOf, Digits
  <2> QED
    BY <1>1, <2>1, <2>2, <2>3 DEF LuhnCheck, x
<1>4. LuhnDigit(Front(num)) = (10 - (sum % 10)) % 10
  BY DEF LuhnDigit
<1> HIDE DEF sum, n
<1>5. sum \in Nat
  <2>1. 0 \in 0 .. 9
    OBVIOUS
  <2> QED
    BY <2>1, <1>3
<1>6. \A m \in Nat, d \in 0 .. 9 : (m + d) % 10 = 0 <=> d = (10 - (m % 10)) % 10
  OBVIOUS
<1>7. (10 - (sum % 10)) % 10 \in 0 .. 9
  BY <1>5
<1>8. {d \in 0 .. 9 : LuhnCheck(Changed(num, n, d))} = {(10 - (sum % 10)) % 10}
  <2> DEFINE last == (10 - (sum % 10)) % 10
  <2>1. \A d \in 0 .. 9 : LuhnCheck(Changed(num, n, d)) <=> d = last
    BY <1>3, <1>5, <1>6
  <2> HIDE DEF last
  <2> QED
    BY <1>7, <2>1 DEF last
<1> QED
  BY <1>4, <1>8 DEF n

\* The two packs' checks of an IMEI.
LEMMA ImeiIsLuhn ==
    ASSUME NEW num \in Seq(Digits), Len(num) = 15
    PROVE  ValidImei(num) <=> LuhnCheck(num)
<1>1. DigitsOf(num) = num
  <2>1. Digits \in SUBSET Int
    BY DEF Digits
  <2> QED
    BY <2>1, OnlyWhole DEF DigitsOf, Digits
<1>2. ValidImsi(num)
  <2>1. \A i \in 1 .. 15 : num[i] \in Digits
    <3> TAKE i \in 1 .. 15
    <3>1. i \in 1 .. Len(num)
      OBVIOUS
    <3> QED
      BY <3>1, ElementOfSeq
  <2> QED
    BY <2>1 DEF ValidImsi, IsDigit, Digits
<1>3. Len(num) >= 2
  OBVIOUS
<1> QED
  BY ONLY <1>1, <1>2, <1>3 DEF ValidImei, LuhnCheck

-------------------------------------------------------------------------------
\* The parts of a number.

\* Three sequences joined.
LEMMA JoinedThree ==
    ASSUME NEW s, Len(s) = 3
    PROVE  Joined(s) = (s[1] \o s[2]) \o s[3]
<1> DEFINE Law(f) == [i \in 1 .. 3 |-> IF i = 1 THEN s[i] ELSE f[i - 1] \o s[i]]
           h == [i \in 1 .. 3 |-> IF i = 1 THEN s[1] ELSE IF i = 2 THEN s[1] \o s[2]
                                  ELSE (s[1] \o s[2]) \o s[3]]
           flat == CHOOSE f : f = Law(f)
<1>2. h = Law(h)
  <2>1. h[1] = s[1] /\ h[2] = s[1] \o s[2] /\ h[3] = (s[1] \o s[2]) \o s[3]
    OBVIOUS
  <2>2. \A i \in 1 .. 3 : h[i] = IF i = 1 THEN s[i] ELSE h[i - 1] \o s[i]
    <3> HIDE DEF h
    <3> TAKE i \in 1 .. 3
    <3>1. (i = 1) \/ (i = 2 /\ i # 1 /\ i - 1 = 1) \/ (i = 3 /\ i # 1 /\ i - 1 = 2)
      OBVIOUS
    <3> QED
      BY ONLY <2>1, <3>1, Zenon
  <2> QED
    BY <2>2
<1>3. flat = Law(flat)
  <2> HIDE DEF h, Law
  <2> QED
    BY <1>2
<1>4. Joined(s) = flat[3]
  BY DEF Joined, FlattenSeq
<1> HIDE DEF flat
<1>5. \A i \in 1 .. 3 : flat[i] = IF i = 1 THEN s[i] ELSE flat[i - 1] \o s[i]
  <2> TAKE i \in 1 .. 3
  <2>1. flat[i] = Law(flat)[i]
    BY <1>3
  <2>2. Law(flat)[i] = IF i = 1 THEN s[i] ELSE flat[i - 1] \o s[i]
    OBVIOUS
  <2> HIDE DEF Law
  <2> QED
    BY <2>1, <2>2
<1>6. 1 \in 1 .. 3 /\ 2 \in 1 .. 3 /\ 3 \in 1 .. 3 /\ 2 # 1 /\ 3 # 1 /\ 2 - 1 = 1 /\ 3 - 1 = 2
  OBVIOUS
<1>7. flat[1] = s[1] /\ flat[2] = flat[1] \o s[2] /\ flat[3] = flat[2] \o s[3]
  BY ONLY <1>5, <1>6, Zenon
<1> QED
  BY ONLY <1>4, <1>7, Zenon

\* Four sequences joined.
LEMMA JoinedFour ==
    ASSUME NEW s, Len(s) = 4
    PROVE  Joined(s) = ((s[1] \o s[2]) \o s[3]) \o s[4]
<1> DEFINE Law(f) == [i \in 1 .. 4 |-> IF i = 1 THEN s[i] ELSE f[i - 1] \o s[i]]
           h == [i \in 1 .. 4 |-> IF i = 1 THEN s[1] ELSE IF i = 2 THEN s[1] \o s[2]
                                  ELSE IF i = 3 THEN (s[1] \o s[2]) \o s[3]
                                  ELSE ((s[1] \o s[2]) \o s[3]) \o s[4]]
           flat == CHOOSE f : f = Law(f)
<1>2. h = Law(h)
  <2>1. /\ h[1] = s[1] /\ h[2] = s[1] \o s[2] /\ h[3] = (s[1] \o s[2]) \o s[3]
        /\ h[4] = ((s[1] \o s[2]) \o s[3]) \o s[4]
    OBVIOUS
  <2>2. \A i \in 1 .. 4 : h[i] = IF i = 1 THEN s[i] ELSE h[i - 1] \o s[i]
    <3> HIDE DEF h
    <3> TAKE i \in 1 .. 4
    <3>1. \/ i = 1
          \/ i = 2 /\ i # 1 /\ i - 1 = 1
          \/ i = 3 /\ i # 1 /\ i - 1 = 2
          \/ i = 4 /\ i # 1 /\ i - 1 = 3
      OBVIOUS
    <3> QED
      BY ONLY <2>1, <3>1, Zenon
  <2> QED
    BY <2>2
<1>3. flat = Law(flat)
  <2> HIDE DEF h, Law
  <2> QED
    BY <1>2
<1>4. Joined(s) = flat[4]
  BY DEF Joined, FlattenSeq
<1> HIDE DEF flat
<1>5. \A i \in 1 .. 4 : flat[i] = IF i = 1 THEN s[i] ELSE flat[i - 1] \o s[i]
  <2> TAKE i \in 1 .. 4
  <2>1. flat[i] = Law(flat)[i]
    BY <1>3
  <2>2. Law(flat)[i] = IF i = 1 THEN s[i] ELSE flat[i - 1] \o s[i]
    OBVIOUS
  <2> HIDE DEF Law
  <2> QED
    BY <2>1, <2>2
<1>6. /\ 1 \in 1 .. 4 /\ 2 \in 1 .. 4 /\ 3 \in 1 .. 4 /\ 4 \in 1 .. 4
      /\ 2 # 1 /\ 3 # 1 /\ 4 # 1 /\ 2 - 1 = 1 /\ 3 - 1 = 2 /\ 4 - 1 = 3
  OBVIOUS
<1>7. /\ flat[1] = s[1] /\ flat[2] = flat[1] \o s[2] /\ flat[3] = flat[2] \o s[3]
      /\ flat[4] = flat[3] \o s[4]
  BY ONLY <1>5, <1>6, Zenon
<1> QED
  BY ONLY <1>4, <1>7, Zenon

\* Neighbouring slices.
LEMMA SlicesJoin ==
    ASSUME NEW c \in Seq(Char), NEW a \in 0 .. Len(c), NEW b \in a .. Len(c), NEW e \in b .. Len(c)
    PROVE  /\ Slice(c, a, b) \in Seq(Char) /\ Len(Slice(c, a, b)) = b - a
           /\ Slice(c, a, b) \o Slice(c, b, e) = Slice(c, a, e)
<1>1. SubSeq(c, a + 1, b) \in Seq(Char) /\ Len(SubSeq(c, a + 1, b)) = b - a
  OBVIOUS
<1>2. SubSeq(c, a + 1, b) \o SubSeq(c, b + 1, e) = SubSeq(c, a + 1, e)
  <2>1. a + 1 \in 1 .. Len(c) + 1 /\ b \in (a + 1) - 1 .. Len(c)
    OBVIOUS
  <2> QED
    BY <2>1, ConcatAdjacentSubSeq
<1> QED
  BY <1>1, <1>2 DEF Slice

\* The slices to the ends.
LEMMA SlicesWhole ==
    ASSUME NEW c \in Seq(Char), NEW k \in 0 .. Len(c)
    PROVE  /\ From(c, k) = Slice(c, k, Len(c)) /\ Slice(c, 0, Len(c)) = c
           /\ From(c, k) \in Seq(Char) /\ Len(From(c, k)) = Len(c) - k
           /\ Slice(c, 0, k) \in Seq(Char) /\ Slice(c, 0, k) \o From(c, k) = c
<1>1. From(c, k) = Slice(c, k, Len(c)) /\ Slice(c, 0, Len(c)) = c
  BY SubSeqFull DEF From, Slice
<1>2. 0 \in 0 .. Len(c) /\ k \in 0 .. Len(c) /\ Len(c) \in k .. Len(c) /\ Len(c) \in Len(c) .. Len(c)
  OBVIOUS
<1>3. Slice(c, k, Len(c)) \in Seq(Char) /\ Len(Slice(c, k, Len(c))) = Len(c) - k
  BY <1>2, SlicesJoin
<1>4. Slice(c, 0, k) \in Seq(Char) /\ Slice(c, 0, k) \o Slice(c, k, Len(c)) = Slice(c, 0, Len(c))
  BY <1>2, SlicesJoin
<1> QED
  BY <1>1, <1>3, <1>4

\* The smaller and the larger of two.
LEMMA OfTwo ==
    ASSUME NEW x \in Int, NEW y \in Int
    PROVE  /\ Min({x, y}) = (IF x <= y THEN x ELSE y)
           /\ Max({x, y}) = (IF x >= y THEN x ELSE y)
  BY DEF Min, Max

\* Country code, area code and subscriber number.
LEMMA MsisdnJoined ==
    ASSUME NEW num \in Seq(Digits)
    PROVE  Joined(MsisdnParts(num)) = num
<1> DEFINE k == CountryDigits(num)
           rest == From(num, k)
           area == Max({Len(rest) - 7, 0})
<1>1. DigitsOf(num) = num /\ num \in Seq(Char) /\ Len(num) \in Nat
  <2>1. Digits \in SUBSET Int
    BY DEF Digits
  <2> QED
    BY <2>1, OnlyWhole, DigitsAreChars DEF DigitsOf, Digits
<1>2. CASE Len(num) < 10
  <2>1. MsisdnParts(num) = <<<<>>, <<>>, num>>
    BY <1>1, <1>2 DEF MsisdnParts
  <2>2. (<<>> \o <<>>) \o num = num
    BY <1>1
  <2> DEFINE s == MsisdnParts(num)
  <2>3. Len(s) = 3 /\ s[1] = <<>> /\ s[2] = <<>> /\ s[3] = num
    BY <2>1
  <2> QED
    BY ONLY <2>2, <2>3, JoinedThree, Zenon
<1>3. CASE Len(num) >= 10
  <2>1. k \in 0 .. Len(num)
    <3>1. Min({Len(num) - 10, 3}) = IF Len(num) - 10 <= 3 THEN Len(num) - 10 ELSE 3
      BY <1>1, OfTwo
    <3> QED
      BY <1>1, <1>3, <3>1 DEF CountryDigits
  <2> HIDE DEF k
  <2>2. /\ rest \in Seq(Char) /\ Len(rest) = Len(num) - k
        /\ Slice(num, 0, k) \in Seq(Char) /\ Slice(num, 0, k) \o rest = num
    BY <1>1, <2>1, SlicesWhole
  <2> HIDE DEF rest
  <2>3. area \in 0 .. Len(rest)
    <3>1. Len(rest) - 7 \in Int /\ Len(rest) \in Nat
      BY <1>1, <2>1, <2>2
    <3> DEFINE m == Len(rest) - 7
    <3>2. m <= Len(rest) /\ m \in Int /\ 0 \in Int
      BY <3>1
    <3> HIDE DEF m
    <3>3. Max({m, 0}) = IF m >= 0 THEN m ELSE 0
      BY <3>2, OfTwo
    <3>4. (IF m >= 0 THEN m ELSE 0) \in 0 .. Len(rest)
      BY <3>1, <3>2
    <3> QED
      BY <3>3, <3>4 DEF m
  <2> HIDE DEF area
  <2> DEFINE a == Slice(num, 0, k)
             b == Slice(rest, 0, area)
             c == From(rest, area)
  <2>4. b \in Seq(Char) /\ c \in Seq(Char) /\ b \o c = rest
    BY <2>2, <2>3, SlicesWhole
  <2>5. ~(Len(num) < 10)
    BY <1>1, <1>3
  <2>6. MsisdnParts(num) = <<a, b, c>>
    BY <1>1, <2>5 DEF MsisdnParts, k, rest, area
  <2>7. a \in Seq(Char) /\ a \o rest = num
    BY <2>2
  <2> HIDE DEF a, b, c
  <2>8. (a \o b) \o c = a \o (b \o c)
    <3>1. a \in Seq(Char) /\ b \in Seq(Char) /\ c \in Seq(Char)
      BY <2>4, <2>7
    <3> QED
      BY ONLY <3>1, ConcatAssociative
  <2>9. Joined(MsisdnParts(num)) = (a \o b) \o c
    <3> DEFINE s == MsisdnParts(num)
    <3>1. Len(s) = 3 /\ s[1] = a /\ s[2] = b /\ s[3] = c
      BY <2>6
    <3> QED
      BY ONLY <3>1, JoinedThree, Zenon
  <2> QED
    BY ONLY <2>4, <2>7, <2>8, <2>9, Zenon
<1> QED
  BY <1>1, <1>2, <1>3

\* Country, check digits, bank and account.
LEMMA IbanJoined ==
    ASSUME NEW num \in Seq(Digits), Len(num) > 2
    PROVE  Joined(IbanParts(SE \o num)) = SE \o num
<1> DEFINE c == SE \o num
           n == Len(c)
           bank == Min({4 + BankCodeLength(Slice(c, 0, 2)), n})
<1>1. c \in Seq(Char) /\ n \in Nat /\ n >= 5
  <2>1. SE \in Seq(Char) /\ Len(SE) = 2 /\ num \in Seq(Char)
    <3>1. 28 \in Char /\ 14 \in Char
      BY DEF Char
    <3> QED
      BY <3>1, DigitsAreChars DEF SE
  <2>2. c = SE \o num
    OBVIOUS
  <2> HIDE DEF c
  <2>3. c \in Seq(Char) /\ n = Len(SE) + Len(num)
    <3>1. SE \in Seq(Char) /\ num \in Seq(Char)
      BY <2>1
    <3> QED
      BY ONLY <2>2, <3>1, Behind
  <2> QED
    BY <2>1, <2>3
<1> HIDE DEF c
<1>2. Cleaned(c) = c
  <2>1. Char \in SUBSET Int
    BY DEF Char
  <2> QED
    BY <1>1, <2>1, OnlyWhole DEF Cleaned, Char
<1>3. bank \in 4 .. n
  <2> DEFINE l == BankCodeLength(Slice(c, 0, 2))
  <2>1. l \in 3 .. 8
    BY DEF BankCodeLength
  <2> HIDE DEF l
  <2>2. Min({4 + l, n}) = IF 4 + l <= n THEN 4 + l ELSE n
    BY <1>1, <2>1, OfTwo
  <2> QED
    BY <1>1, <2>1, <2>2 DEF l
<1> HIDE DEF bank
<1> DEFINE p == Slice(c, 0, 2)
           q == Slice(c, 2, 4)
           r == Slice(c, 4, bank)
           s == From(c, bank)
<1>4. IbanParts(c) = <<p, q, r, s>>
  <2>1. ~(Len(c) < 5)
    BY <1>1
  <2> QED
    BY <1>2, <2>1 DEF IbanParts, bank
<1>5. p \o q = Slice(c, 0, 4)
  <2>1. 0 \in 0 .. n /\ 2 \in 0 .. n /\ 4 \in 2 .. n
    BY <1>1
  <2> QED
    BY <1>1, <2>1, SlicesJoin
<1>6. Slice(c, 0, 4) \o r = Slice(c, 0, bank)
  <2>1. 0 \in 0 .. n /\ 4 \in 0 .. n
    BY <1>1
  <2> QED
    BY <1>1, <1>3, <2>1, SlicesJoin
<1>7. Slice(c, 0, bank) \o s = c
  <2>1. bank \in 0 .. n
    BY <1>1, <1>3
  <2> QED
    BY <1>1, <2>1, SlicesWhole
<1> HIDE DEF p, q, r, s
<1>8. Joined(IbanParts(c)) = ((p \o q) \o r) \o s
  <2> DEFINE t == IbanParts(c)
  <2>1. Len(t) = 4 /\ t[1] = p /\ t[2] = q /\ t[3] = r /\ t[4] = s
    BY <1>4
  <2> QED
    BY ONLY <2>1, JoinedFour, Zenon
<1>9. Joined(IbanParts(c)) = c
  BY ONLY <1>5, <1>6, <1>7, <1>8, Zenon
<1> QED
  BY <1>9 DEF c

\* A function on 1 .. n is a sequence.
LEMMA FunctionIsText ==
    ASSUME NEW n \in Nat, NEW t \in [1 .. n -> Char]
    PROVE  t \in Seq(Char) /\ Len(t) = n
  OBVIOUS

\* A bank's identifier of letters is one of characters.
LEMMA LettersAre ==
    ASSUME NEW num \in Seq(Digits), NEW n \in {8, 11}, Len(num) = n
    PROVE  Letters(num) \in Seq(Char) /\ Len(Letters(num)) = n /\ ValidSwift(Letters(num))
<1> DEFINE t == Letters(num)
<1>1. DOMAIN num = 1 .. n /\ n \in Nat /\ \A i \in 1 .. n : num[i] \in 0 .. 9
  BY DEF Digits
<1>2. /\ t = [i \in 1 .. n |-> num[i] + 10]
  BY <1>1 DEF Letters
<1>3. \A i \in 1 .. n : t[i] \in 10 .. 19
  <2> TAKE i \in 1 .. n
  <2> DEFINE d == num[i]
  <2>1. d \in 0 .. 9 /\ t[i] = d + 10
    BY <1>1, <1>2
  <2> HIDE DEF d, t
  <2> QED
    BY ONLY <2>1
<1>4. t \in Seq(Char) /\ Len(t) = n
  <2>1. \A i \in 1 .. n : num[i] + 10 \in Char
    <3> TAKE i \in 1 .. n
    <3> DEFINE d == num[i]
    <3>1. d \in 0 .. 9
      BY <1>1
    <3> HIDE DEF d
    <3>2. d + 10 \in Char
      BY <3>1 DEF Char
    <3> QED
      BY <3>2 DEF d
  <2>2. t \in [1 .. n -> Char]
    <3> HIDE DEF t
    <3> QED
      BY <1>2, <2>1
  <2> HIDE DEF t
  <2> QED
    BY ONLY <1>1, <2>2, FunctionIsText, Zenon
<1> HIDE DEF t
<1>5. \A i \in 1 .. 6 : IsLetter(t[i])
  <2> TAKE i \in 1 .. 6
  <2>1. i \in 1 .. n
    OBVIOUS
  <2>2. t[i] \in 10 .. 19
    BY <1>3, <2>1
  <2> QED
    BY <2>2 DEF IsLetter
<1>6. Space \notin Range(t)
  <2>1. DOMAIN t = 1 .. n
    BY <1>2
  <2> QED
    BY <1>3, <2>1 DEF Range, Space
<1> QED
  BY <1>4, <1>5, <1>6 DEF ValidSwift, t

\* Bank, country, place and branch.
LEMMA SwiftJoined ==
    ASSUME NEW num \in Seq(Digits)
    PROVE  /\ Len(num) = 8 => Joined(SwiftParts(Letters(num))) = Letters(num) \o XXX
           /\ Len(num) = 11 => Joined(SwiftParts(Letters(num))) = Letters(num)
<1> SUFFICES ASSUME NEW n \in {8, 11}, Len(num) = n
             PROVE  Joined(SwiftParts(Letters(num))) = IF n = 11 THEN Letters(num) ELSE Letters(num) \o XXX
  OBVIOUS
<1> DEFINE t == Letters(num)
           p == Slice(t, 0, 4)
           q == Slice(t, 4, 6)
           r == Slice(t, 6, 8)
           s == IF n = 11 THEN From(t, 8) ELSE XXX
<1>1. t \in Seq(Char) /\ Len(t) = n /\ ValidSwift(t)
  BY LettersAre
<1> HIDE DEF t
<1>2. SwiftParts(t) = <<p, q, r, s>>
  BY <1>1 DEF SwiftParts
<1>3. p \o q = Slice(t, 0, 6)
  <2>1. 0 \in 0 .. Len(t) /\ 4 \in 0 .. Len(t) /\ 6 \in 4 .. Len(t)
    BY <1>1
  <2> QED
    BY <1>1, <2>1, SlicesJoin
<1>4. Slice(t, 0, 6) \o r = Slice(t, 0, 8)
  <2>1. 0 \in 0 .. Len(t) /\ 6 \in 0 .. Len(t) /\ 8 \in 6 .. Len(t)
    BY <1>1
  <2> QED
    BY <1>1, <2>1, SlicesJoin
<1>7. Joined(SwiftParts(t)) = ((p \o q) \o r) \o s
  <2> HIDE DEF p, q, r, s
  <2> QED
    <3> DEFINE x == SwiftParts(t)
    <3>1. Len(x) = 4 /\ x[1] = p /\ x[2] = q /\ x[3] = r /\ x[4] = s
      BY <1>2
    <3> QED
      BY ONLY <3>1, JoinedFour, Zenon
<1>5. CASE n = 11
  <2>1. 8 \in 0 .. Len(t)
    BY <1>1, <1>5
  <2>2. Slice(t, 0, 8) \o s = t
    BY <1>1, <1>5, <2>1, SlicesWhole
  <2> HIDE DEF p, q, r, s
  <2> QED
    BY ONLY <1>3, <1>4, <1>5, <1>7, <2>2, Zenon DEF t
<1>6. CASE n = 8
  <2>1. Slice(t, 0, Len(t)) = t
    <3>1. 0 \in 0 .. Len(t)
      BY <1>1
    <3> QED
      BY <1>1, <3>1, SlicesWhole
  <2>2. Len(t) = 8 /\ n # 11 /\ s = XXX
    BY <1>1, <1>6
  <2>3. Slice(t, 0, 8) = t
    BY ONLY <2>1, <2>2, Zenon
  <2> HIDE DEF p, q, r, s
  <2> QED
    BY ONLY <1>3, <1>4, <1>7, <2>2, <2>3, Zenon DEF t
<1> QED
  BY <1>5, <1>6

\* A formatted number is formatted.
LEMMA FormattedTwice ==
    ASSUME NEW num \in Seq(Digits), NEW country \in DOMAIN CallingCodes
    PROVE  E164(E164(num, country), country) = E164(num, country)
<1> DEFINE code == CallingCodes[country]
           x == E164(num, country)
<1>1. \A y \in Seq(Digits) : DigitsOf(y) = y
  <2>1. Digits \in SUBSET Int
    BY DEF Digits
  <2> QED
    BY <2>1, OnlyWhole DEF DigitsOf, Digits
<1>2. code \in Seq(Digits)
  <2>1. /\ <<4, 6>> \in Seq(Digits) /\ <<1>> \in Seq(Digits) /\ <<4, 4>> \in Seq(Digits)
        /\ <<3, 5, 8>> \in Seq(Digits) /\ <<>> \in Seq(Digits)
    BY DEF Digits
  <2>2. country \in {"SE", "US", "GB", "FI", "other"}
    BY DEF CallingCodes
  <2>3. /\ CallingCodes["SE"] = <<4, 6>> /\ CallingCodes["US"] = <<1>>
        /\ CallingCodes["GB"] = <<4, 4>> /\ CallingCodes["FI"] = <<3, 5, 8>>
        /\ CallingCodes["other"] = <<>>
    BY DEF CallingCodes
  <2> QED
    BY ONLY <2>1, <2>2, <2>3, Zenon
<1> HIDE DEF code
<1>3. \A y \in Seq(Digits) : StartsWith(y, code) => E164(y, country) = y
  BY <1>1 DEF E164, code
<1>4. \A y \in Seq(Digits) : code \o y \in Seq(Digits) /\ StartsWith(code \o y, code)
  <2> TAKE y \in Seq(Digits)
  <2> DEFINE z == code \o y
  <2>1. z \in Seq(Digits) /\ Len(z) = Len(code) + Len(y)
    BY <1>2
  <2>2. SubSeq(z, 1, Len(code)) = code
    BY <1>2
  <2>3. SubSeq(code, 1, Len(code)) = code
    BY <1>2, SubSeqFull
  <2>4. Len(code) <= Len(z)
    BY <1>2, <2>1
  <2> QED
    BY <2>1, <2>2, <2>3, <2>4 DEF StartsWith, IsPrefix
<1>5. CASE StartsWith(num, code)
  BY <1>3, <1>5
<1>6. CASE ~StartsWith(num, code)
  <2>1. PICK y \in Seq(Digits) : x = code \o y
    <3>1. CASE StartsWith(num, <<0>>)
      <4>1. Len(num) >= 1
        BY <3>1 DEF StartsWith, IsPrefix
      <4>2. From(num, 1) \in Seq(Digits)
        BY <4>1 DEF From
      <4>3. x = code \o From(num, 1)
        BY <1>1, <1>6, <3>1 DEF E164, code
      <4> QED
        BY <4>2, <4>3
    <3>2. CASE ~StartsWith(num, <<0>>)
      BY <1>1, <1>6, <3>2 DEF E164, code
    <3> QED
      BY <3>1, <3>2
  <2> HIDE DEF x
  <2>2. E164(x, country) = x
    BY <2>1, <1>3, <1>4
  <2> QED
    BY <2>2 DEF x
<1> QED
  BY <1>5, <1>6

USE NumberAssumption

(* NumbersAgree, for numbers of any length and any digits: the check digits *)
(* that one module computes are the ones the others accept, and no other;   *)
(* what is taken apart can be put together, and what is formatted stays     *)
(* (udfs.rs of the banking and telecom packs, banking/sample_data.rs).      *)
THEOREM AllNumbersAgree == NumberSpec => []NumbersAgree
<1> DEFINE I == number \in Seq(Digits)
<1>1. NumberInit => I
  BY DEF NumberInit
<1>2. I /\ [NumberNext]_number => I'
  <2>1. LeadDigits \subseteq Digits /\ FillDigit \in Digits
    BY DEF Digits
  <2> SUFFICES ASSUME I, NumberNext PROVE I'
    OBVIOUS
  <2>2. PICK d \in LeadDigits \cup {FillDigit} : number' = Append(number, d)
    BY DEF NumberNext, TypeDigit
  <2> QED
    BY <2>1, <2>2
<1>3. I => NumbersAgree
  <2> SUFFICES ASSUME I PROVE NumbersAgree
    OBVIOUS
  <2>1. CheckDigitsAgree
    BY IbansAgree, OneLastDigit, ImeiIsLuhn DEF CheckDigitsAgree
  <2>2. PartsKeepNumber
    BY MsisdnJoined, IbanJoined, SwiftJoined, FormattedTwice DEF PartsKeepNumber
  <2> QED
    BY <2>1, <2>2 DEF NumbersAgree
<1> QED
  BY <1>1, <1>2, <1>3, PTL DEF NumberSpec

\* The least number of a set of numbers.
LEMMA LeastOf ==
    ASSUME NEW S \in SUBSET Nat, S # {}
    PROVE  \E i \in S : \A j \in S : i <= j
<1>1. PICK i \in S : \A j \in S : ~(<<j, i>> \in Less)
  BY LessWellFounded, WFMin
<1>2. ASSUME NEW j \in S PROVE i <= j
  <2>1. i \in Nat /\ j \in Nat /\ ~(<<j, i>> \in Less)
    BY <1>1
  <2> QED
    BY <2>1 DEF Less
<1> QED
  BY <1>2

\* First finds the least position, or says that there is none.
LEMMA FirstIs ==
    ASSUME NEW S \in SUBSET Nat, NEW none
    PROVE  /\ S = {} => First(S, none) = none
           /\ S # {} => /\ First(S, none) \in S
                        /\ \A j \in S : First(S, none) <= j
BY LeastOf DEF First

\* ... and it is the position with these two properties.
LEMMA FirstAt ==
    ASSUME NEW S \in SUBSET Nat, NEW none, NEW i \in S, \A j \in S : i <= j
    PROVE  First(S, none) = i
<1>1. First(S, none) \in S /\ First(S, none) <= i
  BY FirstIs
<1>2. i <= First(S, none) /\ i \in Nat /\ First(S, none) \in Nat
  BY <1>1
<1> QED
  BY <1>1, <1>2

\* A set that holds b + 1, and each position from a on behind which it holds
\* every one, holds all positions from a on.
LEMMA DownTo ==
    ASSUME NEW a \in Nat, NEW b \in Nat, a <= b + 1, NEW T, b + 1 \in T,
           \A i \in a .. b : (\A j \in (i + 1) .. (b + 1) : j \in T) => i \in T
    PROVE  \A i \in a .. (b + 1) : i \in T
<1> DEFINE n == b + 1 - a
           R == {k \in 0 .. n : \A j \in (b + 1 - k) .. (b + 1) : j \in T}
<1>1. n \in Nat
  OBVIOUS
<1>2. 0 \in R
  OBVIOUS
<1>3. ASSUME NEW k \in 1 .. n, k - 1 \in R PROVE k \in R
  <2> DEFINE i == b + 1 - k
  <2>1. i \in a .. b /\ b + 1 - (k - 1) = i + 1 /\ k \in 0 .. n
    OBVIOUS
  <2>2. \A j \in (i + 1) .. (b + 1) : j \in T
    BY <1>3, <2>1
  <2>3. i \in T
    BY <2>1, <2>2
  <2>4. \A j \in i .. (b + 1) : j = i \/ j \in (i + 1) .. (b + 1)
    BY <2>1
  <2> QED
    BY <2>1, <2>2, <2>3, <2>4
<1>4. n \in R
  <2>1. n \in 0 .. n
    OBVIOUS
  <2> HIDE DEF R, n
  <2> QED
    BY <2>1, <1>1, <1>2, <1>3, UpTo
<1>5. b + 1 - n = a
  OBVIOUS
<1> QED
  BY <1>4, <1>5

\* A scanner that jumps ahead: its value at a position, from the value where it
\* goes on.
Jumps(a, b, X, base, next, G) ==
    {f \in [a .. (b + 1) -> X] :
        f[b + 1] = base /\ \A i \in a .. b : f[i] = G[i][f[next[i]]]}

\* Such a scanner comes to an end.
LEMMA JumpRecursion ==
    ASSUME NEW a \in Nat, NEW b \in Nat, a <= b + 1, NEW X, NEW base \in X,
           NEW next, \A i \in a .. b : next[i] \in (i + 1) .. (b + 1),
           NEW G, \A i \in a .. b : G[i] \in [X -> X]
    PROVE  Jumps(a, b, X, base, next, G) # {}
<1> USE DEF Jumps
<1> DEFINE F(i) == Jumps(i, b, X, base, next, G)
           T == {i \in a .. (b + 1) : F(i) # {}}
<1>1. b + 1 \in T
  <2>1. [i \in (b + 1) .. (b + 1) |-> base] \in F(b + 1)
    OBVIOUS
  <2> QED
    BY <2>1
<1>2. ASSUME NEW i \in a .. b, i + 1 \in T PROVE i \in T
  <2>1. PICK f \in F(i + 1) : TRUE
    BY <1>2
  <2>2. /\ f \in [(i + 1) .. (b + 1) -> X] /\ f[b + 1] = base
        /\ \A j \in (i + 1) .. b : f[j] = G[j][f[next[j]]]
    BY <2>1
  <2> DEFINE g == [j \in i .. (b + 1) |-> IF j = i THEN G[i][f[next[i]]] ELSE f[j]]
  <2>3. G[i][f[next[i]]] \in X
    BY <2>2
  <2>4. g \in [i .. (b + 1) -> X] /\ g[b + 1] = base
    BY <2>2, <2>3
  <2>5. ASSUME NEW j \in i .. b PROVE g[j] = G[j][g[next[j]]]
    <3>1. next[j] \in (j + 1) .. (b + 1)
      OBVIOUS
    <3>2. next[j] \in i .. (b + 1) /\ next[j] # i
      BY <3>1
    <3>3. g[next[j]] = f[next[j]]
      BY <3>2
    <3> QED
      BY <2>2, <3>3
  <2>6. g \in F(i)
    BY <2>4, <2>5
  <2>7. i \in a .. (b + 1)
    OBVIOUS
  <2> HIDE DEF F, g
  <2> QED
    BY <2>6, <2>7
<1>3. a \in T
  <2> HIDE DEF T
  <2>1. \A i \in a .. b : (\A j \in (i + 1) .. (b + 1) : j \in T) => i \in T
    <3> SUFFICES ASSUME NEW i \in a .. b, \A j \in (i + 1) .. (b + 1) : j \in T PROVE i \in T
      OBVIOUS
    <3>1. i + 1 \in T
      OBVIOUS
    <3> QED
      BY <3>1, <1>2
  <2>2. \A i \in a .. (b + 1) : i \in T
    BY <2>1, <1>1, DownTo
  <2> QED
    BY <2>2
<1> QED
  BY <1>3

-------------------------------------------------------------------------------
\* Comments, quotes and words: where each ends, from the next position.

\* A line comment ends behind its line break.
LEMMA AfterLineIs ==
    ASSUME NEW b \in Nat, NEW i \in 1 .. (b + 1)
    PROVE  /\ AfterLine(i, b) \in i .. (b + 1)
           /\ i <= b => AfterLine(i, b) = IF sql[i] = "\n" THEN i + 1 ELSE AfterLine(i + 1, b)
<1> DEFINE S(k) == {j \in k .. b : sql[j] = "\n"}
<1>1. S(i) \in SUBSET Nat /\ S(i + 1) \in SUBSET Nat
  OBVIOUS
<1>2. CASE i <= b /\ sql[i] = "\n"
  <2>1. i \in S(i) /\ \A j \in S(i) : i <= j
    BY <1>2
  <2> HIDE DEF S
  <2>2. First(S(i), b) = i
    BY <2>1, <1>1, FirstAt
  <2> QED
    BY <2>2, <1>2 DEF AfterLine, S
<1>3. CASE ~(i <= b /\ sql[i] = "\n")
  <2>1. S(i) = S(i + 1)
    BY <1>3
  <2>2. First(S(i), b) = b \/ First(S(i), b) \in i .. b
    <3>1. S(i) \subseteq i .. b
      OBVIOUS
    <3> HIDE DEF S
    <3> QED
      BY <3>1, <1>1, FirstIs
  <2> QED
    BY <2>1, <2>2, <1>3 DEF AfterLine
<1> QED
  BY <1>2, <1>3

\* A block comment ends behind the first star that a slash follows.
LEMMA AfterBlockIs ==
    ASSUME NEW b \in Nat, NEW i \in 1 .. (b + 1)
    PROVE  /\ AfterBlock(i, b) \in i .. (b + 1)
           /\ i <= b => AfterBlock(i, b) = IF Starts(i, b, <<"*", "/">>) THEN i + 2
                                           ELSE AfterBlock(i + 1, b)
<1> DEFINE S(k) == {j \in k .. (b - 1) : Starts(j, b, <<"*", "/">>)}
<1>1. S(i) \in SUBSET Nat /\ S(i + 1) \in SUBSET Nat
  OBVIOUS
<1>2. CASE i <= b /\ Starts(i, b, <<"*", "/">>)
  <2>1. i \in S(i) /\ (\A j \in S(i) : i <= j) /\ i < b
    BY <1>2 DEF Starts
  <2> HIDE DEF S
  <2>2. First(S(i), b - 1) = i
    BY <2>1, <1>1, FirstAt
  <2> QED
    BY <2>1, <2>2, <1>2 DEF AfterBlock, S
<1>3. CASE ~(i <= b /\ Starts(i, b, <<"*", "/">>))
  <2>1. S(i) = S(i + 1)
    BY <1>3
  <2>2. First(S(i), b - 1) = b - 1 \/ First(S(i), b - 1) \in i .. (b - 1)
    <3>1. S(i) \subseteq i .. (b - 1)
      OBVIOUS
    <3> HIDE DEF S
    <3> QED
      BY <3>1, <1>1, FirstIs
  <2>3. AfterBlock(i, b) = First(S(i), b - 1) + 2 /\ AfterBlock(i + 1, b) = First(S(i + 1), b - 1) + 2
    BY DEF AfterBlock
  <2> HIDE DEF S
  <2> QED
    BY <2>1, <2>2, <2>3, <1>3
<1> QED
  BY <1>2, <1>3

\* A word ends before the first character that is not of a word.
LEMMA AfterWordIs ==
    ASSUME NEW b \in Nat, NEW i \in 1 .. (b + 1)
    PROVE  /\ AfterWord(i, b) \in i .. (b + 1)
           /\ i <= b => AfterWord(i, b) = IF sql[i] = "word" THEN AfterWord(i + 1, b) ELSE i
<1> DEFINE S(k) == {j \in k .. b : sql[j] # "word"}
<1>1. S(i) \in SUBSET Nat /\ S(i + 1) \in SUBSET Nat
  OBVIOUS
<1>2. CASE i <= b /\ sql[i] # "word"
  <2>1. i \in S(i) /\ \A j \in S(i) : i <= j
    BY <1>2
  <2> HIDE DEF S
  <2>2. First(S(i), b + 1) = i
    BY <2>1, <1>1, FirstAt
  <2> QED
    BY <2>2, <1>2 DEF AfterWord, S
<1>3. CASE ~(i <= b /\ sql[i] # "word")
  <2>1. S(i) = S(i + 1)
    BY <1>3
  <2>2. First(S(i), b + 1) = b + 1 \/ First(S(i), b + 1) \in i .. b
    <3>1. S(i) \subseteq i .. b
      OBVIOUS
    <3> HIDE DEF S
    <3> QED
      BY <3>1, <1>1, FirstIs
  <2> QED
    BY <2>1, <2>2, <1>3 DEF AfterWord
<1> QED
  BY <1>2, <1>3

\* Where a quoted text goes on at a position.
QuoteNext(j, b) == IF sql[j] # "quote" THEN j + 1
                   ELSE IF Starts(j, b, <<"quote", "quote">>) THEN j + 2
                   ELSE b + 1
QuoteEnds(j, b) == sql[j] = "quote" /\ ~Starts(j, b, <<"quote", "quote">>)

\* A quoted text ends behind the first quote that no second one follows.
LEMMA AfterQuoteIs ==
    ASSUME NEW b \in Nat, NEW i \in 1 .. (b + 1)
    PROVE  /\ AfterQuote(i, b) \in i .. (b + 1)
           /\ i <= b => AfterQuote(i, b) =
                  IF sql[i] # "quote" THEN AfterQuote(i + 1, b)
                  ELSE IF Starts(i, b, <<"quote", "quote">>) THEN AfterQuote(i + 2, b)
                  ELSE i + 1
<1> DEFINE next == [j \in 1 .. b |-> QuoteNext(j, b)]
           G == [j \in 1 .. b |-> [x \in Nat |-> IF QuoteEnds(j, b) THEN j + 1 ELSE x]]
           J == Jumps(1, b, Nat, b + 1, next, G)
<1>1. PICK f \in J : TRUE
  <2>1. \A j \in 1 .. b : next[j] \in (j + 1) .. (b + 1)
    BY DEF QuoteNext, Starts
  <2>2. \A j \in 1 .. b : G[j] \in [Nat -> Nat]
    OBVIOUS
  <2>3. 1 \in Nat /\ 1 <= b + 1 /\ b + 1 \in Nat
    OBVIOUS
  <2> HIDE DEF next, G
  <2>4. Jumps(1, b, Nat, b + 1, next, G) # {}
    BY ONLY <2>1, <2>2, <2>3, b \in Nat, JumpRecursion
  <2> QED
    BY <2>4
<1>2. /\ f \in [1 .. (b + 1) -> Nat] /\ f[b + 1] = b + 1
      /\ \A j \in 1 .. b : f[j] = IF QuoteEnds(j, b) THEN j + 1 ELSE f[QuoteNext(j, b)]
  <2>1. /\ f \in [1 .. (b + 1) -> Nat] /\ f[b + 1] = b + 1
        /\ \A j \in 1 .. b : f[j] = G[j][f[next[j]]]
    BY <1>1 DEF Jumps
  <2>2. ASSUME NEW j \in 1 .. b PROVE f[j] = IF QuoteEnds(j, b) THEN j + 1 ELSE f[QuoteNext(j, b)]
    <3>1. QuoteNext(j, b) \in 1 .. (b + 1)
      BY DEF QuoteNext, Starts
    <3> QED
      BY <2>1, <3>1
  <2> QED
    BY <2>1, <2>2
<1>3. ASSUME NEW k \in 1 .. (b + 1) PROVE AfterQuote(k, b) = f[k]
  <2> DEFINE Law(g) == [j \in k .. (b + 1) |->
                 IF j > b THEN b + 1
                 ELSE IF sql[j] # "quote" THEN g[j + 1]
                 ELSE IF Starts(j, b, <<"quote", "quote">>) THEN g[j + 2]
                 ELSE j + 1]
             h == [j \in k .. (b + 1) |-> f[j]]
             after == CHOOSE g : g = Law(g)
             T == {j \in k .. (b + 1) : after[j] = f[j]}
  <2>1. h = Law(h)
    <3>1. ASSUME NEW j \in k .. (b + 1) PROVE h[j] = Law(h)[j]
      <4>1. CASE j > b
        BY <4>1, <1>2
      <4>2. CASE j <= b
        <5>1. j \in 1 .. b /\ QuoteNext(j, b) \in k .. (b + 1) /\ h[j] = f[j]
          BY <4>2 DEF QuoteNext, Starts
        <5>2. h[QuoteNext(j, b)] = f[QuoteNext(j, b)]
          BY <5>1
        <5> HIDE DEF h
        <5> QED
          BY <4>2, <5>1, <5>2, <1>2 DEF QuoteNext, QuoteEnds
      <4> QED
        BY <4>1, <4>2
    <3>2. h = [j \in k .. (b + 1) |-> h[j]] /\ Law(h) = [j \in k .. (b + 1) |-> Law(h)[j]]
      OBVIOUS
    <3> HIDE DEF h, Law
    <3> QED
      BY <3>1, <3>2
  <2>2. after = Law(after)
    <3> HIDE DEF h, Law
    <3> QED
      BY <2>1
  <2>3. AfterQuote(k, b) = after[k]
    BY DEF AfterQuote
  <2> HIDE DEF after, h
  <2>4. b + 1 \in T
    BY <2>2, <1>2
  <2>5. ASSUME NEW j \in k .. b, \A l \in (j + 1) .. (b + 1) : l \in T PROVE j \in T
    <3>1. j \in 1 .. b /\ QuoteNext(j, b) \in (j + 1) .. (b + 1) /\ j \in k .. (b + 1)
      BY DEF QuoteNext, Starts
    <3>2. after[QuoteNext(j, b)] = f[QuoteNext(j, b)]
      BY <3>1, <2>5
    <3>3. after[j] = Law(after)[j]
      BY <2>2
    <3>4. Law(after)[j] = IF QuoteEnds(j, b) THEN j + 1 ELSE after[QuoteNext(j, b)]
      BY <3>1 DEF QuoteNext, QuoteEnds
    <3> HIDE DEF Law
    <3> QED
      BY <3>1, <3>2, <3>3, <3>4, <1>2
  <2>6. k \in T
    <3>1. k \in Nat /\ k <= b + 1 /\ k \in k .. (b + 1)
      OBVIOUS
    <3> HIDE DEF T
    <3>2. \A j \in k .. (b + 1) : j \in T
      BY <3>1, <2>4, <2>5, DownTo
    <3> QED
      BY <3>1, <3>2
  <2> QED
    BY <2>3, <2>6
<1>4. \A j \in 1 .. (b + 1) : f[j] \in j .. (b + 1)
  <2> DEFINE T == {j \in 1 .. (b + 1) : f[j] \in j .. (b + 1)}
  <2>1. b + 1 \in T
    BY <1>2
  <2>2. ASSUME NEW j \in 1 .. b, \A l \in (j + 1) .. (b + 1) : l \in T PROVE j \in T
    <3>1. QuoteNext(j, b) \in (j + 1) .. (b + 1)
      BY DEF QuoteNext, Starts
    <3>2. f[QuoteNext(j, b)] \in (j + 1) .. (b + 1)
      BY <3>1, <2>2
    <3>3. f[j] = j + 1 \/ f[j] = f[QuoteNext(j, b)]
      BY <1>2
    <3>4. f[j] \in j .. (b + 1)
      BY <3>2, <3>3
    <3> QED
      BY <3>4
  <2>3. 1 \in Nat /\ 1 <= b + 1
    OBVIOUS
  <2>4. \A j \in 1 .. (b + 1) : j \in T
    <3> HIDE DEF T
    <3> QED
      BY <2>1, <2>2, <2>3, DownTo
  <2> QED
    BY <2>4
<1>5. ASSUME i <= b
      PROVE  f[i] = IF sql[i] # "quote" THEN f[i + 1]
                    ELSE IF Starts(i, b, <<"quote", "quote">>) THEN f[i + 2]
                    ELSE i + 1
  <2>1. i \in 1 .. b
    BY <1>5
  <2>2. f[i] = IF QuoteEnds(i, b) THEN i + 1 ELSE f[QuoteNext(i, b)]
    BY <2>1, <1>2
  <2> QED
    BY <2>2 DEF QuoteNext, QuoteEnds
<1>6. ASSUME i <= b PROVE AfterQuote(i + 1, b) = f[i + 1]
  BY <1>3, <1>6
<1>7. ASSUME Starts(i, b, <<"quote", "quote">>) PROVE AfterQuote(i + 2, b) = f[i + 2]
  <2>1. i + 2 \in 1 .. (b + 1)
    BY <1>7 DEF Starts
  <2> QED
    BY <2>1, <1>3
<1> QED
  BY <1>3, <1>4, <1>5, <1>6, <1>7

-------------------------------------------------------------------------------
\* The lexer, jump by jump.

\* Where the code goes on behind a position: behind a comment or a quoted text,
\* or at the next character.
Comment(i, b) == Starts(i, b, <<"-", "-">>) \/ Starts(i, b, <<"/", "*">>)
Skip(i, b) == IF Starts(i, b, <<"-", "-">>) THEN AfterLine(i + 2, b)
              ELSE IF Starts(i, b, <<"/", "*">>) THEN AfterBlock(i + 2, b)
              ELSE IF sql[i] = "quote" THEN AfterQuote(i + 1, b)
              ELSE i + 1

\* Where the lexer goes on, and what it keeps.
Jump(i, b) == IF sql[i] = "word" THEN AfterWord(i, b) ELSE Skip(i, b)
Token(i, b) == IF sql[i] = "word" THEN {<<i, AfterWord(i, b) - 1>>}
               ELSE IF sql[i] \in {"\n", "quote"} \/ Comment(i, b) THEN {}
               ELSE {<<i, i>>}

\* Both go forward, and not beyond the end.
LEMMA Forward ==
    ASSUME NEW b \in Nat, NEW i \in 1 .. b
    PROVE  /\ Skip(i, b) \in (i + 1) .. (b + 1)
           /\ Jump(i, b) \in (i + 1) .. (b + 1)
<1>1. Skip(i, b) \in (i + 1) .. (b + 1)
  <2>1. CASE Comment(i, b)
    <3>1. i + 2 \in 1 .. (b + 1)
      BY <2>1 DEF Comment, Starts
    <3>2. AfterLine(i + 2, b) \in (i + 2) .. (b + 1) /\ AfterBlock(i + 2, b) \in (i + 2) .. (b + 1)
      BY <3>1, AfterLineIs, AfterBlockIs
    <3> QED
      BY <3>2, <2>1 DEF Comment, Skip
  <2>2. CASE ~Comment(i, b)
    <3>1. i + 1 \in 1 .. (b + 1)
      OBVIOUS
    <3>2. AfterQuote(i + 1, b) \in (i + 1) .. (b + 1)
      BY <3>1, AfterQuoteIs
    <3> QED
      BY <3>2, <2>2 DEF Comment, Skip
  <2> QED
    BY <2>1, <2>2
<1>2. ASSUME sql[i] = "word" PROVE AfterWord(i, b) \in (i + 1) .. (b + 1)
  <2>0. i \in 1 .. (b + 1) /\ i + 1 \in 1 .. (b + 1) /\ i <= b
    OBVIOUS
  <2>1. AfterWord(i, b) = AfterWord(i + 1, b)
    BY <2>0, <1>2, AfterWordIs
  <2>2. AfterWord(i + 1, b) \in (i + 1) .. (b + 1)
    BY <2>0, AfterWordIs
  <2> QED
    BY <2>1, <2>2
<1> QED
  BY <1>1, <1>2 DEF Jump

\* The lexer keeps what is at its position and goes on from the next one.
LEMMA LexLaw ==
    ASSUME NEW b \in Nat
    PROVE  /\ LexSql(b + 1, b) = {}
           /\ \A i \in 1 .. b : LexSql(i, b) = Token(i, b) \cup LexSql(Jump(i, b), b)
<1> DEFINE X == SUBSET (Int \X Int)
           next == [j \in 1 .. b |-> Jump(j, b)]
           G == [j \in 1 .. b |-> [x \in X |-> Token(j, b) \cup x]]
           J == Jumps(1, b, X, {}, next, G)
<1>1. PICK f \in J : TRUE
  <2>1. \A j \in 1 .. b : next[j] \in (j + 1) .. (b + 1)
    BY Forward
  <2>2. ASSUME NEW j \in 1 .. b PROVE Token(j, b) \in X
    <3>1. AfterWord(j, b) \in Int
      BY AfterWordIs
    <3> QED
      BY <3>1 DEF Token
  <2>3. \A j \in 1 .. b : G[j] \in [X -> X]
    <3> HIDE DEF X
    <3>1. \A j \in 1 .. b, x \in X : Token(j, b) \cup x \in X
      BY <2>2 DEF X
    <3> QED
      BY <3>1
  <2>4. 1 \in Nat /\ 1 <= b + 1 /\ {} \in X
    OBVIOUS
  <2> HIDE DEF next, G, X
  <2>5. Jumps(1, b, X, {}, next, G) # {}
    BY ONLY <2>1, <2>3, <2>4, b \in Nat, JumpRecursion
  <2> QED
    BY <2>5
<1>2. /\ DOMAIN f = 1 .. (b + 1) /\ f[b + 1] = {}
      /\ \A j \in 1 .. b : f[j] = Token(j, b) \cup f[Jump(j, b)]
  <2>1. /\ f \in [1 .. (b + 1) -> X] /\ f[b + 1] = {}
        /\ \A j \in 1 .. b : f[j] = G[j][f[next[j]]]
    BY <1>1 DEF Jumps
  <2>2. ASSUME NEW j \in 1 .. b PROVE f[j] = Token(j, b) \cup f[Jump(j, b)]
    <3>1. Jump(j, b) \in 1 .. (b + 1)
      <4>1. Jump(j, b) \in (j + 1) .. (b + 1)
        BY Forward
      <4> QED
        BY <4>1
    <3>2. f[Jump(j, b)] \in X
      BY <2>1, <3>1
    <3> HIDE DEF X
    <3> QED
      BY <2>1, <3>1, <3>2
  <2> QED
    BY <2>1, <2>2
<1>3. ASSUME NEW k \in 1 .. (b + 1) PROVE LexSql(k, b) = f[k]
  <2> DEFINE Law(g) == [i \in k .. (b + 1) |->
                 IF i > b THEN {}
                 ELSE IF IsSpace(i) THEN g[i + 1]
                 ELSE IF Starts(i, b, <<"-", "-">>) THEN g[AfterLine(i + 2, b)]
                 ELSE IF Starts(i, b, <<"/", "*">>) THEN g[AfterBlock(i + 2, b)]
                 ELSE IF sql[i] = "quote" THEN g[AfterQuote(i + 1, b)]
                 ELSE IF sql[i] = "word" THEN
                          {<<i, AfterWord(i, b) - 1>>} \cup g[AfterWord(i, b)]
                 ELSE {<<i, i>>} \cup g[i + 1]]
             h == [i \in k .. (b + 1) |-> f[i]]
             lex == CHOOSE g : g = Law(g)
             T == {j \in k .. (b + 1) : lex[j] = f[j]}
  <2>1. ASSUME NEW g, NEW i \in k .. b
        PROVE  Law(g)[i] = Token(i, b) \cup g[Jump(i, b)]
    <3>1. i \in k .. (b + 1) /\ ~(i > b)
      OBVIOUS
    <3>2. sql[i] \in {"\n", "quote", "word"} => ~Comment(i, b)
      BY DEF Comment, Starts
    <3> QED
      BY <3>1, <3>2 DEF Jump, Skip, Token, Comment, IsSpace
  <2>2. h = Law(h)
    <3>1. ASSUME NEW j \in k .. (b + 1) PROVE h[j] = Law(h)[j]
      <4>1. CASE j > b
        BY <4>1, <1>2
      <4>2. CASE j <= b
        <5>1. j \in 1 .. b /\ j \in k .. b /\ Jump(j, b) \in k .. (b + 1) /\ h[j] = f[j]
          <6>1. j \in 1 .. b /\ j \in k .. b
            BY <4>2
          <6>2. Jump(j, b) \in (j + 1) .. (b + 1)
            BY <6>1, Forward
          <6> QED
            BY <6>1, <6>2
        <5>2. h[Jump(j, b)] = f[Jump(j, b)]
          BY <5>1
        <5> HIDE DEF h, Law
        <5>3. Law(h)[j] = Token(j, b) \cup h[Jump(j, b)]
          BY <5>1, <2>1
        <5>4. f[j] = Token(j, b) \cup f[Jump(j, b)]
          BY <5>1, <1>2
        <5> QED
          BY <5>1, <5>2, <5>3, <5>4
      <4> QED
        BY <4>1, <4>2
    <3>2. Law(h) = [j \in k .. (b + 1) |-> Law(h)[j]]
      <4> HIDE DEF h
      <4> QED
        OBVIOUS
    <3>3. h = [j \in k .. (b + 1) |-> h[j]]
      <4> HIDE DEF Law
      <4> QED
        OBVIOUS
    <3> HIDE DEF h, Law
    <3> QED
      BY <3>1, <3>2, <3>3
  <2>3. lex = Law(lex)
    <3> HIDE DEF h, Law
    <3> QED
      BY <2>2
  <2>4. LexSql(k, b) = lex[k]
    BY DEF LexSql
  <2> HIDE DEF lex, h
  <2>5. b + 1 \in T
    <3>1. b + 1 \in k .. (b + 1) /\ b + 1 > b
      OBVIOUS
    <3>2. Law(lex)[b + 1] = {}
      BY <3>1
    <3>3. lex[b + 1] = Law(lex)[b + 1]
      BY <2>3
    <3> HIDE DEF Law
    <3> QED
      BY <3>1, <3>2, <3>3, <1>2
  <2> HIDE DEF Law
  <2>6. ASSUME NEW j \in k .. b, \A l \in (j + 1) .. (b + 1) : l \in T PROVE j \in T
    <3>1. j \in 1 .. b /\ Jump(j, b) \in (j + 1) .. (b + 1) /\ j \in k .. (b + 1)
      <4>1. j \in 1 .. b /\ j \in k .. (b + 1)
        OBVIOUS
      <4>2. Jump(j, b) \in (j + 1) .. (b + 1)
        BY <4>1, Forward
      <4> QED
        BY <4>1, <4>2
    <3>2. lex[Jump(j, b)] = f[Jump(j, b)]
      BY <3>1, <2>6
    <3>3. lex[j] = Law(lex)[j]
      BY <2>3
    <3>4. lex[j] = Token(j, b) \cup lex[Jump(j, b)]
      BY <2>1, <3>3
    <3> QED
      BY <3>1, <3>2, <3>4, <1>2
  <2>7. k \in T
    <3>1. k \in Nat /\ k <= b + 1 /\ k \in k .. (b + 1)
      OBVIOUS
    <3> HIDE DEF T
    <3>2. \A j \in k .. (b + 1) : j \in T
      BY <3>1, <2>5, <2>6, DownTo
    <3> QED
      BY <3>1, <3>2
  <2> QED
    BY <2>4, <2>7
<1>4. b + 1 \in 1 .. (b + 1)
  OBVIOUS
<1>5. ASSUME NEW i \in 1 .. b PROVE LexSql(i, b) = Token(i, b) \cup LexSql(Jump(i, b), b)
  <2>1. i \in 1 .. (b + 1) /\ Jump(i, b) \in 1 .. (b + 1)
    <3>1. Jump(i, b) \in (i + 1) .. (b + 1)
      BY Forward
    <3> QED
      BY <3>1
  <2> QED
    BY <2>1, <1>2, <1>3
<1> QED
  BY <1>2, <1>3, <1>4, <1>5

\* A jump that stops at an end.
Cut(x, b) == IF x <= b + 1 THEN x ELSE b + 1

\* At an earlier end comments, quotes and words end where they did, or there.
LEMMA CutEnds ==
    ASSUME NEW b \in Nat, NEW c \in Nat, b <= c, NEW i \in 1 .. (b + 1)
    PROVE  /\ AfterLine(i, b) = Cut(AfterLine(i, c), b)
           /\ AfterBlock(i, b) = Cut(AfterBlock(i, c), b)
           /\ AfterQuote(i, b) = Cut(AfterQuote(i, c), b)
           /\ AfterWord(i, b) = Cut(AfterWord(i, c), b)
<1> DEFINE R(j) == /\ AfterLine(j, b) = Cut(AfterLine(j, c), b)
                   /\ AfterBlock(j, b) = Cut(AfterBlock(j, c), b)
                   /\ AfterQuote(j, b) = Cut(AfterQuote(j, c), b)
                   /\ AfterWord(j, b) = Cut(AfterWord(j, c), b)
           T == {j \in 1 .. (b + 1) : R(j)}
<1>1. ASSUME NEW j \in 1 .. (b + 1)
      PROVE  /\ AfterLine(j, b) \in j .. (b + 1) /\ AfterLine(j, c) \in j .. (c + 1)
             /\ AfterBlock(j, b) \in j .. (b + 1) /\ AfterBlock(j, c) \in j .. (c + 1)
             /\ AfterQuote(j, b) \in j .. (b + 1) /\ AfterQuote(j, c) \in j .. (c + 1)
             /\ AfterWord(j, b) \in j .. (b + 1) /\ AfterWord(j, c) \in j .. (c + 1)
  <2>1. j \in 1 .. (c + 1)
    OBVIOUS
  <2> QED
    BY <2>1, AfterLineIs, AfterBlockIs, AfterQuoteIs, AfterWordIs
<1>2. b + 1 \in T
  <2>1. b + 1 \in 1 .. (b + 1)
    OBVIOUS
  <2> QED
    BY <2>1, <1>1 DEF Cut
<1>3. ASSUME NEW j \in 1 .. b, \A l \in (j + 1) .. (b + 1) : l \in T PROVE j \in T
  <2>1. j \in 1 .. (b + 1) /\ j \in 1 .. (c + 1) /\ j <= b /\ j <= c /\ j + 1 \in 1 .. (b + 1)
    OBVIOUS
  <2>2. R(j + 1)
    BY <2>1, <1>3
  <2>3. AfterLine(j, b) = Cut(AfterLine(j, c), b)
    <3>1. AfterLine(j, b) = IF sql[j] = "\n" THEN j + 1 ELSE AfterLine(j + 1, b)
      BY <2>1, AfterLineIs
    <3>2. AfterLine(j, c) = IF sql[j] = "\n" THEN j + 1 ELSE AfterLine(j + 1, c)
      BY <2>1, AfterLineIs
    <3> QED
      BY <2>1, <2>2, <3>1, <3>2 DEF Cut
  <2>4. AfterWord(j, b) = Cut(AfterWord(j, c), b)
    <3>1. AfterWord(j, b) = IF sql[j] = "word" THEN AfterWord(j + 1, b) ELSE j
      BY <2>1, AfterWordIs
    <3>2. AfterWord(j, c) = IF sql[j] = "word" THEN AfterWord(j + 1, c) ELSE j
      BY <2>1, AfterWordIs
    <3> QED
      BY <2>1, <2>2, <3>1, <3>2 DEF Cut
  <2>5. AfterBlock(j, b) = Cut(AfterBlock(j, c), b)
    <3>1. AfterBlock(j, b) = IF Starts(j, b, <<"*", "/">>) THEN j + 2 ELSE AfterBlock(j + 1, b)
      BY <2>1, AfterBlockIs
    <3>2. AfterBlock(j, c) = IF Starts(j, c, <<"*", "/">>) THEN j + 2 ELSE AfterBlock(j + 1, c)
      BY <2>1, AfterBlockIs
    <3>3. CASE j < b
      <4>1. Starts(j, b, <<"*", "/">>) = Starts(j, c, <<"*", "/">>)
        BY <3>3 DEF Starts
      <4> QED
        BY <2>1, <2>2, <3>1, <3>2, <3>3, <4>1 DEF Cut
    <3>4. CASE j = b
      <4>1. ~Starts(j, b, <<"*", "/">>) /\ AfterBlock(j + 1, b) = b + 1
        BY <3>4, <2>1, <1>1 DEF Starts
      <4>2. AfterBlock(j + 1, c) \in (b + 1) .. (c + 1)
        BY <3>4, <2>1, <1>1
      <4> QED
        BY <3>1, <3>2, <3>4, <4>1, <4>2 DEF Cut
    <3> QED
      BY <3>3, <3>4
  <2>6. AfterQuote(j, b) = Cut(AfterQuote(j, c), b)
    <3>1. AfterQuote(j, b) = IF sql[j] # "quote" THEN AfterQuote(j + 1, b)
                             ELSE IF Starts(j, b, <<"quote", "quote">>) THEN AfterQuote(j + 2, b)
                             ELSE j + 1
      BY <2>1, AfterQuoteIs
    <3>2. AfterQuote(j, c) = IF sql[j] # "quote" THEN AfterQuote(j + 1, c)
                             ELSE IF Starts(j, c, <<"quote", "quote">>) THEN AfterQuote(j + 2, c)
                             ELSE j + 1
      BY <2>1, AfterQuoteIs
    <3>3. CASE j < b
      <4>1. Starts(j, b, <<"quote", "quote">>) = Starts(j, c, <<"quote", "quote">>)
        BY <3>3 DEF Starts
      <4>2. R(j + 2)
        BY <3>3, <1>3
      <4> QED
        BY <2>1, <2>2, <3>1, <3>2, <3>3, <4>1, <4>2 DEF Cut
    <3>4. CASE j = b
      <4>1. ~Starts(j, b, <<"quote", "quote">>) /\ AfterQuote(j + 1, b) = b + 1
        BY <3>4, <2>1, <1>1 DEF Starts
      <4>2. AfterQuote(j + 1, c) \in (b + 1) .. (c + 1)
        BY <3>4, <2>1, <1>1
      <4>3. Starts(j, c, <<"quote", "quote">>) => AfterQuote(j + 2, c) \in (b + 2) .. (c + 1)
        <5>1. Starts(j, c, <<"quote", "quote">>) => j + 2 \in 1 .. (c + 1)
          BY DEF Starts
        <5> QED
          BY <5>1, <3>4, AfterQuoteIs
      <4> QED
        BY <3>1, <3>2, <3>4, <4>1, <4>2, <4>3 DEF Cut
    <3> QED
      BY <3>3, <3>4
  <2> QED
    BY <2>1, <2>3, <2>4, <2>5, <2>6
<1>4. i \in T
  <2>1. 1 \in Nat /\ 1 <= b + 1
    OBVIOUS
  <2> HIDE DEF T
  <2>2. \A j \in 1 .. (b + 1) : j \in T
    BY <2>1, <1>2, <1>3, DownTo
  <2> QED
    BY <2>2
<1> QED
  BY <1>4

\* ... so that the lexer does the same until it would jump across the end, when no
\* comment begins across it.
LEMMA CutJump ==
    ASSUME NEW b \in Nat, NEW c \in Nat, b <= c, NEW i \in 1 .. b,
           b < c => sql[b + 1] \in {"sep", "\n"}
    PROVE  /\ Jump(i, b) = Cut(Jump(i, c), b)
           /\ Skip(i, b) = Cut(Skip(i, c), b)
           /\ Token(i, b) = Token(i, c)
           /\ sql[i] = "word" => Jump(i, c) <= b + 1
<1>1. Starts(i, b, <<"-", "-">>) <=> Starts(i, c, <<"-", "-">>)
  <2>1. CASE i < b
    BY <2>1 DEF Starts
  <2>2. CASE i = b
    BY <2>2 DEF Starts
  <2> QED
    BY <2>1, <2>2
<1>2. Starts(i, b, <<"/", "*">>) <=> Starts(i, c, <<"/", "*">>)
  <2>1. CASE i < b
    BY <2>1 DEF Starts
  <2>2. CASE i = b
    BY <2>2 DEF Starts
  <2> QED
    BY <2>1, <2>2
<1>3. i \in 1 .. (b + 1) /\ i + 1 \in 1 .. (b + 1) /\ (Comment(i, c) => i + 2 \in 1 .. (b + 1))
  <2>1. i \in 1 .. (b + 1) /\ i + 1 \in 1 .. (b + 1)
    OBVIOUS
  <2>2. ASSUME Comment(i, c) PROVE i + 2 \in 1 .. (b + 1)
    <3>1. Comment(i, b)
      BY <2>2, <1>1, <1>2 DEF Comment
    <3>2. i < b
      BY <3>1 DEF Comment, Starts
    <3> QED
      BY <3>2
  <2> QED
    BY <2>1, <2>2
<1>4. Skip(i, b) = Cut(Skip(i, c), b)
  <2>1. CASE Starts(i, c, <<"-", "-">>)
    <3>1. AfterLine(i + 2, b) = Cut(AfterLine(i + 2, c), b)
      BY <2>1, <1>3, CutEnds DEF Comment
    <3> QED
      BY <3>1, <2>1, <1>1 DEF Skip
  <2>2. CASE ~Starts(i, c, <<"-", "-">>) /\ Starts(i, c, <<"/", "*">>)
    <3>1. AfterBlock(i + 2, b) = Cut(AfterBlock(i + 2, c), b)
      BY <2>2, <1>3, CutEnds DEF Comment
    <3> QED
      BY <3>1, <2>2, <1>1, <1>2 DEF Skip
  <2>3. CASE ~Comment(i, c)
    <3>1. AfterQuote(i + 1, b) = Cut(AfterQuote(i + 1, c), b)
      BY <1>3, CutEnds
    <3> QED
      <4>1. ~Starts(i, b, <<"-", "-">>) /\ ~Starts(i, b, <<"/", "*">>)
        BY <2>3, <1>1, <1>2 DEF Comment
      <4>2. ~Starts(i, c, <<"-", "-">>) /\ ~Starts(i, c, <<"/", "*">>)
        BY <2>3 DEF Comment
      <4>3. Skip(i, b) = IF sql[i] = "quote" THEN AfterQuote(i + 1, b) ELSE i + 1
        BY <4>1 DEF Skip
      <4>4. Skip(i, c) = IF sql[i] = "quote" THEN AfterQuote(i + 1, c) ELSE i + 1
        BY <4>2 DEF Skip
      <4>5. Cut(i + 1, b) = i + 1
        BY DEF Cut
      <4> QED
        BY <3>1, <4>3, <4>4, <4>5
  <2> QED
    BY <2>1, <2>2, <2>3 DEF Comment
<1>5. AfterWord(i, b) = Cut(AfterWord(i, c), b)
  BY <1>3, CutEnds
<1>6. AfterWord(i, c) <= b + 1
  <2>1. CASE b = c
    <3>1. AfterWord(i, c) \in i .. (c + 1)
      BY ONLY <2>1, <1>3, c \in Nat, AfterWordIs
    <3> QED
      BY <3>1, <2>1
  <2>2. CASE b < c
    <3> DEFINE S == {j \in i .. c : sql[j] # "word"}
    <3>1. AfterWord(i, c) = First(S, c + 1)
      BY DEF AfterWord
    <3>2. sql[b + 1] # "word" /\ b + 1 \in i .. c
      BY <2>2
    <3>3. b + 1 \in S /\ S \in SUBSET Nat
      BY <3>2
    <3> HIDE DEF S
    <3> QED
      BY <3>1, <3>3, FirstIs
  <2> QED
    BY <2>1, <2>2
<1>7. AfterWord(i, b) = AfterWord(i, c)
  BY <1>5, <1>6 DEF Cut
<1>8. Token(i, b) = Token(i, c)
  BY <1>1, <1>2, <1>7 DEF Token, Comment
<1> QED
  BY <1>4, <1>5, <1>6, <1>8 DEF Jump

-------------------------------------------------------------------------------
\* A piece of a text, with the space around it and without.

\* Space in front is skipped.
LEMMA LexSpaces ==
    ASSUME NEW b \in Nat, NEW f \in 1 .. (b + 1), NEW a \in 1 .. f,
           \A i \in a .. (f - 1) : IsSpace(i)
    PROVE  LexSql(a, b) = LexSql(f, b)
<1> DEFINE T == {i \in a .. f : LexSql(i, b) = LexSql(f, b)}
<1>1. f \in T
  OBVIOUS
<1>2. ASSUME NEW i \in a .. (f - 1), \A j \in (i + 1) .. f : j \in T PROVE i \in T
  <2>1. i \in 1 .. b /\ IsSpace(i) /\ i + 1 \in T /\ i \in a .. f
    BY <1>2
  <2>2. Jump(i, b) = i + 1 /\ Token(i, b) = {}
    BY <2>1 DEF IsSpace, Jump, Skip, Token, Starts
  <2>3. LexSql(i, b) = Token(i, b) \cup LexSql(Jump(i, b), b)
    BY <2>1, LexLaw
  <2>4. LexSql(i, b) = LexSql(i + 1, b)
    BY <2>2, <2>3
  <2> QED
    BY <2>1, <2>4
<1>3. a \in T
  <2>1. a \in Nat /\ f - 1 \in Nat /\ a <= (f - 1) + 1 /\ (f - 1) + 1 = f /\ a \in a .. f
    OBVIOUS
  <2> DEFINE l == f - 1
  <2>2. l \in Nat /\ a <= l + 1 /\ l + 1 \in T
        /\ \A i \in a .. l : (\A j \in (i + 1) .. (l + 1) : j \in T) => i \in T
    BY <2>1, <1>1, <1>2
  <2> HIDE DEF T, l
  <2>3. \A i \in a .. (l + 1) : i \in T
    BY <2>1, <2>2, DownTo
  <2>4. \A i \in a .. f : i \in T
    BY <2>1, <2>3 DEF l
  <2> QED
    BY <2>1, <2>4
<1> QED
  BY <1>3

\* Space behind is not seen.
LEMMA LexToSpaces ==
    ASSUME NEW b \in Nat, NEW e \in 0 .. b, NEW a \in 1 .. (e + 1),
           \A i \in (e + 1) .. b : IsSpace(i)
    PROVE  LexSql(a, e) = LexSql(a, b)
<1> DEFINE T == {i \in a .. (e + 1) : LexSql(i, e) = LexSql(i, b)}
<1>1. e \in Nat
  OBVIOUS
<1>2. ASSUME NEW k \in (e + 1) .. (b + 1) PROVE LexSql(k, b) = {}
  <2>1. b + 1 \in 1 .. (b + 1) /\ k \in 1 .. (b + 1) /\ \A i \in k .. ((b + 1) - 1) : IsSpace(i)
    OBVIOUS
  <2>2. LexSql(k, b) = LexSql(b + 1, b)
    BY <2>1, LexSpaces
  <2> QED
    BY <2>2, LexLaw
<1>3. e + 1 \in T
  <2>1. LexSql(e + 1, e) = {}
    BY <1>1, LexLaw
  <2>2. e + 1 \in (e + 1) .. (b + 1) /\ e + 1 \in a .. (e + 1)
    BY <1>1
  <2>3. LexSql(e + 1, b) = {}
    BY <2>2, <1>2
  <2> QED
    BY <2>1, <2>2, <2>3
<1>4. ASSUME NEW i \in a .. e, \A j \in (i + 1) .. (e + 1) : j \in T PROVE i \in T
  <2>1. i \in 1 .. e /\ i \in 1 .. b /\ i \in a .. (e + 1)
    OBVIOUS
  <2>2. e < b => sql[e + 1] \in {"sep", "\n"}
    BY DEF IsSpace
  <2>3. Jump(i, e) = Cut(Jump(i, b), e) /\ Token(i, e) = Token(i, b)
    BY <2>1, <2>2, <1>1, CutJump
  <2>4. LexSql(i, e) = Token(i, e) \cup LexSql(Jump(i, e), e)
    BY <2>1, <1>1, LexLaw
  <2>5. LexSql(i, b) = Token(i, b) \cup LexSql(Jump(i, b), b)
    BY <2>1, LexLaw
  <2>6. Jump(i, b) \in (i + 1) .. (b + 1)
    BY <2>1, Forward
  <2>7. LexSql(Jump(i, e), e) = LexSql(Jump(i, b), b)
    <3>1. CASE Jump(i, b) <= e + 1
      BY <3>1, <2>3, <2>6, <1>4 DEF Cut
    <3>2. CASE ~(Jump(i, b) <= e + 1)
      <4>1. Jump(i, e) = e + 1 /\ Jump(i, b) \in (e + 1) .. (b + 1)
        BY <3>2, <2>3, <2>6 DEF Cut
      <4> QED
        BY <4>1, <1>1, <1>2, LexLaw
    <3> QED
      BY <3>1, <3>2
  <2> QED
    BY <2>1, <2>3, <2>4, <2>5, <2>7
<1>5. a \in T
  <2>1. a \in Nat /\ a <= e + 1 /\ a \in a .. (e + 1)
    OBVIOUS
  <2> HIDE DEF T
  <2>2. \A i \in a .. (e + 1) : i \in T
    BY <2>1, <1>1, <1>3, <1>4, DownTo
  <2> QED
    BY <2>1, <2>2
<1> QED
  BY <1>5

\* The last element of a set of positions.
LEMMA LastOf ==
    ASSUME NEW a \in Nat, NEW b \in Nat, NEW S \in SUBSET (a .. b), S # {}
    PROVE  \E e \in S : \A j \in S : j <= e
<1> DEFINE R == {b - i : i \in S}
<1>1. R \in SUBSET Nat /\ R # {}
  OBVIOUS
<1>2. PICK r \in R : \A k \in R : r <= k
  <2> HIDE DEF R
  <2> QED
    BY <1>1, LeastOf
<1>3. PICK e \in S : r = b - e
  BY <1>2
<1>4. ASSUME NEW j \in S PROVE j <= e
  <2>1. b - j \in R /\ j \in Nat /\ e \in Nat
    OBVIOUS
  <2> HIDE DEF R
  <2>2. r <= b - j
    BY <2>1, <1>2
  <2> QED
    BY <2>1, <2>2, <1>3
<1> QED
  BY <1>4

\* What is left of a piece: nothing of space only, or from the first to the last
\* character that is not space.
LEMMA TrimIs ==
    ASSUME NEW b \in Nat, NEW a \in 1 .. (b + 1)
    PROVE  \/ Trim(a, b) = <<1, 0>> /\ \A i \in a .. b : IsSpace(i)
           \/ \E f \in a .. b, e \in a .. b :
                 /\ Trim(a, b) = <<f, e>> /\ f <= e
                 /\ ~IsSpace(f) /\ ~IsSpace(e)
                 /\ \A i \in a .. (f - 1) : IsSpace(i)
                 /\ \A i \in (e + 1) .. b : IsSpace(i)
<1> DEFINE solid == {i \in a .. b : ~IsSpace(i)}
<1>1. CASE solid = {}
  BY <1>1 DEF Trim
<1>2. CASE solid # {}
  <2>1. solid \in SUBSET Nat /\ solid \in SUBSET (a .. b) /\ a \in Nat
    OBVIOUS
  <2> DEFINE f == First(solid, 0)
             e == CHOOSE i \in solid : \A j \in solid : j <= i
  <2>2. Trim(a, b) = <<f, e>>
    BY <1>2 DEF Trim
  <2> HIDE DEF solid
  <2>3. f \in solid /\ \A j \in solid : f <= j
    BY <2>1, <1>2, FirstIs
  <2>4. e \in solid /\ \A j \in solid : j <= e
    BY <2>1, <1>2, LastOf
  <2> HIDE DEF f, e
  <2>5. f \in a .. b /\ e \in a .. b /\ f <= e /\ ~IsSpace(f) /\ ~IsSpace(e)
    BY <2>3, <2>4 DEF solid
  <2>6. ASSUME NEW i \in a .. (f - 1) PROVE IsSpace(i)
    <3>1. i \in a .. b /\ ~(f <= i)
      BY <2>5
    <3> QED
      BY <3>1, <2>3 DEF solid
  <2>7. ASSUME NEW i \in (e + 1) .. b PROVE IsSpace(i)
    <3>1. i \in a .. b /\ ~(i <= e)
      BY <2>5
    <3> QED
      BY <3>1, <2>4 DEF solid
  <2> QED
    BY <2>2, <2>5, <2>6, <2>7
<1> QED
  BY <1>1, <1>2

\* The tokens of a trimmed piece are those of the piece.
LEMMA LexTrim ==
    ASSUME NEW b \in Nat, NEW a \in 1 .. (b + 1)
    PROVE  LexSql(Trim(a, b)[1], Trim(a, b)[2]) = LexSql(a, b)
<1>1. CASE Trim(a, b) = <<1, 0>> /\ \A i \in a .. b : IsSpace(i)
  <2>1. b + 1 \in 1 .. (b + 1) /\ a \in 1 .. (b + 1) /\ \A i \in a .. ((b + 1) - 1) : IsSpace(i)
    BY <1>1
  <2>2. LexSql(a, b) = LexSql(b + 1, b)
    BY <2>1, LexSpaces
  <2>3. LexSql(a, b) = {}
    BY <2>2, LexLaw
  <2>4. 0 \in Nat /\ 0 + 1 = 1
    OBVIOUS
  <2>5. LexSql(1, 0) = {}
    BY <2>4, LexLaw
  <2> QED
    BY <2>3, <2>5, <1>1
<1>2. ASSUME NEW f \in a .. b, NEW e \in a .. b,
             Trim(a, b) = <<f, e>>, f <= e,
             \A i \in a .. (f - 1) : IsSpace(i),
             \A i \in (e + 1) .. b : IsSpace(i)
      PROVE  LexSql(Trim(a, b)[1], Trim(a, b)[2]) = LexSql(a, b)
  <2>1. f \in 1 .. (b + 1) /\ a \in 1 .. f /\ e \in 0 .. b /\ f \in 1 .. (e + 1)
    BY <1>2
  <2>2. LexSql(a, b) = LexSql(f, b)
    BY <2>1, <1>2, LexSpaces
  <2>3. LexSql(f, e) = LexSql(f, b)
    BY <2>1, <1>2, LexToSpaces
  <2> QED
    BY <2>2, <2>3, <1>2
<1> QED
  BY <1>1, <1>2, TrimIs

\* Tokens begin inside the piece.
LEMMA TokensWithin ==
    ASSUME NEW b \in Nat, NEW a \in 1 .. (b + 1)
    PROVE  \A t \in LexSql(a, b) : t[1] \in a .. b
<1> DEFINE T == {i \in a .. (b + 1) : \A t \in LexSql(i, b) : t[1] \in i .. b}
<1>1. b + 1 \in T
  <2>1. LexSql(b + 1, b) = {} /\ b + 1 \in a .. (b + 1)
    BY LexLaw
  <2> QED
    BY <2>1
<1>2. ASSUME NEW i \in a .. b, \A j \in (i + 1) .. (b + 1) : j \in T PROVE i \in T
  <2>1. i \in 1 .. b /\ i \in a .. (b + 1)
    OBVIOUS
  <2>2. Jump(i, b) \in (i + 1) .. (b + 1)
    BY <2>1, Forward
  <2>3. LexSql(i, b) = Token(i, b) \cup LexSql(Jump(i, b), b)
    BY <2>1, LexLaw
  <2>4. \A t \in Token(i, b) : t[1] = i
    BY DEF Token
  <2>5. \A t \in LexSql(Jump(i, b), b) : t[1] \in Jump(i, b) .. b
    BY <2>2, <1>2
  <2>6. ASSUME NEW t \in LexSql(i, b) PROVE t[1] \in i .. b
    <3>1. CASE t \in Token(i, b)
      BY <3>1, <2>4, <2>1
    <3>2. CASE t \in LexSql(Jump(i, b), b)
      <4>1. t[1] \in Jump(i, b) .. b
        BY <3>2, <2>5
      <4> QED
        BY <4>1, <2>2, <2>1
    <3> QED
      BY <3>1, <3>2, <2>3
  <2> QED
    BY <2>1, <2>6
<1>3. a \in T
  <2>1. a \in Nat /\ a <= b + 1 /\ a \in a .. (b + 1)
    OBVIOUS
  <2> HIDE DEF T
  <2>2. \A i \in a .. (b + 1) : i \in T
    BY <2>1, <1>1, <1>2, DownTo
  <2> QED
    BY <2>1, <2>2
<1> QED
  BY <1>3

-------------------------------------------------------------------------------
\* What a scan over the characters is inside of, and where the code goes on.

Places == {"code", "line", "block", "quote"}
AtCode(s) == s.inside = "code" /\ ~s.skip

\* What the scan is inside of behind a character, and whether the next one is
\* passed over.
Inside(s, i) ==
    IF s.skip THEN s.inside
    ELSE IF s.inside = "line" THEN IF sql[i] = "\n" THEN "code" ELSE "line"
    ELSE IF s.inside = "block" THEN
             IF Starts(i, Len(sql), <<"*", "/">>) THEN "code" ELSE "block"
    ELSE IF s.inside = "quote" THEN
             IF sql[i] = "quote" /\ ~Starts(i, Len(sql), <<"quote", "quote">>) THEN "code"
             ELSE "quote"
    ELSE IF Starts(i, Len(sql), <<"-", "-">>) THEN "line"
    ELSE IF Starts(i, Len(sql), <<"/", "*">>) THEN "block"
    ELSE IF sql[i] = "quote" THEN "quote" ELSE "code"
Skips(s, i) ==
    /\ ~s.skip
    /\ \/ s.inside = "block" /\ Starts(i, Len(sql), <<"*", "/">>)
       \/ s.inside = "quote" /\ Starts(i, Len(sql), <<"quote", "quote">>)
       \/ s.inside = "code" /\ Comment(i, Len(sql))

\* The states of such a scan, behind each character.
Modes(m) ==
    /\ AtCode(m[0])
    /\ \A i \in 1 .. Len(sql) : /\ m[i].inside = Inside(m[i - 1], i)
                                /\ m[i].skip <=> Skips(m[i - 1], i)

\* The position where the code goes on.
Resume(s, i) ==
    LET k == IF s.skip THEN i + 2 ELSE i + 1
    IN  IF s.inside = "line" THEN AfterLine(k, Len(sql))
        ELSE IF s.inside = "block" THEN AfterBlock(k, Len(sql))
        ELSE IF s.inside = "quote" THEN AfterQuote(k, Len(sql))
        ELSE k

\* What is passed over is not the last character, and behind a block comment it is the
\* slash.
LEMMA ModesAre ==
    ASSUME sql \in Seq(Chars), NEW m, Modes(m)
    PROVE  \A i \in 0 .. Len(sql) :
               /\ m[i].inside \in Places
               /\ m[i].skip => i < Len(sql)
               /\ m[i].skip /\ m[i].inside = "code" => sql[i + 1] = "/"
<1> DEFINE P(i) == /\ m[i].inside \in Places
                   /\ m[i].skip => i < Len(sql)
                   /\ m[i].skip /\ m[i].inside = "code" => sql[i + 1] = "/"
           T == {i \in 0 .. Len(sql) : P(i)}
<1>1. Len(sql) \in Nat
  OBVIOUS
<1>2. 0 \in T
  BY <1>1 DEF Modes, AtCode, Places
<1>3. ASSUME NEW i \in 1 .. Len(sql), i - 1 \in T PROVE i \in T
  <2>1. /\ m[i].inside = Inside(m[i - 1], i)
        /\ m[i].skip <=> Skips(m[i - 1], i)
    BY DEF Modes
  <2>2. m[i - 1].inside \in Places
    BY <1>3
  <2>3. Inside(m[i - 1], i) \in Places
    BY <2>2 DEF Inside, Places
  <2>4. ASSUME Skips(m[i - 1], i) PROVE i < Len(sql)
    BY <2>4 DEF Skips, Comment, Starts
  <2>5. ASSUME Skips(m[i - 1], i), Inside(m[i - 1], i) = "code" PROVE sql[i + 1] = "/"
    <3>1. Starts(i, Len(sql), <<"*", "/">>)
      BY <2>5, <2>2 DEF Skips, Inside, Comment, Places, Starts
    <3> QED
      BY <3>1 DEF Starts
  <2>6. i \in 0 .. Len(sql)
    BY <1>1
  <2> QED
    BY <2>1, <2>3, <2>4, <2>5, <2>6
<1>4. \A i \in 0 .. Len(sql) : i \in T
  <2> HIDE DEF T
  <2> QED
    BY <1>1, <1>2, <1>3, UpTo
<1> QED
  BY <1>4

\* From code the scan follows the jump of the lexer, and until it ends, it goes on where
\* it would have before.
LEMMA ResumeStep ==
    ASSUME sql \in Seq(Chars), NEW m, Modes(m), NEW i \in 1 .. Len(sql)
    PROVE  /\ AtCode(m[i - 1]) => Resume(m[i], i) = Skip(i, Len(sql))
           /\ ~AtCode(m[i - 1]) => Resume(m[i], i) = Resume(m[i - 1], i - 1)
<1> DEFINE n == Len(sql)
           s == m[i - 1]
           t == m[i]
<1>1. n \in Nat /\ i - 1 \in 0 .. n /\ i \in 1 .. (n + 1) /\ i <= n
  OBVIOUS
<1>2. t.inside = Inside(s, i) /\ (t.skip <=> Skips(s, i)) /\ s.inside \in Places
  BY <1>1, ModesAre DEF Modes
<1>3. /\ AfterLine(i, n) = IF sql[i] = "\n" THEN i + 1 ELSE AfterLine(i + 1, n)
      /\ AfterBlock(i, n) = IF Starts(i, n, <<"*", "/">>) THEN i + 2 ELSE AfterBlock(i + 1, n)
      /\ AfterQuote(i, n) = IF sql[i] # "quote" THEN AfterQuote(i + 1, n)
                            ELSE IF Starts(i, n, <<"quote", "quote">>) THEN AfterQuote(i + 2, n)
                            ELSE i + 1
  BY <1>1, AfterLineIs, AfterBlockIs, AfterQuoteIs
<1>4. (i - 1) + 1 = i /\ (i - 1) + 2 = i + 1
  BY <1>1
<1>5. Starts(i, n, <<"quote", "quote">>) => sql[i] = "quote"
  BY DEF Starts
<1>6. Starts(i, n, <<"-", "-">>) => ~Starts(i, n, <<"/", "*">>) /\ sql[i] # "quote"
  BY DEF Starts
<1>7. Starts(i, n, <<"/", "*">>) => sql[i] # "quote"
  BY DEF Starts
<1> HIDE DEF n, s, t
<1>8. CASE s.skip
  <2>1. ~t.skip /\ t.inside = s.inside
    BY <1>8, <1>2 DEF Inside, Skips
  <2> QED
    BY <2>1, <1>8, <1>4 DEF Resume, AtCode, n, s, t
<1>9. CASE ~s.skip /\ s.inside = "line"
  <2>1. ~t.skip /\ t.inside = IF sql[i] = "\n" THEN "code" ELSE "line"
    BY <1>9, <1>2 DEF Inside, Skips
  <2> QED
    BY <2>1, <1>9, <1>4, <1>3 DEF Resume, AtCode, n, s, t
<1>10. CASE ~s.skip /\ s.inside = "block"
  <2>1. /\ t.inside = IF Starts(i, n, <<"*", "/">>) THEN "code" ELSE "block"
        /\ t.skip <=> Starts(i, n, <<"*", "/">>)
    BY <1>10, <1>2 DEF Inside, Skips, n
  <2> QED
    BY <2>1, <1>10, <1>4, <1>3 DEF Resume, AtCode, n, s, t
<1>11. CASE ~s.skip /\ s.inside = "quote"
  <2>1. /\ t.inside = IF sql[i] = "quote" /\ ~Starts(i, n, <<"quote", "quote">>) THEN "code"
                      ELSE "quote"
        /\ t.skip <=> Starts(i, n, <<"quote", "quote">>)
    BY <1>11, <1>2 DEF Inside, Skips, n
  <2> QED
    BY <2>1, <1>11, <1>4, <1>3, <1>5 DEF Resume, AtCode, n, s, t
<1>12. CASE ~s.skip /\ s.inside = "code"
  <2>1. /\ t.inside = IF Starts(i, n, <<"-", "-">>) THEN "line"
                      ELSE IF Starts(i, n, <<"/", "*">>) THEN "block"
                      ELSE IF sql[i] = "quote" THEN "quote" ELSE "code"
        /\ t.skip <=> Comment(i, n)
    BY <1>12, <1>2 DEF Inside, Skips, n
  <2> QED
    BY <2>1, <1>12, <1>6, <1>7 DEF Resume, AtCode, Skip, Comment, n, s, t
<1> QED
  BY <1>2, <1>8, <1>9, <1>10, <1>11, <1>12 DEF Places, n, s, t

\* Behind the last character the code goes on at the end.
LEMMA ResumeAtEnd ==
    ASSUME sql \in Seq(Chars), NEW m, Modes(m)
    PROVE  Resume(m[Len(sql)], Len(sql)) = Len(sql) + 1
<1> DEFINE n == Len(sql)
<1>1. n \in Nat /\ n \in 0 .. n /\ n + 1 \in 1 .. (n + 1)
  OBVIOUS
<1>2. ~m[n].skip
  BY <1>1, ModesAre
<1>3. AfterLine(n + 1, n) = n + 1 /\ AfterBlock(n + 1, n) = n + 1 /\ AfterQuote(n + 1, n) = n + 1
  <2>1. /\ AfterLine(n + 1, n) \in (n + 1) .. (n + 1)
        /\ AfterBlock(n + 1, n) \in (n + 1) .. (n + 1)
        /\ AfterQuote(n + 1, n) \in (n + 1) .. (n + 1)
    BY <1>1, AfterLineIs, AfterBlockIs, AfterQuoteIs
  <2> QED
    BY <2>1, <1>1
<1> QED
  BY <1>2, <1>3 DEF Resume

\* Between a position in code and the one the lexer jumps to there is no code.
LEMMA NextCode ==
    ASSUME sql \in Seq(Chars), NEW m, Modes(m), NEW i \in 1 .. Len(sql), AtCode(m[i - 1])
    PROVE  /\ \A j \in (i + 1) .. (Skip(i, Len(sql)) - 1) : ~AtCode(m[j - 1])
           /\ Skip(i, Len(sql)) <= Len(sql) => AtCode(m[Skip(i, Len(sql)) - 1])
<1> DEFINE n == Len(sql)
           k == Skip(i, n)
           None(j) == \A l \in i .. j : ~AtCode(m[l])
           P(j) == \/ None(j) /\ Resume(m[j], j) = k
                   \/ k - 1 \in i .. j /\ AtCode(m[k - 1]) /\ None(k - 2)
           T == {j \in 0 .. (n - i) : P(i + j)}
<1>1. n \in Nat /\ n - i \in Nat /\ k \in (i + 1) .. (n + 1)
  BY Forward
<1> HIDE DEF k
<1>2. Resume(m[i], i) = k
  BY ResumeStep DEF k
<1>3. ASSUME NEW j \in i .. n, Resume(m[j], j) = k, None(j - 1) PROVE P(j)
  <2>1. CASE AtCode(m[j])
    <3>1. Resume(m[j], j) = j + 1
      BY <2>1 DEF Resume, AtCode
    <3>2. k - 1 = j /\ k - 2 = j - 1
      BY <3>1, <1>3, <1>1
    <3> QED
      BY <3>2, <2>1, <1>3
  <2>2. CASE ~AtCode(m[j])
    <3>1. \A l \in i .. j : l = j \/ l \in i .. (j - 1)
      OBVIOUS
    <3> QED
      BY <3>1, <2>2, <1>3
  <2> QED
    BY <2>1, <2>2
<1>4. 0 \in T
  <2>1. i \in i .. n /\ None(i - 1) /\ i + 0 = i
    OBVIOUS
  <2>2. P(i)
    <3> HIDE DEF P, None
    <3> QED
      BY <2>1, <1>2, <1>3
  <2> HIDE DEF P
  <2> QED
    BY <1>1, <2>1, <2>2
<1>5. ASSUME NEW d \in 1 .. (n - i), d - 1 \in T PROVE d \in T
  <2> DEFINE j == i + d
  <2>1. j \in i .. n /\ j \in 1 .. n /\ i + (d - 1) = j - 1 /\ d \in 0 .. (n - i) /\ j \in Int
    BY <1>1
  <2> HIDE DEF j
  <2>2. P(j - 1)
    BY <2>1, <1>5
  <2>3. CASE None(j - 1) /\ Resume(m[j - 1], j - 1) = k
    <3>1. j - 1 \in i .. (j - 1)
      <4>1. j \in (i + 1) .. n
        BY <1>1 DEF j
      <4> QED
        BY <4>1
    <3>2. ~AtCode(m[j - 1])
      BY <3>1, <2>3
    <3>3. Resume(m[j], j) = k
      BY <3>2, <2>1, <2>3, ResumeStep
    <3> HIDE DEF P, None
    <3>4. P(j)
      BY <3>3, <2>1, <2>3, <1>3
    <3> QED
      BY <3>4, <2>1 DEF j
  <2>4. CASE k - 1 \in i .. (j - 1) /\ AtCode(m[k - 1]) /\ None(k - 2)
    <3>1. k - 1 \in i .. j
      BY <2>1, <2>4
    <3> HIDE DEF None
    <3>2. P(j)
      BY <3>1, <2>4
    <3> HIDE DEF P
    <3> QED
      BY <3>2, <2>1 DEF j
  <2> QED
    BY <2>2, <2>3, <2>4
<1>6. P(n)
  <2>1. n - i \in 0 .. (n - i) /\ i + (n - i) = n
    BY <1>1
  <2> HIDE DEF P
  <2>2. 0 \in T /\ \A d \in 1 .. (n - i) : d - 1 \in T => d \in T
    BY <1>4, <1>5
  <2> HIDE DEF T
  <2>3. \A d \in 0 .. (n - i) : d \in T
    BY <2>2, <1>1, UpTo
  <2> QED
    BY <2>1, <2>3 DEF T
<1>7. CASE None(n) /\ Resume(m[n], n) = k
  <2>1. k = n + 1
    BY <1>7, ResumeAtEnd
  <2>2. ASSUME NEW j \in (i + 1) .. (k - 1) PROVE ~AtCode(m[j - 1])
    <3>1. j - 1 \in i .. n
      BY <2>1, <1>1
    <3> QED
      BY <3>1, <1>7
  <2> QED
    BY <2>1, <2>2, <1>1 DEF k
<1>8. CASE k - 1 \in i .. n /\ AtCode(m[k - 1]) /\ None(k - 2)
  <2>1. ASSUME NEW j \in (i + 1) .. (k - 1) PROVE ~AtCode(m[j - 1])
    <3>1. j - 1 \in i .. (k - 2)
      BY <1>1
    <3> QED
      BY <3>1, <1>8
  <2> QED
    BY <2>1, <1>8 DEF k
<1> QED
  BY <1>6, <1>7, <1>8

\* The lexer's jumps end in code, or at the end of the text.
LEMMA JumpToCode ==
    ASSUME sql \in Seq(Chars), NEW m, Modes(m), NEW i \in 1 .. Len(sql), AtCode(m[i - 1]),
           Jump(i, Len(sql)) <= Len(sql)
    PROVE  AtCode(m[Jump(i, Len(sql)) - 1])
<1> DEFINE n == Len(sql)
           P(j) == AtCode(m[j - 1]) =>
                       AfterWord(j, n) = n + 1 \/ AtCode(m[AfterWord(j, n) - 1])
           T == {j \in 1 .. (n + 1) : P(j)}
<1>1. n \in Nat
  OBVIOUS
<1>2. n + 1 \in T
  <2>1. n + 1 \in 1 .. (n + 1)
    BY <1>1
  <2>2. AfterWord(n + 1, n) \in (n + 1) .. (n + 1)
    BY <1>1, <2>1, AfterWordIs
  <2> HIDE DEF n
  <2> QED
    BY <1>1, <2>1, <2>2
<1>3. ASSUME NEW j \in 1 .. n, \A l \in (j + 1) .. (n + 1) : l \in T PROVE j \in T
  <2>1. j \in 1 .. (n + 1) /\ j <= n /\ j + 1 \in (j + 1) .. (n + 1)
    BY <1>1
  <2>2. AfterWord(j, n) = IF sql[j] = "word" THEN AfterWord(j + 1, n) ELSE j
    BY <1>1, <2>1, AfterWordIs
  <2>3. CASE sql[j] = "word" /\ AtCode(m[j - 1])
    <3>1. Skip(j, n) = j + 1
      BY <2>3 DEF Skip, Starts
    <3>2. j + 1 <= n => AtCode(m[(j + 1) - 1])
      BY <3>1, <2>3, NextCode
    <3>3. P(j + 1)
      BY <1>3, <2>1
    <3>4. j + 1 <= n \/ j + 1 = n + 1
      BY <1>1
    <3>5. j + 1 = n + 1 => AfterWord(j + 1, n) = n + 1
      <4>1. n + 1 \in 1 .. (n + 1)
        BY <1>1
      <4>2. AfterWord(n + 1, n) \in (n + 1) .. (n + 1)
        BY <1>1, <4>1, AfterWordIs
      <4> HIDE DEF n
      <4> QED
        BY <1>1, <4>2
    <3> HIDE DEF n
    <3> QED
      BY <2>1, <2>2, <2>3, <3>2, <3>3, <3>4, <3>5
  <2>4. CASE ~(sql[j] = "word" /\ AtCode(m[j - 1]))
    BY <2>1, <2>2, <2>4
  <2> QED
    BY <2>3, <2>4
<1>4. P(i)
  <2>1. 1 \in Nat /\ 1 <= n + 1 /\ i \in 1 .. (n + 1)
    BY <1>1
  <2> HIDE DEF T, n
  <2>2. \A j \in 1 .. (n + 1) : j \in T
    BY <2>1, <1>1, <1>2, <1>3, DownTo
  <2> QED
    BY <2>1, <2>2 DEF T
<1>5. CASE sql[i] = "word"
  <2>1. Jump(i, n) = AfterWord(i, n)
    BY <1>5 DEF Jump
  <2> HIDE DEF n
  <2> QED
    BY <2>1, <1>1, <1>4 DEF n
<1>6. CASE sql[i] # "word"
  <2>1. Jump(i, n) = Skip(i, n)
    BY <1>6 DEF Jump
  <2> QED
    BY <2>1, NextCode
<1> QED
  BY <1>5, <1>6

\* The tokens of the text up to a separator in code, and those behind it, are those of the
\* whole.
LEMMA PieceOfWhole ==
    ASSUME sql \in Seq(Chars), NEW m, Modes(m),
           NEW i \in 1 .. Len(sql), AtCode(m[i - 1]), sql[i] = "sep",
           NEW a \in 1 .. i, AtCode(m[a - 1])
    PROVE  LexSql(a, Len(sql)) = LexSql(a, i - 1) \cup LexSql(i, Len(sql))
<1> DEFINE n == Len(sql)
           b == i - 1
           T == {j \in 1 .. (b + 1) : AtCode(m[j - 1]) =>
                                          LexSql(j, n) = LexSql(j, b) \cup LexSql(i, n)}
<1>1. n \in Nat /\ b \in Nat /\ b + 1 = i /\ b < n
  OBVIOUS
<1> HIDE DEF n, b
<1>2. b + 1 \in T
  <2>1. LexSql(b + 1, b) = {} /\ b + 1 \in 1 .. (b + 1)
    BY <1>1, LexLaw
  <2> QED
    BY <2>1, <1>1
<1>3. ASSUME NEW j \in 1 .. b, \A l \in (j + 1) .. (b + 1) : l \in T PROVE j \in T
  <2> SUFFICES ASSUME AtCode(m[j - 1]) PROVE LexSql(j, n) = LexSql(j, b) \cup LexSql(i, n)
    BY <1>1
  <2>1. j \in 1 .. n /\ b <= n /\ (b < n => sql[b + 1] \in {"sep", "\n"})
    BY <1>1
  <2>2. /\ Jump(j, b) = Cut(Jump(j, n), b) /\ Token(j, b) = Token(j, n)
        /\ sql[j] = "word" => Jump(j, n) <= b + 1
    BY <2>1, <1>1, CutJump
  <2>3. Jump(j, n) \in (j + 1) .. (n + 1)
    BY <2>1, <1>1, Forward
  <2>4. Jump(j, n) <= b + 1
    <3> SUFFICES ASSUME sql[j] # "word", b + 1 < Skip(j, n) PROVE FALSE
      <4>1. Jump(j, n) = Skip(j, n) \/ Jump(j, n) <= b + 1
        BY <2>2 DEF Jump
      <4> QED
        BY <4>1, <2>2, <2>3, <1>1 DEF Jump
    <3>1. i \in (j + 1) .. (Skip(j, n) - 1)
      <4>1. Skip(j, n) \in (j + 1) .. (n + 1)
        BY <2>1, <1>1, Forward
      <4> QED
        BY <4>1, <1>1
    <3> QED
      BY <3>1, <2>1, NextCode DEF n
  <2>5. Jump(j, b) = Jump(j, n)
    BY <2>2, <2>4 DEF Cut
  <2>6. AtCode(m[Jump(j, n) - 1])
    <3>1. Jump(j, n) <= n
      BY <2>3, <2>4, <1>1
    <3> QED
      BY <3>1, <2>1, JumpToCode DEF n
  <2>7. LexSql(Jump(j, n), n) = LexSql(Jump(j, n), b) \cup LexSql(i, n)
    <3>1. Jump(j, n) \in (j + 1) .. (b + 1)
      BY <2>3, <2>4, <1>1
    <3> QED
      BY <3>1, <2>6, <1>3
  <2>8. LexSql(j, n) = Token(j, n) \cup LexSql(Jump(j, n), n)
    BY <2>1, <1>1, LexLaw
  <2>9. LexSql(j, b) = Token(j, b) \cup LexSql(Jump(j, b), b)
    BY <1>1, LexLaw
  <2> QED
    BY <2>2, <2>5, <2>7, <2>8, <2>9
<1>4. a \in T
  <2>1. 1 \in Nat /\ 1 <= b + 1 /\ a \in 1 .. (b + 1)
    BY <1>1
  <2> HIDE DEF T
  <2>2. \A j \in 1 .. (b + 1) : j \in T
    BY <2>1, <1>1, <1>2, <1>3, DownTo
  <2> QED
    BY <2>1, <2>2
<1> QED
  BY <1>4 DEF n, b

\* Tokens are in code.
LEMMA TokensAtCode ==
    ASSUME sql \in Seq(Chars), NEW m, Modes(m),
           NEW a \in 1 .. (Len(sql) + 1), AtCode(m[a - 1])
    PROVE  \A t \in LexSql(a, Len(sql)) : AtCode(m[t[1] - 1])
<1> DEFINE n == Len(sql)
           T == {j \in 1 .. (n + 1) : AtCode(m[j - 1]) =>
                                          \A t \in LexSql(j, n) : AtCode(m[t[1] - 1])}
<1>1. n \in Nat
  OBVIOUS
<1> HIDE DEF n
<1>2. n + 1 \in T
  <2>1. LexSql(n + 1, n) = {} /\ n + 1 \in 1 .. (n + 1)
    BY <1>1, LexLaw
  <2> QED
    BY <2>1
<1>3. ASSUME NEW j \in 1 .. n, \A l \in (j + 1) .. (n + 1) : l \in T PROVE j \in T
  <2> SUFFICES ASSUME AtCode(m[j - 1]) PROVE \A t \in LexSql(j, n) : AtCode(m[t[1] - 1])
    BY <1>1
  <2>1. LexSql(j, n) = Token(j, n) \cup LexSql(Jump(j, n), n)
    BY <1>1, LexLaw
  <2>2. \A t \in Token(j, n) : t[1] = j
    BY DEF Token
  <2>3. Jump(j, n) \in (j + 1) .. (n + 1)
    BY <1>1, Forward
  <2>4. CASE Jump(j, n) <= n
    <3>1. AtCode(m[Jump(j, n) - 1])
      BY <2>4, JumpToCode DEF n
    <3>2. \A t \in LexSql(Jump(j, n), n) : AtCode(m[t[1] - 1])
      BY <3>1, <2>3, <1>3
    <3> QED
      BY <3>2, <2>1, <2>2
  <2>5. CASE Jump(j, n) = n + 1
    <3>1. LexSql(Jump(j, n), n) = {}
      BY <2>5, <1>1, LexLaw
    <3> QED
      BY <3>1, <2>1, <2>2
  <2> QED
    BY <1>1, <2>3, <2>4, <2>5
<1>4. a \in T
  <2>1. 1 \in Nat /\ 1 <= n + 1 /\ a \in 1 .. (n + 1)
    BY <1>1 DEF n
  <2> HIDE DEF T
  <2>2. \A j \in 1 .. (n + 1) : j \in T
    BY <2>1, <1>1, <1>2, <1>3, DownTo
  <2> QED
    BY <2>1, <2>2
<1> QED
  BY <1>4 DEF n

-------------------------------------------------------------------------------
\* The three scans: their states, and that each is a scan of the kind above.

Pieces == (Nat \ {0}) \X Nat
States == [inside : Places, skip : BOOLEAN, from : 1 .. (Len(sql) + 1), found : Seq(Pieces)]

\* What is left of a piece is a piece.
LEMMA TrimTyped ==
    ASSUME NEW a \in Nat \ {0}, NEW b \in Nat
    PROVE  Trim(a, b) \in Pieces /\ TrimEnd(a, b) \in Pieces
<1>1. ASSUME NEW c \in Nat \ {0}, NEW d \in Nat PROVE Trim(c, d) \in Pieces
  <2>1. CASE c <= d + 1
    <3>1. c \in 1 .. (d + 1)
      BY <2>1
    <3> QED
      BY <3>1, TrimIs DEF Pieces
  <2>2. CASE ~(c <= d + 1)
    <3>1. c .. d = {}
      BY <2>2
    <3>2. Trim(c, d) = <<1, 0>>
      BY <3>1 DEF Trim
    <3> QED
      BY <3>2 DEF Pieces
  <2> QED
    BY <2>1, <2>2
<1>2. TrimEnd(a, b) \in Pieces
  <2> DEFINE S == {i \in a .. b : \A j \in i .. b : sql[j] = "sep"}
             e == First(S, b + 1) - 1
  <2>1. S \in SUBSET Nat /\ \A i \in S : i \in Nat /\ i >= 1
    OBVIOUS
  <2> HIDE DEF S
  <2>2. e \in Nat
    <3> DEFINE x == First(S, b + 1)
    <3>1. x = b + 1 \/ x \in S
      BY <2>1, FirstIs
    <3> HIDE DEF x
    <3>2. x \in Nat /\ x >= 1
      <4>1. CASE x = b + 1
        BY <4>1
      <4>2. CASE x \in S
        BY <4>2, <2>1
      <4> QED
        BY <3>1, <4>1, <4>2
    <3>3. x - 1 \in Nat
      BY <3>2
    <3> QED
      BY <3>3 DEF x
  <2>3. TrimEnd(a, b) = Trim(a, e)
    BY DEF TrimEnd, S
  <2> HIDE DEF e
  <2> QED
    BY <2>2, <2>3, <1>1
<1> QED
  BY <1>1, <1>2

\* Every scan begins in code, with nothing found.
LEMMA ScanTyped == ASSUME sql \in Seq(Chars) PROVE Scan \in States
BY DEF Scan, States, Places

\* What is found is a sequence of pieces.
LEMMA PushedTyped ==
    ASSUME NEW s \in States, NEW p \in Pieces
    PROVE  Pushed(s, p) \in Seq(Pieces) /\ GuardPushed(s, p) \in Seq(Pieces)
BY DEF Pushed, GuardPushed, States

\* The scan of sql_guardrails.rs.
GuardCut(s, i) == AtCode(s) /\ sql[i] = "sep"
GuardPiece(s, i) == LET p == Trim(s.from, i) IN TrimEnd(p[1], p[2])

\* A step of the scan of sql_guardrails.rs enters and leaves comments and quotes as every
\* scan does, and cuts at a separator in code.
LEMMA GuardStepIs ==
    ASSUME sql \in Seq(Chars), NEW s \in States, NEW i \in 1 .. Len(sql)
    PROVE  /\ GuardStep(s, i) \in States
           /\ GuardStep(s, i).inside = Inside(s, i)
           /\ GuardStep(s, i).skip <=> Skips(s, i)
           /\ GuardStep(s, i).from = IF GuardCut(s, i) THEN i + 1 ELSE s.from
           /\ GuardStep(s, i).found = IF GuardCut(s, i) THEN GuardPushed(s, GuardPiece(s, i))
                                      ELSE s.found
<1> DEFINE n == Len(sql)
           out(to, skips) == [s EXCEPT !.inside = to, !.skip = skips]
           cut == [s EXCEPT !.from = i + 1, !.found = GuardPushed(s, GuardPiece(s, i))]
<1>1. /\ s.inside \in Places /\ s.skip \in BOOLEAN /\ s.from \in 1 .. (n + 1)
      /\ s.found \in Seq(Pieces) /\ n \in Nat /\ i \in Nat
      /\ s = [inside |-> s.inside, skip |-> s.skip, from |-> s.from, found |-> s.found]
  BY DEF States
<1>2. GuardPushed(s, GuardPiece(s, i)) \in Seq(Pieces)
  <2>1. Trim(s.from, i) \in Pieces
    BY <1>1, TrimTyped
  <2>2. GuardPiece(s, i) \in Pieces
    BY <2>1, TrimTyped DEF Pieces, GuardPiece
  <2> QED
    BY <2>2, PushedTyped
<1>3. GuardStep(s, i) = IF GuardCut(s, i) THEN cut ELSE out(Inside(s, i), Skips(s, i))
  <2>1. CASE s.skip
    <3>1. out(Inside(s, i), Skips(s, i)) = [s EXCEPT !.skip = FALSE]
      BY <2>1, <1>1 DEF Inside, Skips
    <3> QED
      BY <3>1, <2>1 DEF GuardStep, GuardCut, AtCode
  <2>2. CASE ~s.skip /\ s.inside = "line"
    <3>1. out(Inside(s, i), Skips(s, i)) =
              IF sql[i] = "\n" THEN [s EXCEPT !.inside = "code"] ELSE s
      BY <2>2, <1>1 DEF Inside, Skips
    <3> QED
      BY <3>1, <2>2 DEF GuardStep, GuardCut, AtCode
  <2>3. CASE ~s.skip /\ s.inside = "block"
    <3>1. out(Inside(s, i), Skips(s, i)) =
              IF Starts(i, n, <<"*", "/">>)
              THEN [s EXCEPT !.inside = "code", !.skip = TRUE] ELSE s
      BY <2>3, <1>1 DEF Inside, Skips
    <3> QED
      BY <3>1, <2>3 DEF GuardStep, GuardCut, AtCode
  <2>4. CASE ~s.skip /\ s.inside = "quote"
    <3>1. out(Inside(s, i), Skips(s, i)) =
              IF sql[i] # "quote" THEN s
              ELSE IF Starts(i, n, <<"quote", "quote">>) THEN [s EXCEPT !.skip = TRUE]
              ELSE [s EXCEPT !.inside = "code"]
      BY <2>4, <1>1 DEF Inside, Skips, Starts
    <3> QED
      BY <3>1, <2>4 DEF GuardStep, GuardCut, AtCode
  <2>5. CASE ~s.skip /\ s.inside = "code"
    <3>1. out(Inside(s, i), Skips(s, i)) =
              IF Starts(i, n, <<"-", "-">>) THEN [s EXCEPT !.inside = "line", !.skip = TRUE]
              ELSE IF Starts(i, n, <<"/", "*">>) THEN [s EXCEPT !.inside = "block", !.skip = TRUE]
              ELSE IF sql[i] = "quote" THEN [s EXCEPT !.inside = "quote"] ELSE s
      BY <2>5, <1>1 DEF Inside, Skips, Comment, Starts
    <3>2. GuardStep(s, i) =
              IF Starts(i, n, <<"-", "-">>) THEN [s EXCEPT !.inside = "line", !.skip = TRUE]
              ELSE IF Starts(i, n, <<"/", "*">>) THEN [s EXCEPT !.inside = "block", !.skip = TRUE]
              ELSE IF sql[i] = "quote" THEN [s EXCEPT !.inside = "quote"]
              ELSE IF sql[i] = "sep" THEN cut ELSE s
      BY <2>5 DEF GuardStep, GuardPiece
    <3>3. GuardCut(s, i) <=> sql[i] = "sep"
      BY <2>5 DEF GuardCut, AtCode
    <3>4. sql[i] = "sep" => /\ ~Starts(i, n, <<"-", "-">>) /\ ~Starts(i, n, <<"/", "*">>)
                            /\ sql[i] # "quote"
      BY DEF Starts
    <3> QED
      BY <3>1, <3>2, <3>3, <3>4
  <2> QED
    BY <1>1, <2>1, <2>2, <2>3, <2>4, <2>5 DEF Places
<1>4. Inside(s, i) \in Places /\ Skips(s, i) \in BOOLEAN
  BY <1>1 DEF Inside, Skips, Places
<1>5. GuardCut(s, i) => s.inside = Inside(s, i) /\ ~s.skip /\ ~Skips(s, i)
  BY DEF GuardCut, AtCode, Inside, Skips, Comment, Starts
<1>6. i + 1 \in 1 .. (n + 1)
  BY <1>1
<1>7. CASE GuardCut(s, i)
  <2>1. GuardStep(s, i) = cut
    BY <1>3, <1>7
  <2>2. /\ cut.inside = s.inside /\ cut.skip = s.skip /\ cut.from = i + 1
        /\ cut.found = GuardPushed(s, GuardPiece(s, i))
    BY DEF States
  <2>3. cut \in States
    BY <1>2, <1>6 DEF States
  <2> HIDE DEF cut
  <2> QED
    BY <2>1, <2>2, <2>3, <1>5, <1>7
<1>8. CASE ~GuardCut(s, i)
  <2>1. GuardStep(s, i) = out(Inside(s, i), Skips(s, i))
    BY <1>3, <1>8
  <2> DEFINE r == out(Inside(s, i), Skips(s, i))
  <2>2. /\ r.inside = Inside(s, i) /\ r.skip = Skips(s, i) /\ r.from = s.from
        /\ r.found = s.found
    BY DEF States
  <2>3. r \in States
    BY <1>4 DEF States
  <2> HIDE DEF r
  <2>4. GuardStep(s, i) = r
    BY <2>1 DEF r
  <2> QED
    BY <2>2, <2>3, <2>4, <1>8
<1> QED
  BY <1>7, <1>8

\* Its states, one behind every character.
LEMMA GuardScan ==
    ASSUME sql \in Seq(Chars)
    PROVE  \E g \in [0 .. Len(sql) -> States] :
               /\ g[0] = Scan
               /\ \A i \in 1 .. Len(sql) : g[i] = GuardStep(g[i - 1], i)
               /\ Scanned(GuardStep) = g[Len(sql)]
<1> DEFINE n == Len(sql)
           G == [i \in 1 .. n |-> [s \in States |-> GuardStep(s, i)]]
           Law(f) == [i \in 0 .. n |-> IF i = 0 THEN Scan ELSE GuardStep(f[i - 1], i)]
           scan == CHOOSE f : f = Law(f)
<1>1. n \in Nat
  OBVIOUS
<1>2. PICK g \in Ways(n, States, Scan, G) : TRUE
  <2>1. G \in [1 .. n -> [States -> States]]
    BY GuardStepIs
  <2> HIDE DEF G, n
  <2>2. Ways(n, States, Scan, G) # {}
    BY <2>1, <1>1, ScanTyped, Recursion
  <2> QED
    BY <2>2
<1>3. /\ g \in [0 .. n -> States] /\ g[0] = Scan
      /\ \A i \in 1 .. n : g[i] = GuardStep(g[i - 1], i)
  <2>1. /\ g \in [0 .. n -> States] /\ g[0] = Scan
        /\ \A i \in 1 .. n : g[i] = G[i][g[i - 1]]
    BY <1>2 DEF Ways
  <2>2. ASSUME NEW i \in 1 .. n PROVE g[i - 1] \in States
    BY <2>1, <1>1
  <2> QED
    BY <2>1, <2>2
<1>4. g = Law(g)
  <2>1. ASSUME NEW i \in 0 .. n PROVE g[i] = Law(g)[i]
    <3>1. i = 0 \/ i \in 1 .. n
      BY <1>1
    <3> QED
      BY <3>1, <1>3
  <2>2. g = [i \in 0 .. n |-> g[i]] /\ Law(g) = [i \in 0 .. n |-> Law(g)[i]]
    BY <1>3
  <2> HIDE DEF Law
  <2> QED
    BY <2>1, <2>2
<1>5. scan = Law(scan)
  <2> HIDE DEF Law
  <2> QED
    BY <1>4
<1>6. Scanned(GuardStep) = scan[n]
  BY DEF Scanned
<1> HIDE DEF scan
<1>7. scan[n] = g[n]
  <2> DEFINE T == {i \in 0 .. n : scan[i] = g[i]}
  <2>1. 0 \in T
    BY <1>1, <1>3, <1>5
  <2>2. ASSUME NEW i \in 1 .. n, i - 1 \in T PROVE i \in T
    <3>1. i \in 0 .. n /\ i # 0 /\ scan[i - 1] = g[i - 1]
      BY <1>1, <2>2
    <3>2. Law(scan)[i] = GuardStep(scan[i - 1], i)
      BY <3>1
    <3>3. scan[i] = Law(scan)[i]
      BY <1>5
    <3> HIDE DEF Law
    <3> QED
      BY <3>1, <3>2, <3>3, <1>3
  <2>3. \A i \in 0 .. n : i \in T
    <3> HIDE DEF T, n
    <3> QED
      BY <2>1, <2>2, <1>1, UpTo
  <2> QED
    BY <2>3, <1>1
<1> QED
  BY <1>3, <1>6, <1>7

\* The scan for the export's keywords.
Ended(s, i) == IF s.from < i THEN Append(s.found, <<s.from, i - 1>>) ELSE s.found

\* A state is its fields.
LEMMA Fields ==
    ASSUME NEW r \in States
    PROVE  r = [inside |-> r.inside, skip |-> r.skip, from |-> r.from, found |-> r.found]
BY DEF States

\* A state that is changed in several fields at once.
LEMMA MovedOn ==
    ASSUME NEW s \in States, NEW to \in Places, NEW from \in 1 .. (Len(sql) + 1)
    PROVE  /\ [s EXCEPT !.inside = to, !.from = from] =
                  [inside |-> to, skip |-> s.skip, from |-> from, found |-> s.found]
           /\ \A skips \in BOOLEAN :
                  /\ [s EXCEPT !.inside = to, !.skip = skips, !.from = from] =
                         [inside |-> to, skip |-> skips, from |-> from, found |-> s.found]
                  /\ [s EXCEPT !.skip = skips, !.from = from] =
                         [inside |-> s.inside, skip |-> skips, from |-> from, found |-> s.found]
<1> SUFFICES ASSUME NEW skips \in BOOLEAN
             PROVE  /\ [s EXCEPT !.inside = to, !.from = from] =
                           [inside |-> to, skip |-> s.skip, from |-> from, found |-> s.found]
                    /\ [s EXCEPT !.inside = to, !.skip = skips, !.from = from] =
                           [inside |-> to, skip |-> skips, from |-> from, found |-> s.found]
                    /\ [s EXCEPT !.skip = skips, !.from = from] =
                           [inside |-> s.inside, skip |-> skips, from |-> from, found |-> s.found]
  OBVIOUS
<1> DEFINE a == [s EXCEPT !.inside = to, !.skip = skips, !.from = from]
           b == [s EXCEPT !.skip = skips, !.from = from]
           c == [s EXCEPT !.inside = to, !.from = from]
<1>1. a \in States /\ b \in States /\ c \in States
  BY DEF States
<1>2. /\ a.inside = to /\ a.skip = skips /\ a.from = from /\ a.found = s.found
      /\ b.inside = s.inside /\ b.skip = skips /\ b.from = from /\ b.found = s.found
      /\ c.inside = to /\ c.skip = s.skip /\ c.from = from /\ c.found = s.found
  BY DEF States
<1> HIDE DEF a, b, c
<1>3. /\ a = [inside |-> a.inside, skip |-> a.skip, from |-> a.from, found |-> a.found]
      /\ b = [inside |-> b.inside, skip |-> b.skip, from |-> b.from, found |-> b.found]
      /\ c = [inside |-> c.inside, skip |-> c.skip, from |-> c.from, found |-> c.found]
  BY <1>1, Fields
<1> QED
  BY <1>2, <1>3 DEF a, b, c

\* A step of the export's scan enters and leaves comments and quotes as every scan does,
\* and ends a word in code before the first character that is not of a word.
LEMMA KeywordStepIs ==
    ASSUME sql \in Seq(Chars), NEW s \in States, NEW i \in 1 .. Len(sql)
    PROVE  /\ KeywordStep(s, i) \in States
           /\ KeywordStep(s, i).inside = Inside(s, i)
           /\ KeywordStep(s, i).skip <=> Skips(s, i)
           /\ KeywordStep(s, i).from = IF AtCode(s) /\ sql[i] = "word" THEN s.from ELSE i + 1
           /\ KeywordStep(s, i).found = IF AtCode(s) /\ sql[i] # "word" THEN Ended(s, i)
                                        ELSE s.found
<1> DEFINE n == Len(sql)
           out(to, skips, rest) == [inside |-> to, skip |-> skips, from |-> i + 1, found |-> rest]
           word == AtCode(s) /\ sql[i] = "word"
           rest == IF AtCode(s) THEN Ended(s, i) ELSE s.found
           r == out(Inside(s, i), Skips(s, i), rest)
<1>1. /\ s.inside \in Places /\ s.skip \in BOOLEAN /\ s.from \in 1 .. (n + 1)
      /\ s.found \in Seq(Pieces) /\ n \in Nat /\ i \in Nat /\ i + 1 \in 1 .. (n + 1)
      /\ s = [inside |-> s.inside, skip |-> s.skip, from |-> s.from, found |-> s.found]
  BY DEF States
<1>2. rest \in Seq(Pieces)
  <2>1. s.from < i => <<s.from, i - 1>> \in Pieces
    BY <1>1 DEF Pieces
  <2> QED
    BY <2>1, <1>1 DEF Ended
<1>3. Inside(s, i) \in Places /\ Skips(s, i) \in BOOLEAN
  BY <1>1 DEF Inside, Skips, Places
<1>4. KeywordStep(s, i) = IF word THEN s ELSE r
  <2>1. CASE s.skip
    <3>1. Inside(s, i) = s.inside /\ Skips(s, i) = FALSE /\ ~AtCode(s)
      BY <2>1, <1>1 DEF Inside, Skips, AtCode
    <3>2. KeywordStep(s, i) = [s EXCEPT !.skip = FALSE, !.from = i + 1]
      BY <2>1 DEF KeywordStep
    <3>3. [s EXCEPT !.skip = FALSE, !.from = i + 1] = out(s.inside, FALSE, s.found)
      BY <1>1, <1>3, MovedOn DEF Places
    <3> QED
      BY <3>1, <3>2, <3>3
  <2>2. CASE ~s.skip /\ s.inside = "line"
    <3>1. /\ Inside(s, i) = IF sql[i] = "\n" THEN "code" ELSE s.inside
          /\ Skips(s, i) = FALSE /\ ~AtCode(s) /\ s.skip = FALSE
      BY <2>2, <1>1 DEF Inside, Skips, AtCode
    <3>2. KeywordStep(s, i) = [s EXCEPT !.inside = Inside(s, i), !.from = i + 1]
      BY <3>1, <2>2 DEF KeywordStep
    <3>3. [s EXCEPT !.inside = Inside(s, i), !.from = i + 1] = out(Inside(s, i), s.skip, s.found)
      <4> DEFINE to == Inside(s, i)
      <4>1. to \in Places /\ s \in States /\ i + 1 \in 1 .. (Len(sql) + 1)
        BY <1>1, <1>3
      <4> HIDE DEF to
      <4>2. [s EXCEPT !.inside = to, !.from = i + 1] = out(to, s.skip, s.found)
        BY <4>1, MovedOn
      <4> QED
        BY <4>2 DEF to
    <3> QED
      BY <3>1, <3>2, <3>3
  <2>3. CASE ~s.skip /\ s.inside = "block"
    <3>1. CASE Starts(i, n, <<"*", "/">>)
      <4>1. Inside(s, i) = "code" /\ Skips(s, i) = TRUE /\ ~AtCode(s)
        BY <3>1, <2>3, <1>1 DEF Inside, Skips, AtCode
      <4>2. KeywordStep(s, i) = [s EXCEPT !.inside = "code", !.skip = TRUE, !.from = i + 1]
        BY <3>1, <2>3 DEF KeywordStep
      <4>3. [s EXCEPT !.inside = "code", !.skip = TRUE, !.from = i + 1] = out("code", TRUE, s.found)
        BY <1>1, <1>3, MovedOn DEF Places
      <4> QED
        BY <4>1, <4>2, <4>3
    <3>2. CASE ~Starts(i, n, <<"*", "/">>)
      <4>1. Inside(s, i) = s.inside /\ Skips(s, i) = FALSE /\ ~AtCode(s) /\ s.skip = FALSE
        BY <3>2, <2>3, <1>1 DEF Inside, Skips, AtCode
      <4>2. KeywordStep(s, i) = [s EXCEPT !.from = i + 1]
        BY <3>2, <2>3 DEF KeywordStep
      <4>3. [s EXCEPT !.from = i + 1] = out(s.inside, s.skip, s.found)
        BY DEF States
      <4> QED
        BY <4>1, <4>2, <4>3
    <3> QED
      BY <3>1, <3>2
  <2>4. CASE ~s.skip /\ s.inside = "quote"
    <3>1. CASE Starts(i, n, <<"quote", "quote">>)
      <4>1. Inside(s, i) = s.inside /\ Skips(s, i) = TRUE /\ ~AtCode(s) /\ sql[i] = "quote"
        BY <3>1, <2>4, <1>1 DEF Inside, Skips, AtCode, Starts
      <4>2. KeywordStep(s, i) = [s EXCEPT !.skip = TRUE, !.from = i + 1]
        BY <4>1, <3>1, <2>4 DEF KeywordStep
      <4>3. [s EXCEPT !.skip = TRUE, !.from = i + 1] = out(s.inside, TRUE, s.found)
        BY <1>1, <1>3, MovedOn DEF Places
      <4> QED
        BY <4>1, <4>2, <4>3
    <3>2. CASE ~Starts(i, n, <<"quote", "quote">>)
      <4>1. /\ Inside(s, i) = IF sql[i] = "quote" THEN "code" ELSE s.inside
            /\ Skips(s, i) = FALSE /\ ~AtCode(s) /\ s.skip = FALSE
        BY <3>2, <2>4, <1>1 DEF Inside, Skips, AtCode
      <4>2. KeywordStep(s, i) = [s EXCEPT !.inside = Inside(s, i), !.from = i + 1]
        BY <4>1, <3>2, <2>4 DEF KeywordStep
      <4>3. [s EXCEPT !.inside = Inside(s, i), !.from = i + 1] = out(Inside(s, i), s.skip, s.found)
        <5> DEFINE to == Inside(s, i)
        <5>1. to \in Places /\ s \in States /\ i + 1 \in 1 .. (Len(sql) + 1)
          BY <1>1, <1>3
        <5> HIDE DEF to
        <5>2. [s EXCEPT !.inside = to, !.from = i + 1] = out(to, s.skip, s.found)
          BY <5>1, MovedOn
        <5> QED
          BY <5>2 DEF to
      <4> QED
        BY <4>1, <4>2, <4>3
    <3> QED
      BY <3>1, <3>2
  <2>5. CASE ~s.skip /\ s.inside = "code"
    <3>1. AtCode(s) /\ rest = Ended(s, i)
      BY <2>5 DEF AtCode
    <3>2. KeywordStep(s, i) =
              IF Starts(i, n, <<"-", "-">>) THEN out("line", TRUE, Ended(s, i))
              ELSE IF Starts(i, n, <<"/", "*">>) THEN out("block", TRUE, Ended(s, i))
              ELSE IF sql[i] = "quote" THEN out("quote", FALSE, Ended(s, i))
              ELSE IF sql[i] = "word" THEN s ELSE out("code", FALSE, Ended(s, i))
      BY <2>5 DEF KeywordStep, Ended
    <3>3. Inside(s, i) = IF Starts(i, n, <<"-", "-">>) THEN "line"
                         ELSE IF Starts(i, n, <<"/", "*">>) THEN "block"
                         ELSE IF sql[i] = "quote" THEN "quote" ELSE "code"
      BY <2>5 DEF Inside
    <3>4. Skips(s, i) <=> Comment(i, n)
      BY <2>5 DEF Skips
    <3>5. Comment(i, n) => sql[i] # "quote" /\ sql[i] # "word"
      BY DEF Comment, Starts
    <3>6. CASE Starts(i, n, <<"-", "-">>)
      <4>1. Inside(s, i) = "line" /\ Skips(s, i) = TRUE /\ ~word
        BY <3>6, <3>3, <3>4, <3>5, <1>3 DEF Comment
      <4> QED
        BY <4>1, <3>1, <3>2, <3>6
    <3>7. CASE ~Starts(i, n, <<"-", "-">>) /\ Starts(i, n, <<"/", "*">>)
      <4>1. Inside(s, i) = "block" /\ Skips(s, i) = TRUE /\ ~word
        BY <3>7, <3>3, <3>4, <3>5, <1>3 DEF Comment
      <4> QED
        BY <4>1, <3>1, <3>2, <3>7
    <3>8. CASE ~Comment(i, n)
      <4>1. /\ Inside(s, i) = IF sql[i] = "quote" THEN "quote" ELSE "code"
            /\ Skips(s, i) = FALSE
        BY <3>8, <3>3, <3>4, <1>3 DEF Comment
      <4>2. KeywordStep(s, i) = IF sql[i] = "quote" THEN out("quote", FALSE, Ended(s, i))
                                ELSE IF sql[i] = "word" THEN s ELSE out("code", FALSE, Ended(s, i))
        BY <3>8, <3>2 DEF Comment
      <4> QED
        BY <4>1, <4>2, <3>1
    <3> QED
      BY <3>6, <3>7, <3>8 DEF Comment
  <2> QED
    BY <1>1, <2>1, <2>2, <2>3, <2>4, <2>5 DEF Places
<1>5. CASE word
  <2>1. Inside(s, i) = s.inside /\ ~Skips(s, i) /\ ~s.skip
    BY <1>5 DEF Inside, Skips, AtCode, Comment, Starts
  <2> QED
    BY <2>1, <1>4, <1>5
<1>6. CASE ~word
  <2>1. KeywordStep(s, i) = r
    BY <1>4, <1>6
  <2>2. /\ r.inside = Inside(s, i) /\ r.skip = Skips(s, i) /\ r.from = i + 1 /\ r.found = rest
    OBVIOUS
  <2>3. rest = IF AtCode(s) /\ sql[i] # "word" THEN Ended(s, i) ELSE s.found
    BY <1>6
  <2> HIDE DEF rest
  <2>4. r \in States
    BY <1>1, <1>2, <1>3 DEF States
  <2> HIDE DEF r
  <2> QED
    BY <2>1, <2>2, <2>3, <2>4, <1>6
<1> QED
  BY <1>5, <1>6

\* Its states, one behind every character.
LEMMA KeywordScan ==
    ASSUME sql \in Seq(Chars)
    PROVE  \E g \in [0 .. Len(sql) -> States] :
               /\ g[0] = Scan
               /\ \A i \in 1 .. Len(sql) : g[i] = KeywordStep(g[i - 1], i)
               /\ Scanned(KeywordStep) = g[Len(sql)]
<1> DEFINE n == Len(sql)
           G == [i \in 1 .. n |-> [s \in States |-> KeywordStep(s, i)]]
           Law(f) == [i \in 0 .. n |-> IF i = 0 THEN Scan ELSE KeywordStep(f[i - 1], i)]
           scan == CHOOSE f : f = Law(f)
<1>1. n \in Nat
  OBVIOUS
<1>2. PICK g \in Ways(n, States, Scan, G) : TRUE
  <2>1. G \in [1 .. n -> [States -> States]]
    BY KeywordStepIs
  <2> HIDE DEF G, n
  <2>2. Ways(n, States, Scan, G) # {}
    BY <2>1, <1>1, ScanTyped, Recursion
  <2> QED
    BY <2>2
<1>3. /\ g \in [0 .. n -> States] /\ g[0] = Scan
      /\ \A i \in 1 .. n : g[i] = KeywordStep(g[i - 1], i)
  <2>1. /\ g \in [0 .. n -> States] /\ g[0] = Scan
        /\ \A i \in 1 .. n : g[i] = G[i][g[i - 1]]
    BY <1>2 DEF Ways
  <2>2. ASSUME NEW i \in 1 .. n PROVE g[i - 1] \in States
    BY <2>1, <1>1
  <2> QED
    BY <2>1, <2>2
<1>4. g = Law(g)
  <2>1. ASSUME NEW i \in 0 .. n PROVE g[i] = Law(g)[i]
    <3>1. i = 0 \/ i \in 1 .. n
      BY <1>1
    <3> QED
      BY <3>1, <1>3
  <2>2. g = [i \in 0 .. n |-> g[i]] /\ Law(g) = [i \in 0 .. n |-> Law(g)[i]]
    BY <1>3
  <2> HIDE DEF Law
  <2> QED
    BY <2>1, <2>2
<1>5. scan = Law(scan)
  <2> HIDE DEF Law
  <2> QED
    BY <1>4
<1>6. Scanned(KeywordStep) = scan[n]
  BY DEF Scanned
<1> HIDE DEF scan
<1>7. scan[n] = g[n]
  <2> DEFINE T == {i \in 0 .. n : scan[i] = g[i]}
  <2>1. 0 \in T
    BY <1>1, <1>3, <1>5
  <2>2. ASSUME NEW i \in 1 .. n, i - 1 \in T PROVE i \in T
    <3>1. i \in 0 .. n /\ i # 0 /\ scan[i - 1] = g[i - 1]
      BY <1>1, <2>2
    <3>2. Law(scan)[i] = KeywordStep(scan[i - 1], i)
      BY <3>1
    <3>3. scan[i] = Law(scan)[i]
      BY <1>5
    <3> HIDE DEF Law
    <3> QED
      BY <3>1, <3>2, <3>3, <1>3
  <2>3. \A i \in 0 .. n : i \in T
    <3> HIDE DEF T, n
    <3> QED
      BY <2>1, <2>2, <1>1, UpTo
  <2> QED
    BY <2>3, <1>1
<1> QED
  BY <1>3, <1>6, <1>7

\* The scan of rest.rs, where there are no comments.
NoComments == \A i \in DOMAIN sql : ~Comment(i, Len(sql))
RestStates == {s \in States : s.inside \in {"code", "quote"}}

\* A step of the scan of rest.rs, where there are no comments, enters and leaves quotes as
\* every scan does, and cuts at a separator in code.
LEMMA RestStepIs ==
    ASSUME sql \in Seq(Chars), NoComments, NEW s \in RestStates, NEW i \in 1 .. Len(sql)
    PROVE  /\ RestStep(s, i) \in RestStates
           /\ RestStep(s, i).inside = Inside(s, i)
           /\ RestStep(s, i).skip <=> Skips(s, i)
           /\ RestStep(s, i).from = IF GuardCut(s, i) THEN i + 1 ELSE s.from
           /\ RestStep(s, i).found = IF GuardCut(s, i) THEN Pushed(s, Trim(s.from, i - 1))
                                     ELSE s.found
<1> DEFINE n == Len(sql)
           out(to, skips) == [s EXCEPT !.inside = to, !.skip = skips]
           cut == [s EXCEPT !.from = i + 1, !.found = Pushed(s, Trim(s.from, i - 1))]
<1>1. /\ s \in States /\ s.inside \in {"code", "quote"} /\ s.skip \in BOOLEAN
      /\ s.from \in 1 .. (n + 1)
      /\ s.found \in Seq(Pieces) /\ n \in Nat /\ i \in Nat /\ i - 1 \in Nat
      /\ s = [inside |-> s.inside, skip |-> s.skip, from |-> s.from, found |-> s.found]
  BY DEF States, RestStates
<1>2. Pushed(s, Trim(s.from, i - 1)) \in Seq(Pieces)
  <2>1. Trim(s.from, i - 1) \in Pieces
    BY <1>1, TrimTyped
  <2> QED
    BY <2>1, <1>1, PushedTyped
<1>3. ~Starts(i, n, <<"-", "-">>) /\ ~Starts(i, n, <<"/", "*">>)
  BY DEF NoComments, Comment
<1>4. RestStep(s, i) = IF GuardCut(s, i) THEN cut ELSE out(Inside(s, i), Skips(s, i))
  <2>1. CASE s.skip
    <3>1. out(Inside(s, i), Skips(s, i)) = [s EXCEPT !.skip = FALSE]
      BY <2>1, <1>1 DEF Inside, Skips
    <3> QED
      BY <3>1, <2>1 DEF RestStep, GuardCut, AtCode
  <2>2. CASE ~s.skip /\ s.inside = "quote"
    <3>1. out(Inside(s, i), Skips(s, i)) =
              IF sql[i] # "quote" THEN s
              ELSE IF Starts(i, n, <<"quote", "quote">>) THEN [s EXCEPT !.skip = TRUE]
              ELSE [s EXCEPT !.inside = "code"]
      BY <2>2, <1>1 DEF Inside, Skips, Starts
    <3> QED
      BY <3>1, <2>2 DEF RestStep, GuardCut, AtCode
  <2>3. CASE ~s.skip /\ s.inside = "code"
    <3>1. out(Inside(s, i), Skips(s, i)) =
              IF sql[i] = "quote" THEN [s EXCEPT !.inside = "quote"] ELSE s
      BY <2>3, <1>1, <1>3 DEF Inside, Skips, Comment
    <3>2. RestStep(s, i) = IF sql[i] = "quote" THEN [s EXCEPT !.inside = "quote"]
                           ELSE IF sql[i] = "sep" THEN cut ELSE s
      BY <2>3 DEF RestStep
    <3>3. GuardCut(s, i) <=> sql[i] = "sep"
      BY <2>3 DEF GuardCut, AtCode
    <3> QED
      BY <3>1, <3>2, <3>3
  <2> QED
    BY <1>1, <2>1, <2>2, <2>3
<1>5. Inside(s, i) \in {"code", "quote"} /\ Skips(s, i) \in BOOLEAN
  BY <1>1, <1>3 DEF Inside, Skips
<1>6. GuardCut(s, i) => s.inside = Inside(s, i) /\ ~s.skip /\ ~Skips(s, i)
  BY DEF GuardCut, AtCode, Inside, Skips, Comment, Starts
<1>7. i + 1 \in 1 .. (n + 1)
  BY <1>1
<1>8. CASE GuardCut(s, i)
  <2>1. RestStep(s, i) = cut
    BY <1>4, <1>8
  <2>2. /\ cut.inside = s.inside /\ cut.skip = s.skip /\ cut.from = i + 1
        /\ cut.found = Pushed(s, Trim(s.from, i - 1))
    BY <1>1 DEF States
  <2>3. cut \in States
    BY <1>1, <1>2, <1>7 DEF States
  <2> HIDE DEF cut
  <2> QED
    BY <2>1, <2>2, <2>3, <1>1, <1>6, <1>8 DEF RestStates
<1>9. CASE ~GuardCut(s, i)
  <2> DEFINE r == out(Inside(s, i), Skips(s, i))
  <2>1. /\ r.inside = Inside(s, i) /\ r.skip = Skips(s, i) /\ r.from = s.from
        /\ r.found = s.found
    BY <1>1 DEF States
  <2>2. r \in States
    BY <1>1, <1>5 DEF States, Places
  <2>3. RestStep(s, i) = r
    BY <1>4, <1>9
  <2> HIDE DEF r
  <2> QED
    BY <2>1, <2>2, <2>3, <1>5, <1>9 DEF RestStates
<1> QED
  BY <1>8, <1>9

\* Its states, one behind every character.
LEMMA RestScan ==
    ASSUME sql \in Seq(Chars), NoComments
    PROVE  \E g \in [0 .. Len(sql) -> RestStates] :
               /\ g[0] = Scan
               /\ \A i \in 1 .. Len(sql) : g[i] = RestStep(g[i - 1], i)
               /\ Scanned(RestStep) = g[Len(sql)]
<1> DEFINE n == Len(sql)
           G == [i \in 1 .. n |-> [s \in RestStates |-> RestStep(s, i)]]
           Law(f) == [i \in 0 .. n |-> IF i = 0 THEN Scan ELSE RestStep(f[i - 1], i)]
           scan == CHOOSE f : f = Law(f)
<1>1. n \in Nat
  OBVIOUS
<1>2. PICK g \in Ways(n, RestStates, Scan, G) : TRUE
  <2>1. G \in [1 .. n -> [RestStates -> RestStates]]
    BY RestStepIs
  <2> HIDE DEF G, n
  <2>2. Scan \in RestStates
    BY ScanTyped DEF RestStates, Scan
  <2>3. Ways(n, RestStates, Scan, G) # {}
    BY <2>1, <1>1, <2>2, Recursion
  <2> QED
    BY <2>3
<1>3. /\ g \in [0 .. n -> RestStates] /\ g[0] = Scan
      /\ \A i \in 1 .. n : g[i] = RestStep(g[i - 1], i)
  <2>1. /\ g \in [0 .. n -> RestStates] /\ g[0] = Scan
        /\ \A i \in 1 .. n : g[i] = G[i][g[i - 1]]
    BY <1>2 DEF Ways
  <2>2. ASSUME NEW i \in 1 .. n PROVE g[i - 1] \in RestStates
    BY <2>1, <1>1
  <2> QED
    BY <2>1, <2>2
<1>4. g = Law(g)
  <2>1. ASSUME NEW i \in 0 .. n PROVE g[i] = Law(g)[i]
    <3>1. i = 0 \/ i \in 1 .. n
      BY <1>1
    <3> QED
      BY <3>1, <1>3
  <2>2. g = [i \in 0 .. n |-> g[i]] /\ Law(g) = [i \in 0 .. n |-> Law(g)[i]]
    BY <1>3
  <2> HIDE DEF Law
  <2> QED
    BY <2>1, <2>2
<1>5. scan = Law(scan)
  <2> HIDE DEF Law
  <2> QED
    BY <1>4
<1>6. Scanned(RestStep) = scan[n]
  BY DEF Scanned
<1> HIDE DEF scan
<1>7. scan[n] = g[n]
  <2> DEFINE T == {i \in 0 .. n : scan[i] = g[i]}
  <2>1. 0 \in T
    BY <1>1, <1>3, <1>5
  <2>2. ASSUME NEW i \in 1 .. n, i - 1 \in T PROVE i \in T
    <3>1. i \in 0 .. n /\ i # 0 /\ scan[i - 1] = g[i - 1]
      BY <1>1, <2>2
    <3>2. Law(scan)[i] = RestStep(scan[i - 1], i)
      BY <3>1
    <3>3. scan[i] = Law(scan)[i]
      BY <1>5
    <3> HIDE DEF Law
    <3> QED
      BY <3>1, <3>2, <3>3, <1>3
  <2>3. \A i \in 0 .. n : i \in T
    <3> HIDE DEF T, n
    <3> QED
      BY <2>1, <2>2, <1>1, UpTo
  <2> QED
    BY <2>3, <1>1
<1> QED
  BY <1>3, <1>6, <1>7

-------------------------------------------------------------------------------
\* The splitter of commands.rs, jump by jump.

PieceOf(p) == IF p[1] > p[2] THEN <<>> ELSE <<p>>

\* The splits: what is found from each position on, by where the piece began.
Splits(sp) ==
    /\ sp \in [1 .. (Len(sql) + 1) -> [1 .. (Len(sql) + 1) -> Seq(Pieces)]]
    /\ \A f \in 1 .. (Len(sql) + 1) : sp[Len(sql) + 1][f] = PieceOf(Trim(f, Len(sql)))
    /\ \A i \in 1 .. Len(sql), f \in 1 .. (Len(sql) + 1) :
           sp[i][f] = IF sql[i] = "sep" THEN PieceOf(Trim(f, i - 1)) \o sp[i + 1][i + 1]
                      ELSE sp[Skip(i, Len(sql))][f]

\* The splitter of commands.rs is such a scan by jumps.
LEMMA CoreLaw ==
    ASSUME sql \in Seq(Chars)
    PROVE  \E sp : Splits(sp) /\ CoreSplit = sp[1][1]
<1> DEFINE n == Len(sql)
           D == 1 .. (n + 1)
           X == [D -> Seq(Pieces)]
           base == [f \in D |-> PieceOf(Trim(f, n))]
           next == [i \in 1 .. n |-> Skip(i, n)]
           step(i, x) == [f \in D |-> IF sql[i] = "sep" THEN PieceOf(Trim(f, i - 1)) \o x[i + 1]
                                      ELSE x[f]]
           G == [i \in 1 .. n |-> [x \in X |-> step(i, x)]]
<1>1. n \in Nat
  OBVIOUS
<1>2. ASSUME NEW f \in D, NEW b \in Nat PROVE PieceOf(Trim(f, b)) \in Seq(Pieces)
  <2>1. Trim(f, b) \in Pieces
    BY <1>1, TrimTyped
  <2> QED
    BY <2>1 DEF PieceOf
<1> HIDE DEF n
<1>3. PICK sp \in Jumps(1, n, X, base, next, G) : TRUE
  <2>1. \A i \in 1 .. n : next[i] \in (i + 1) .. (n + 1)
    BY <1>1, Forward
  <2>2. base \in X
    BY <1>1, <1>2
  <2>3. ASSUME NEW i \in 1 .. n, NEW x \in X PROVE step(i, x) \in X
    <3>1. ASSUME NEW f \in D
          PROVE  (IF sql[i] = "sep" THEN PieceOf(Trim(f, i - 1)) \o x[i + 1] ELSE x[f]) \in Seq(Pieces)
      <4>1. i + 1 \in D /\ i - 1 \in Nat
        BY <1>1
      <4>2. x[i + 1] \in Seq(Pieces) /\ x[f] \in Seq(Pieces)
        BY <4>1
      <4>3. PieceOf(Trim(f, i - 1)) \in Seq(Pieces)
        BY <4>1, <1>2
      <4>4. PieceOf(Trim(f, i - 1)) \o x[i + 1] \in Seq(Pieces)
        BY <4>2, <4>3
      <4> QED
        BY <4>2, <4>4
    <3> QED
      BY <3>1
  <2>4. \A i \in 1 .. n : G[i] \in [X -> X]
    <3> HIDE DEF X, step
    <3> QED
      BY <2>3
  <2>5. 1 \in Nat /\ 1 <= n + 1
    BY <1>1
  <2> HIDE DEF base, next, G, X
  <2>6. Jumps(1, n, X, base, next, G) # {}
    BY ONLY <2>1, <2>2, <2>4, <2>5, <1>1, JumpRecursion
  <2> QED
    BY <2>6
<1>4. /\ sp \in [D -> X] /\ sp[n + 1] = base
      /\ \A i \in 1 .. n : sp[i] = step(i, sp[Skip(i, n)])
  <2>1. sp \in [D -> X] /\ sp[n + 1] = base /\ \A i \in 1 .. n : sp[i] = G[i][sp[next[i]]]
    BY <1>3 DEF Jumps
  <2>2. ASSUME NEW i \in 1 .. n PROVE sp[i] = step(i, sp[Skip(i, n)])
    <3>1. Skip(i, n) \in (i + 1) .. (n + 1)
      BY <1>1, Forward
    <3>2. Skip(i, n) \in D
      BY <3>1, <1>1
    <3>3. sp[Skip(i, n)] \in X
      BY <2>1, <3>2
    <3> HIDE DEF X, step
    <3> QED
      BY <2>1, <3>3
  <2> QED
    BY <2>1, <2>2
<1>5. ASSUME NEW i \in 1 .. n, NEW f \in D
      PROVE  sp[i][f] = IF sql[i] = "sep" THEN PieceOf(Trim(f, i - 1)) \o sp[i + 1][i + 1]
                        ELSE sp[Skip(i, n)][f]
  <2>1. sp[i][f] = IF sql[i] = "sep" THEN PieceOf(Trim(f, i - 1)) \o sp[Skip(i, n)][i + 1]
                   ELSE sp[Skip(i, n)][f]
    <3>1. sp[i] = step(i, sp[Skip(i, n)])
      BY <1>4
    <3> QED
      BY <3>1
  <2>2. sql[i] = "sep" => Skip(i, n) = i + 1
    BY DEF Skip, Starts
  <2> QED
    BY <2>1, <2>2
<1>6. ASSUME NEW f \in D PROVE sp[n + 1][f] = PieceOf(Trim(f, n))
  BY <1>4
<1>7. Splits(sp)
  BY <1>4, <1>5, <1>6 DEF Splits, n
<1> DEFINE piece(p) == IF p[1] > p[2] THEN <<>> ELSE <<p>>
           Row(s, i) == [from \in D |->
                IF i > n THEN piece(Trim(from, n))
                ELSE IF sql[i] = "quote" THEN s[AfterQuote(i + 1, n)][from]
                ELSE IF Starts(i, n, <<"-", "-">>) THEN s[AfterLine(i + 2, n)][from]
                ELSE IF Starts(i, n, <<"/", "*">>) THEN s[AfterBlock(i + 2, n)][from]
                ELSE IF sql[i] = "sep" THEN piece(Trim(from, i - 1)) \o s[i + 1][i + 1]
                ELSE s[i + 1][from]]
           Law(s) == [i \in D |-> Row(s, i)]
           split == CHOOSE s : s = Law(s)
<1>8. ASSUME NEW s, NEW i \in 1 .. n, NEW f \in D
      PROVE  Row(s, i)[f] = IF sql[i] = "sep" THEN PieceOf(Trim(f, i - 1)) \o s[i + 1][i + 1]
                            ELSE s[Skip(i, n)][f]
  <2>1. ~(i > n)
    BY <1>1
  <2>2. sql[i] = "quote" => ~Starts(i, n, <<"-", "-">>) /\ ~Starts(i, n, <<"/", "*">>)
    BY DEF Starts
  <2>3. sql[i] = "sep" => ~Starts(i, n, <<"-", "-">>) /\ ~Starts(i, n, <<"/", "*">>)
    BY DEF Starts
  <2>4. PieceOf(Trim(f, i - 1)) = piece(Trim(f, i - 1))
    BY DEF PieceOf
  <2> HIDE DEF piece
  <2>5. Row(s, i)[f] = IF sql[i] = "quote" THEN s[AfterQuote(i + 1, n)][f]
                       ELSE IF Starts(i, n, <<"-", "-">>) THEN s[AfterLine(i + 2, n)][f]
                       ELSE IF Starts(i, n, <<"/", "*">>) THEN s[AfterBlock(i + 2, n)][f]
                       ELSE IF sql[i] = "sep" THEN piece(Trim(f, i - 1)) \o s[i + 1][i + 1]
                       ELSE s[i + 1][f]
    BY <2>1
  <2> HIDE DEF Row
  <2> QED
    BY <2>2, <2>3, <2>4, <2>5 DEF Skip
<1>9. ASSUME NEW s, NEW f \in D PROVE Row(s, n + 1)[f] = PieceOf(Trim(f, n))
  <2>1. n + 1 > n
    BY <1>1
  <2> QED
    BY <2>1 DEF PieceOf
<1>10. sp = Law(sp)
  <2>1. ASSUME NEW i \in D PROVE sp[i] = Row(sp, i)
    <3>1. ASSUME NEW f \in D PROVE sp[i][f] = Row(sp, i)[f]
      <4>1. i \in 1 .. n \/ i = n + 1
        BY <1>1
      <4> HIDE DEF Row
      <4> QED
        BY <4>1, <1>5, <1>6, <1>8, <1>9
    <3>2. sp[i] = [f \in D |-> sp[i][f]] /\ Row(sp, i) = [f \in D |-> Row(sp, i)[f]]
      BY <1>4
    <3> HIDE DEF Row
    <3> QED
      BY <3>1, <3>2
  <2>2. sp = [i \in D |-> sp[i]]
    BY <1>4
  <2> HIDE DEF Row
  <2> QED
    BY <2>1, <2>2
<1>11. split = Law(split)
  <2> HIDE DEF Law
  <2> QED
    BY <1>10
<1>12. CoreSplit = split[1][1]
  BY DEF CoreSplit, n
<1> HIDE DEF split
<1>13. split[1] = sp[1]
  <2> DEFINE T == {i \in D : split[i] = sp[i]}
  <2>1. ASSUME NEW i \in D PROVE split[i] = Row(split, i)
    <3> HIDE DEF Row
    <3> QED
      BY <1>11
  <2>2. ASSUME NEW i \in D, \A f \in D : Row(split, i)[f] = sp[i][f] PROVE split[i] = sp[i]
    <3>1. sp[i] = [f \in D |-> sp[i][f]] /\ Row(split, i) = [f \in D |-> Row(split, i)[f]]
      BY <1>4
    <3> HIDE DEF Row
    <3> QED
      BY <3>1, <2>1, <2>2
  <2>3. n + 1 \in T
    <3>1. n + 1 \in D
      BY <1>1
    <3> HIDE DEF Row
    <3>2. \A f \in D : Row(split, n + 1)[f] = sp[n + 1][f]
      BY <1>6, <1>9
    <3> QED
      BY <3>1, <3>2, <2>2
  <2>4. ASSUME NEW i \in 1 .. n, \A j \in (i + 1) .. (n + 1) : j \in T PROVE i \in T
    <3>1. i \in D /\ i + 1 \in (i + 1) .. (n + 1) /\ Skip(i, n) \in (i + 1) .. (n + 1)
      <4>1. i \in D /\ i + 1 \in (i + 1) .. (n + 1)
        BY <1>1
      <4>2. Skip(i, n) \in (i + 1) .. (n + 1)
        BY <1>1, Forward
      <4> QED
        BY <4>1, <4>2
    <3>2. split[i + 1] = sp[i + 1] /\ split[Skip(i, n)] = sp[Skip(i, n)]
      BY <3>1, <2>4
    <3> HIDE DEF Row
    <3>3. \A f \in D : Row(split, i)[f] = sp[i][f]
      BY <3>2, <1>5, <1>8
    <3> QED
      BY <3>1, <3>3, <2>2
  <2>5. 1 \in Nat /\ 1 <= n + 1 /\ 1 \in D
    BY <1>1
  <2> HIDE DEF T
  <2>6. \A i \in 1 .. (n + 1) : i \in T
    BY <2>3, <2>4, <2>5, <1>1, DownTo
  <2> QED
    BY <2>5, <2>6 DEF T
<1> QED
  BY <1>7, <1>12, <1>13

-------------------------------------------------------------------------------
\* The pieces that are found, as a set.

\* What a longer sequence holds.
LEMMA SetAppended ==
    ASSUME NEW S, NEW s \in Seq(S), NEW p \in S
    PROVE  ToSet(Append(s, p)) = ToSet(s) \cup {p}
<1> DEFINE a == Append(s, p)
<1>1. /\ Len(s) \in Nat /\ DOMAIN s = 1 .. Len(s) /\ DOMAIN a = 1 .. (Len(s) + 1)
      /\ a[Len(s) + 1] = p /\ \A i \in 1 .. Len(s) : a[i] = s[i]
  OBVIOUS
<1> HIDE DEF a
<1>2. \A i \in 1 .. (Len(s) + 1) : i = Len(s) + 1 \/ i \in 1 .. Len(s)
  BY <1>1
<1>3. ToSet(a) \subseteq ToSet(s) \cup {p}
  BY <1>1, <1>2 DEF ToSet
<1>4. Len(s) + 1 \in DOMAIN a /\ \A i \in 1 .. Len(s) : i \in DOMAIN a
  BY <1>1
<1>5. ToSet(s) \cup {p} \subseteq ToSet(a)
  BY <1>1, <1>4 DEF ToSet
<1> QED
  BY <1>3, <1>5 DEF a

\* What two sequences hold together.
LEMMA SetJoined ==
    ASSUME NEW S, NEW s \in Seq(S), NEW t \in Seq(S)
    PROVE  ToSet(s \o t) = ToSet(s) \cup ToSet(t)
<1> DEFINE c == s \o t
<1>1. /\ Len(s) \in Nat /\ Len(t) \in Nat
      /\ DOMAIN s = 1 .. Len(s) /\ DOMAIN t = 1 .. Len(t) /\ DOMAIN c = 1 .. (Len(s) + Len(t))
      /\ \A i \in 1 .. Len(s) : c[i] = s[i]
      /\ \A i \in (Len(s) + 1) .. (Len(s) + Len(t)) : c[i] = t[i - Len(s)]
  OBVIOUS
<1> HIDE DEF c
<1>2. ASSUME NEW i \in DOMAIN c PROVE c[i] \in ToSet(s) \cup ToSet(t)
  <2>1. CASE i <= Len(s)
    <3>1. i \in 1 .. Len(s)
      BY <1>1, <2>1
    <3> QED
      BY <3>1, <1>1 DEF ToSet
  <2>2. CASE ~(i <= Len(s))
    <3>1. i \in (Len(s) + 1) .. (Len(s) + Len(t)) /\ i - Len(s) \in 1 .. Len(t)
      BY <1>1, <2>2
    <3> QED
      BY <3>1, <1>1 DEF ToSet
  <2> QED
    BY <2>1, <2>2
<1>3. ASSUME NEW i \in DOMAIN s PROVE s[i] \in ToSet(c)
  <2>1. i \in DOMAIN c /\ c[i] = s[i]
    BY <1>1
  <2> QED
    BY <2>1 DEF ToSet
<1>4. ASSUME NEW i \in DOMAIN t PROVE t[i] \in ToSet(c)
  <2>1. Len(s) + i \in (Len(s) + 1) .. (Len(s) + Len(t)) /\ (Len(s) + i) - Len(s) = i
    BY <1>1
  <2>2. Len(s) + i \in DOMAIN c
    BY <2>1, <1>1
  <2>3. c[Len(s) + i] = t[i]
    BY <2>1, <1>1
  <2> QED
    BY <2>2, <2>3 DEF ToSet
<1>5. ToSet(c) \subseteq ToSet(s) \cup ToSet(t)
  BY <1>2 DEF ToSet
<1>6. ToSet(s) \cup ToSet(t) \subseteq ToSet(c)
  <2>1. ToSet(s) = {s[i] : i \in DOMAIN s} /\ ToSet(t) = {t[i] : i \in DOMAIN t}
    BY DEF ToSet
  <2> QED
    BY <1>3, <1>4, <2>1
<1> QED
  BY <1>5, <1>6 DEF c

\* The pieces that hold a token, and the tokens of pieces.
Kept(S) == {p \in S : LexSql(p[1], p[2]) # {}}
Lexed(S) == UNION {LexSql(p[1], p[2]) : p \in S}

\* A piece is added unless it is empty, by sql_guardrails.rs only with a token.
LEMMA PushedIs ==
    ASSUME NEW s \in States, NEW p \in Pieces
    PROVE  /\ Pushed(s, p) = s.found \o PieceOf(p)
           /\ ToSet(GuardPushed(s, p)) = ToSet(s.found) \cup Kept(ToSet(PieceOf(p)))
<1>1. s.found \in Seq(Pieces) /\ PieceOf(p) \in Seq(Pieces)
  BY DEF States, PieceOf
<1>2. Pushed(s, p) = s.found \o PieceOf(p)
  <2>1. CASE p[1] > p[2]
    <3>1. s.found \o <<>> = s.found
      BY <1>1
    <3> QED
      BY <3>1, <2>1 DEF Pushed, PieceOf
  <2>2. CASE ~(p[1] > p[2])
    <3>1. s.found \o <<p>> = Append(s.found, p)
      BY <1>1
    <3> QED
      BY <3>1, <2>2 DEF Pushed, PieceOf
  <2> QED
    BY <2>1, <2>2
<1>3. ToSet(PieceOf(p)) = IF p[1] > p[2] THEN {} ELSE {p}
  BY DEF PieceOf, ToSet
<1>4. ToSet(Pushed(s, p)) = ToSet(s.found) \cup ToSet(PieceOf(p))
  <2> DEFINE a == s.found
             b == PieceOf(p)
  <2>1. a \in Seq(Pieces) /\ b \in Seq(Pieces) /\ Pushed(s, p) = a \o b
    BY <1>1, <1>2
  <2> HIDE DEF a, b
  <2>2. ToSet(a \o b) = ToSet(a) \cup ToSet(b)
    BY <2>1, SetJoined
  <2> QED
    BY <2>1, <2>2 DEF a, b
<1> QED
  BY <1>2, <1>3, <1>4 DEF GuardPushed, Kept

\* The tokens of a piece are those that are added.
LEMMA LexPushed ==
    ASSUME NEW s \in States, NEW b \in Nat, NEW a \in 1 .. (b + 1)
    PROVE  Lexed(ToSet(GuardPushed(s, Trim(a, b)))) = Lexed(ToSet(s.found)) \cup LexSql(a, b)
<1> DEFINE p == Trim(a, b)
<1>1. p \in Pieces
  BY TrimTyped
<1>2. LexSql(p[1], p[2]) = LexSql(a, b)
  BY LexTrim
<1>3. p[1] > p[2] => LexSql(p[1], p[2]) = {}
  <2>1. 0 \in Nat /\ 0 + 1 = 1
    OBVIOUS
  <2>2. LexSql(1, 0) = {}
    BY <2>1, LexLaw
  <2>3. p = <<1, 0>> \/ p[1] <= p[2]
    BY TrimIs
  <2> HIDE DEF p
  <2> QED
    BY <2>2, <2>3, <1>1 DEF Pieces
<1> HIDE DEF p
<1>4. ToSet(GuardPushed(s, p)) = ToSet(s.found) \cup Kept(ToSet(PieceOf(p)))
  BY <1>1, PushedIs
<1>5. ToSet(PieceOf(p)) = IF p[1] > p[2] THEN {} ELSE {p}
  BY DEF PieceOf, ToSet
<1>6. Lexed(Kept(ToSet(PieceOf(p)))) = LexSql(p[1], p[2])
  BY <1>3, <1>5 DEF Kept, Lexed
<1>7. Lexed(ToSet(s.found) \cup Kept(ToSet(PieceOf(p)))) =
          Lexed(ToSet(s.found)) \cup Lexed(Kept(ToSet(PieceOf(p))))
  BY DEF Lexed
<1> QED
  BY <1>2, <1>4, <1>6, <1>7 DEF p

-------------------------------------------------------------------------------
\* A scan that cuts at the separators in code, and where its pieces begin.

Froms(m) ==
    /\ m[0].from = 1
    /\ \A i \in 1 .. Len(sql) :
           m[i].from = IF GuardCut(m[i - 1], i) THEN i + 1 ELSE m[i - 1].from

\* A piece begins in code, and no separator in code is in it.
LEMMA FromIs ==
    ASSUME sql \in Seq(Chars), NEW m, Modes(m), Froms(m)
    PROVE  \A i \in 0 .. Len(sql) :
               /\ m[i].from \in 1 .. (i + 1)
               /\ AtCode(m[m[i].from - 1])
               /\ \A j \in m[i].from .. i : ~GuardCut(m[j - 1], j)
<1> DEFINE n == Len(sql)
           P(i) == /\ m[i].from \in 1 .. (i + 1)
                   /\ AtCode(m[m[i].from - 1])
                   /\ \A j \in m[i].from .. i : ~GuardCut(m[j - 1], j)
           T == {i \in 0 .. n : P(i)}
<1>1. n \in Nat
  OBVIOUS
<1>2. 0 \in T
  BY <1>1 DEF Modes, Froms
<1>3. ASSUME NEW i \in 1 .. n, i - 1 \in T PROVE i \in T
  <2>1. i \in 0 .. n /\ P(i - 1) /\ i \in Nat
    BY <1>1, <1>3
  <2>2. CASE GuardCut(m[i - 1], i)
    <3>1. m[i].from = i + 1
      BY <2>2 DEF Froms
    <3>2. Inside(m[i - 1], i) = "code" /\ ~Skips(m[i - 1], i)
      BY <2>2 DEF GuardCut, AtCode, Inside, Skips, Comment, Starts
    <3>3. AtCode(m[i])
      BY <3>2 DEF Modes, AtCode
    <3>4. m[i].from - 1 = i /\ m[i].from \in 1 .. (i + 1) /\ m[i].from .. i = {}
      BY <3>1, <2>1
    <3> QED
      BY <3>3, <3>4, <2>1
  <2>3. CASE ~GuardCut(m[i - 1], i)
    <3> DEFINE f == m[i - 1].from
    <3>1. m[i].from = f
      BY <2>3 DEF Froms
    <3>2. f \in 1 .. ((i - 1) + 1) /\ AtCode(m[f - 1]) /\ \A j \in f .. (i - 1) : ~GuardCut(m[j - 1], j)
      BY <2>1
    <3> HIDE DEF f
    <3>3. \A j \in f .. i : j = i \/ j \in f .. (i - 1)
      BY <3>2, <2>1
    <3>4. f \in 1 .. (i + 1) /\ \A j \in f .. i : ~GuardCut(m[j - 1], j)
      BY <3>2, <3>3, <2>1, <2>3
    <3> QED
      BY <3>1, <3>2, <3>4, <2>1
  <2> QED
    BY <2>2, <2>3
<1>4. \A i \in 0 .. n : i \in T
  <2> HIDE DEF T, n
  <2> QED
    BY <1>1, <1>2, <1>3, UpTo
<1> QED
  BY <1>4

\* A separator that is not in code does not lead back to code.
LEMMA BackToCode ==
    ASSUME sql \in Seq(Chars), NEW m, Modes(m), NEW i \in 1 .. Len(sql),
           AtCode(m[i]), sql[i] = "sep"
    PROVE  AtCode(m[i - 1])
<1>1. i - 1 \in 0 .. Len(sql) /\ (i - 1) + 1 = i
  OBVIOUS
<1>2. /\ m[i - 1].inside \in Places
      /\ m[i - 1].skip /\ m[i - 1].inside = "code" => sql[i] = "/"
  BY <1>1, ModesAre
<1>3. Inside(m[i - 1], i) = "code" /\ ~Skips(m[i - 1], i)
  BY DEF Modes, AtCode
<1> QED
  BY <1>2, <1>3 DEF Inside, Skips, Places, AtCode

\* sql_guardrails.rs takes the separator and then drops it again: the piece is that of
\* commands.rs.
LEMMA CutPiece ==
    ASSUME sql \in Seq(Chars), NEW m, Modes(m), Froms(m),
           NEW i \in 1 .. Len(sql), GuardCut(m[i - 1], i)
    PROVE  GuardPiece(m[i - 1], i) = Trim(m[i - 1].from, i - 1)
<1> DEFINE a == m[i - 1].from
<1>1. /\ a \in 1 .. i /\ i \in Nat /\ i - 1 \in 0 .. Len(sql)
      /\ \A j \in a .. (i - 1) : ~GuardCut(m[j - 1], j)
  <2>1. i - 1 \in 0 .. Len(sql) /\ (i - 1) + 1 = i /\ i \in Nat
    OBVIOUS
  <2> QED
    BY <2>1, FromIs
<1>2. GuardPiece(m[i - 1], i) = TrimEnd(Trim(a, i)[1], Trim(a, i)[2])
  BY DEF GuardPiece
<1> HIDE DEF a
<1>3. a \in 1 .. (i + 1) /\ sql[i] = "sep" /\ AtCode(m[i - 1])
  BY <1>1 DEF GuardCut
<1>4. PICK f \in a .. i : Trim(a, i) = <<f, i>> /\ \A j \in a .. (f - 1) : IsSpace(j)
  <2>1. ~IsSpace(i) /\ i \in a .. i
    BY <1>1, <1>3 DEF IsSpace
  <2>2. PICK f \in a .. i, e \in a .. i :
            /\ Trim(a, i) = <<f, e>>
            /\ \A j \in a .. (f - 1) : IsSpace(j)
            /\ \A j \in (e + 1) .. i : IsSpace(j)
    BY <2>1, <1>1, <1>3, TrimIs
  <2>3. e = i
    <3>1. e < i => i \in (e + 1) .. i
      BY <1>1
    <3> QED
      BY <3>1, <2>1, <2>2, <1>1
  <2> QED
    BY <2>2, <2>3
<1>5. i - 1 \in f .. i => sql[i - 1] # "sep"
  <2> SUFFICES ASSUME i - 1 \in f .. i, sql[i - 1] = "sep" PROVE FALSE
    OBVIOUS
  <2>1. i - 1 \in a .. (i - 1) /\ i - 1 \in 1 .. Len(sql)
    BY <1>1
  <2>2. AtCode(m[(i - 1) - 1])
    BY <2>1, <1>3, BackToCode
  <2> QED
    BY <2>1, <2>2, <1>1 DEF GuardCut
<1>6. TrimEnd(f, i) = Trim(f, i - 1)
  <2> DEFINE S == {k \in f .. i : \A j \in k .. i : sql[j] = "sep"}
  <2>1. i \in S /\ S \in SUBSET Nat
    BY <1>1, <1>3
  <2>2. ASSUME NEW k \in S PROVE i <= k
    <3> SUFFICES ASSUME k < i PROVE FALSE
      BY <1>1
    <3>1. i - 1 \in k .. i /\ i - 1 \in f .. i
      BY <1>1
    <3> QED
      BY <3>1, <1>5
  <2>3. TrimEnd(f, i) = Trim(f, First(S, i + 1) - 1)
    BY DEF TrimEnd
  <2> HIDE DEF S
  <2>4. First(S, i + 1) = i
    BY <2>1, <2>2, FirstAt
  <2> QED
    BY <2>3, <2>4
<1>7. Trim(f, i - 1) = Trim(a, i - 1)
  <2>1. {j \in f .. (i - 1) : ~IsSpace(j)} = {j \in a .. (i - 1) : ~IsSpace(j)}
    <3>1. ASSUME NEW j \in a .. (i - 1), ~IsSpace(j) PROVE j \in f .. (i - 1)
      <4>1. j \in a .. (f - 1) \/ j \in f .. (i - 1)
        BY <1>1
      <4> QED
        BY <4>1, <1>4, <3>1
    <3>2. \A j \in f .. (i - 1) : j \in a .. (i - 1)
      BY <1>1
    <3> QED
      BY <3>1, <3>2
  <2> DEFINE S == {j \in f .. (i - 1) : ~IsSpace(j)}
             R == {j \in a .. (i - 1) : ~IsSpace(j)}
             Of(solid) == IF solid = {} THEN <<1, 0>>
                          ELSE <<First(solid, 0), CHOOSE j \in solid : \A k \in solid : k <= j>>
  <2>2. S = R /\ Trim(f, i - 1) = Of(S) /\ Trim(a, i - 1) = Of(R)
    BY <2>1 DEF Trim
  <2> HIDE DEF S, R, Of
  <2> QED
    BY <2>2
<1>8. Trim(a, i)[1] = f /\ Trim(a, i)[2] = i
  BY <1>4
<1> QED
  BY <1>2, <1>6, <1>7, <1>8 DEF a

\* The splitter of commands.rs finds a piece where such a scan cuts.
LEMMA CoreFollows ==
    ASSUME sql \in Seq(Chars), NEW sp, Splits(sp), NEW m, Modes(m), Froms(m)
    PROVE  /\ sp[Resume(m[0], 0)][m[0].from] = sp[1][1]
           /\ \A i \in 1 .. Len(sql) :
                  sp[Resume(m[i - 1], i - 1)][m[i - 1].from] =
                      IF GuardCut(m[i - 1], i)
                      THEN PieceOf(Trim(m[i - 1].from, i - 1)) \o sp[Resume(m[i], i)][m[i].from]
                      ELSE sp[Resume(m[i], i)][m[i].from]
           /\ sp[Resume(m[Len(sql)], Len(sql))][m[Len(sql)].from] =
                  PieceOf(Trim(m[Len(sql)].from, Len(sql)))
           /\ \A i \in 0 .. Len(sql) : sp[Resume(m[i], i)][m[i].from] \in Seq(Pieces)
<1> DEFINE n == Len(sql)
           R(i) == Resume(m[i], i)
           f(i) == m[i].from
<1>1. n \in Nat /\ n \in 0 .. n
  OBVIOUS
<1>2. \A i \in 0 .. n : f(i) \in 1 .. (n + 1)
  <2>1. ASSUME NEW i \in 0 .. n PROVE f(i) \in 1 .. (n + 1)
    <3>1. f(i) \in 1 .. (i + 1)
      BY FromIs
    <3> HIDE DEF f
    <3> QED
      BY <3>1, <1>1
  <2> QED
    BY <2>1
<1>3. R(0) = 1 /\ f(0) = 1
  BY DEF Modes, Froms, AtCode, Resume
<1>4. ASSUME NEW i \in 1 .. n
      PROVE  sp[R(i - 1)][f(i - 1)] =
                 IF GuardCut(m[i - 1], i) THEN PieceOf(Trim(f(i - 1), i - 1)) \o sp[R(i)][f(i)]
                 ELSE sp[R(i)][f(i)]
  <2>0. i - 1 \in 0 .. n /\ f(i) = IF GuardCut(m[i - 1], i) THEN i + 1 ELSE f(i - 1)
    BY <1>1 DEF Froms
  <2>1. CASE ~AtCode(m[i - 1])
    <3>1. R(i) = R(i - 1)
      BY <2>1, ResumeStep
    <3>2. ~GuardCut(m[i - 1], i)
      BY <2>1 DEF GuardCut
    <3> HIDE DEF R, f
    <3> QED
      BY <3>1, <3>2, <2>0
  <2>2. CASE AtCode(m[i - 1])
    <3>1. R(i) = Skip(i, n)
      BY <2>2, ResumeStep
    <3>2. R(i - 1) = i
      BY <2>2, <1>1 DEF Resume, AtCode
    <3>3. GuardCut(m[i - 1], i) <=> sql[i] = "sep"
      BY <2>2 DEF GuardCut
    <3>4. sql[i] = "sep" => Skip(i, n) = i + 1
      BY DEF Skip, Starts
    <3>5. f(i - 1) \in 1 .. (n + 1)
      BY <1>2, <2>0
    <3> HIDE DEF R, f
    <3>6. sp[i][f(i - 1)] = IF sql[i] = "sep"
                            THEN PieceOf(Trim(f(i - 1), i - 1)) \o sp[i + 1][i + 1]
                            ELSE sp[Skip(i, n)][f(i - 1)]
      BY <3>5 DEF Splits
    <3> QED
      BY <3>1, <3>2, <3>3, <3>4, <3>6, <2>0
  <2> QED
    BY <2>1, <2>2
<1>5. sp[R(n)][f(n)] = PieceOf(Trim(f(n), n))
  <2>1. R(n) = n + 1
    BY ResumeAtEnd
  <2>2. f(n) \in 1 .. (n + 1)
    BY <1>1, <1>2
  <2> HIDE DEF R, f
  <2> QED
    BY <2>1, <2>2 DEF Splits
<1>6. ASSUME NEW i \in 0 .. n PROVE R(i) \in 1 .. (n + 1)
  <2> DEFINE T == {j \in 0 .. n : R(j) \in 1 .. (n + 1)}
  <2>1. 0 \in T
    BY <1>1, <1>3
  <2>2. ASSUME NEW j \in 1 .. n, j - 1 \in T PROVE j \in T
    <3>1. CASE AtCode(m[j - 1])
      <4>1. R(j) = Skip(j, n)
        BY <3>1, ResumeStep
      <4>2. Skip(j, n) \in (j + 1) .. (n + 1)
        BY <1>1, Forward
      <4> HIDE DEF R
      <4> QED
        BY <4>1, <4>2, <1>1
    <3>2. CASE ~AtCode(m[j - 1])
      <4>1. R(j) = R(j - 1)
        BY <3>2, ResumeStep
      <4> HIDE DEF R
      <4> QED
        BY <4>1, <2>2, <1>1
    <3> QED
      BY <3>1, <3>2
  <2> HIDE DEF T, n
  <2>3. \A j \in 0 .. n : j \in T
    BY <2>1, <2>2, <1>1, UpTo
  <2> QED
    BY <2>3 DEF T
<1>7. ASSUME NEW i \in 0 .. n PROVE sp[R(i)][f(i)] \in Seq(Pieces)
  <2> HIDE DEF R, f
  <2> QED
    BY <1>2, <1>6 DEF Splits
<1> QED
  BY <1>3, <1>4, <1>5, <1>7

-------------------------------------------------------------------------------
\* The splitters find the same statements.

\* The scan of sql_guardrails.rs and that of rest.rs are scans of this kind.
LEMMA GuardFollows ==
    ASSUME sql \in Seq(Chars), NEW g \in [0 .. Len(sql) -> States], g[0] = Scan,
           \A i \in 1 .. Len(sql) : g[i] = GuardStep(g[i - 1], i)
    PROVE  /\ Modes(g) /\ Froms(g)
           /\ \A i \in 1 .. Len(sql) :
                  g[i].found = IF GuardCut(g[i - 1], i)
                               THEN GuardPushed(g[i - 1], Trim(g[i - 1].from, i - 1))
                               ELSE g[i - 1].found
<1>1. ASSUME NEW i \in 1 .. Len(sql)
      PROVE  /\ g[i].inside = Inside(g[i - 1], i)
             /\ g[i].skip <=> Skips(g[i - 1], i)
             /\ g[i].from = IF GuardCut(g[i - 1], i) THEN i + 1 ELSE g[i - 1].from
             /\ g[i].found = IF GuardCut(g[i - 1], i)
                             THEN GuardPushed(g[i - 1], GuardPiece(g[i - 1], i))
                             ELSE g[i - 1].found
  <2>1. i - 1 \in 0 .. Len(sql)
    OBVIOUS
  <2>2. g[i - 1] \in States
    BY <2>1
  <2> QED
    BY <2>2, GuardStepIs
<1>2. Modes(g) /\ Froms(g)
  BY <1>1 DEF Modes, Froms, Scan, AtCode
<1> QED
  BY <1>1, <1>2, CutPiece

\* ... the latter where there are no comments.
LEMMA RestFollows ==
    ASSUME sql \in Seq(Chars), NoComments, NEW g \in [0 .. Len(sql) -> RestStates], g[0] = Scan,
           \A i \in 1 .. Len(sql) : g[i] = RestStep(g[i - 1], i)
    PROVE  /\ Modes(g) /\ Froms(g)
           /\ \A i \in 1 .. Len(sql) :
                  g[i].found = IF GuardCut(g[i - 1], i)
                               THEN Pushed(g[i - 1], Trim(g[i - 1].from, i - 1))
                               ELSE g[i - 1].found
<1>1. ASSUME NEW i \in 1 .. Len(sql)
      PROVE  /\ g[i].inside = Inside(g[i - 1], i)
             /\ g[i].skip <=> Skips(g[i - 1], i)
             /\ g[i].from = IF GuardCut(g[i - 1], i) THEN i + 1 ELSE g[i - 1].from
             /\ g[i].found = IF GuardCut(g[i - 1], i)
                             THEN Pushed(g[i - 1], Trim(g[i - 1].from, i - 1))
                             ELSE g[i - 1].found
  <2>1. i - 1 \in 0 .. Len(sql)
    OBVIOUS
  <2>2. g[i - 1] \in RestStates
    BY <2>1
  <2> QED
    BY <2>2, RestStepIs
<1>2. Modes(g) /\ Froms(g)
  BY <1>1 DEF Modes, Froms, Scan, AtCode
<1> QED
  BY <1>1, <1>2

\* The check finds what the engine finds, without the statements that are comments.
LEMMA SameStatements ==
    ASSUME sql \in Seq(Chars)
    PROVE  ToSet(GuardSplit) = Kept(ToSet(CoreSplit))
<1> DEFINE n == Len(sql)
<1>1. n \in Nat /\ n \in 0 .. n
  OBVIOUS
<1>2. PICK g \in [0 .. n -> States] :
          /\ g[0] = Scan
          /\ \A i \in 1 .. n : g[i] = GuardStep(g[i - 1], i)
          /\ Scanned(GuardStep) = g[n]
  BY GuardScan
<1>3. PICK sp : Splits(sp) /\ CoreSplit = sp[1][1]
  BY CoreLaw
<1>4. /\ Modes(g) /\ Froms(g)
      /\ \A i \in 1 .. n : g[i].found = IF GuardCut(g[i - 1], i)
                                        THEN GuardPushed(g[i - 1], Trim(g[i - 1].from, i - 1))
                                        ELSE g[i - 1].found
  BY <1>2, GuardFollows
<1> DEFINE rest(i) == sp[Resume(g[i], i)][g[i].from]
<1>5. /\ rest(0) = sp[1][1]
      /\ \A i \in 1 .. n : rest(i - 1) = IF GuardCut(g[i - 1], i)
                                         THEN PieceOf(Trim(g[i - 1].from, i - 1)) \o rest(i)
                                         ELSE rest(i)
      /\ rest(n) = PieceOf(Trim(g[n].from, n))
      /\ \A i \in 0 .. n : rest(i) \in Seq(Pieces)
  BY <1>3, <1>4, CoreFollows
<1> HIDE DEF rest
<1>6. ASSUME NEW i \in 0 .. n, NEW b \in Nat PROVE Trim(g[i].from, b) \in Pieces
  <2>1. g[i].from \in Nat \ {0}
    BY <1>2 DEF States
  <2> QED
    BY <2>1, TrimTyped
<1> DEFINE P(i) == ToSet(g[i].found) \cup Kept(ToSet(rest(i))) = Kept(ToSet(CoreSplit))
           T == {i \in 0 .. n : P(i)}
<1>7. 0 \in T
  <2>1. ToSet(g[0].found) = {}
    BY <1>2 DEF Scan, ToSet
  <2> QED
    BY <2>1, <1>1, <1>3, <1>5
<1>8. ASSUME NEW i \in 1 .. n, i - 1 \in T PROVE i \in T
  <2>1. P(i - 1) /\ i - 1 \in 0 .. n /\ i \in 0 .. n /\ i - 1 \in Nat
    BY <1>8
  <2>2. CASE ~GuardCut(g[i - 1], i)
    BY <2>1, <2>2, <1>4, <1>5
  <2>3. CASE GuardCut(g[i - 1], i)
    <3> DEFINE s == g[i - 1]
               p == Trim(s.from, i - 1)
               a == PieceOf(p)
               b == rest(i)
    <3>1. s \in States /\ p \in Pieces /\ g[i].found = GuardPushed(s, p) /\ rest(i - 1) = a \o b
      BY <2>1, <2>3, <1>2, <1>4, <1>5, <1>6
    <3>2. a \in Seq(Pieces) /\ b \in Seq(Pieces)
      BY <2>1, <3>1, <1>5 DEF PieceOf
    <3> HIDE DEF s, p, b
    <3>3. ToSet(GuardPushed(s, p)) = ToSet(s.found) \cup Kept(ToSet(a))
      BY <3>1, PushedIs
    <3> HIDE DEF a
    <3>4. ToSet(a \o b) = ToSet(a) \cup ToSet(b)
      BY <3>2, SetJoined
    <3>5. Kept(ToSet(a) \cup ToSet(b)) = Kept(ToSet(a)) \cup Kept(ToSet(b))
      BY DEF Kept
    <3>6. ToSet(s.found) \cup Kept(ToSet(rest(i - 1))) = Kept(ToSet(CoreSplit))
      BY <2>1 DEF s
    <3>7. ToSet(g[i].found) \cup Kept(ToSet(b)) = Kept(ToSet(CoreSplit))
      BY <3>1, <3>3, <3>4, <3>5, <3>6
    <3> QED
      BY <3>7, <2>1 DEF b
  <2> QED
    BY <2>2, <2>3
<1>9. P(n)
  <2> HIDE DEF T, n
  <2>1. \A i \in 0 .. n : i \in T
    BY <1>1, <1>7, <1>8, UpTo
  <2> QED
    BY <2>1, <1>1 DEF T
<1>10. ToSet(GuardSplit) = ToSet(g[n].found) \cup Kept(ToSet(PieceOf(Trim(g[n].from, n))))
  <2>1. GuardSplit = GuardPushed(g[n], Trim(g[n].from, n))
    BY <1>2 DEF GuardSplit
  <2>2. g[n] \in States
    BY <1>1, <1>2
  <2>3. Trim(g[n].from, n) \in Pieces
    BY <1>1, <1>6
  <2> DEFINE s == g[n]
             p == Trim(g[n].from, n)
  <2> HIDE DEF s, p
  <2>4. ToSet(GuardPushed(s, p)) = ToSet(s.found) \cup Kept(ToSet(PieceOf(p)))
    BY <2>2, <2>3, PushedIs DEF s, p
  <2> QED
    BY <2>1, <2>4 DEF s, p
<1> QED
  BY <1>5, <1>9, <1>10

\* Where there are no comments, rest.rs finds what the engine finds.
LEMMA SamePieces ==
    ASSUME sql \in Seq(Chars), NoComments
    PROVE  RestSplit = CoreSplit
<1> DEFINE n == Len(sql)
<1>1. n \in Nat /\ n \in 0 .. n
  OBVIOUS
<1>2. PICK g \in [0 .. n -> RestStates] :
          /\ g[0] = Scan
          /\ \A i \in 1 .. n : g[i] = RestStep(g[i - 1], i)
          /\ Scanned(RestStep) = g[n]
  BY RestScan
<1>3. PICK sp : Splits(sp) /\ CoreSplit = sp[1][1]
  BY CoreLaw
<1>4. /\ Modes(g) /\ Froms(g)
      /\ \A i \in 1 .. n : g[i].found = IF GuardCut(g[i - 1], i)
                                        THEN Pushed(g[i - 1], Trim(g[i - 1].from, i - 1))
                                        ELSE g[i - 1].found
  BY <1>2, RestFollows
<1> DEFINE rest(i) == sp[Resume(g[i], i)][g[i].from]
<1>5. /\ rest(0) = sp[1][1]
      /\ \A i \in 1 .. n : rest(i - 1) = IF GuardCut(g[i - 1], i)
                                         THEN PieceOf(Trim(g[i - 1].from, i - 1)) \o rest(i)
                                         ELSE rest(i)
      /\ rest(n) = PieceOf(Trim(g[n].from, n))
      /\ \A i \in 0 .. n : rest(i) \in Seq(Pieces)
  BY <1>3, <1>4, CoreFollows
<1> HIDE DEF rest
<1>6. ASSUME NEW i \in 0 .. n, NEW b \in Nat
      PROVE  /\ Trim(g[i].from, b) \in Pieces
             /\ Pushed(g[i], Trim(g[i].from, b)) = g[i].found \o PieceOf(Trim(g[i].from, b))
  <2>1. g[i].from \in Nat \ {0} /\ g[i] \in States
    BY <1>2 DEF RestStates, States
  <2>2. Trim(g[i].from, b) \in Pieces
    BY <2>1, TrimTyped
  <2> QED
    BY <2>1, <2>2, PushedIs
<1> DEFINE P(i) == g[i].found \o rest(i) = CoreSplit
           T == {i \in 0 .. n : P(i)}
<1>7. 0 \in T
  <2>1. g[0].found = <<>> /\ rest(0) \in Seq(Pieces)
    BY <1>1, <1>2, <1>5 DEF Scan
  <2>2. <<>> \o rest(0) = rest(0)
    BY <2>1
  <2> QED
    BY <2>1, <2>2, <1>1, <1>3, <1>5
<1>8. ASSUME NEW i \in 1 .. n, i - 1 \in T PROVE i \in T
  <2>0. i - 1 \in 0 .. n /\ i \in 0 .. n /\ i - 1 \in Nat
    OBVIOUS
  <2>1. P(i - 1) /\ i - 1 \in 0 .. n /\ i \in 0 .. n /\ i - 1 \in Nat
    <3> HIDE DEF P
    <3> QED
      BY <2>0, <1>8
  <2>2. CASE ~GuardCut(g[i - 1], i)
    BY <2>1, <2>2, <1>4, <1>5
  <2>3. CASE GuardCut(g[i - 1], i)
    <3> DEFINE s == g[i - 1]
               f == s.found
               a == PieceOf(Trim(s.from, i - 1))
               b == rest(i)
    <3>1. g[i].found = f \o a /\ rest(i - 1) = a \o b
      BY <2>1, <2>3, <1>4, <1>5, <1>6
    <3>2. f \in Seq(Pieces) /\ a \in Seq(Pieces) /\ b \in Seq(Pieces)
      <4>1. f \in Seq(Pieces)
        BY <2>1, <1>2 DEF RestStates, States
      <4>2. Trim(s.from, i - 1) \in Pieces
        BY <2>1, <1>6
      <4> QED
        BY <4>1, <4>2, <2>1, <1>5 DEF PieceOf
    <3>3. f \o rest(i - 1) = CoreSplit
      BY <2>1
    <3> HIDE DEF s, f, a, b
    <3>4. (f \o a) \o b = f \o (a \o b)
      BY ONLY <3>2, ConcatAssociative, SMTT(30)
    <3>5. g[i].found \o b = CoreSplit
      BY <3>1, <3>3, <3>4
    <3> QED
      BY <3>5, <2>1 DEF b
  <2> QED
    BY <2>2, <2>3
<1>9. P(n)
  <2> HIDE DEF T, n
  <2>1. \A i \in 0 .. n : i \in T
    BY <1>1, <1>7, <1>8, UpTo
  <2> QED
    BY <2>1, <1>1 DEF T
<1>10. RestSplit = Pushed(g[n], Trim(g[n].from, n))
  BY <1>2 DEF RestSplit
<1> QED
  BY <1>1, <1>5, <1>6, <1>9, <1>10

-------------------------------------------------------------------------------
\* What is checked is every token but the separators.

Solid(S) == {t \in S : sql[t[1]] # "sep"}

\* Up to the next separator in code no token is one.
LEMMA SolidPiece ==
    ASSUME sql \in Seq(Chars), NEW m, Modes(m), Froms(m), NEW i \in 0 .. Len(sql),
           NEW S \in SUBSET LexSql(m[i].from, Len(sql)), \A t \in S : t[1] \in m[i].from .. i
    PROVE  Solid(S) = S
<1>1. /\ m[i].from \in 1 .. (i + 1) /\ AtCode(m[m[i].from - 1])
      /\ \A j \in m[i].from .. i : ~GuardCut(m[j - 1], j)
  BY FromIs
<1>2. m[i].from \in 1 .. (Len(sql) + 1)
  BY <1>1
<1>3. \A t \in S : AtCode(m[t[1] - 1])
  BY <1>1, <1>2, TokensAtCode
<1> QED
  BY <1>1, <1>3 DEF Solid, GuardCut

\* The pieces that sql_guardrails.rs checks hold the lexer's tokens but the separators.
LEMMA SameTokens ==
    ASSUME sql \in Seq(Chars)
    PROVE  Lexed(ToSet(GuardSplit)) = Solid(LexSql(1, Len(sql)))
<1> DEFINE n == Len(sql)
           whole == LexSql(1, n)
<1>1. n \in Nat /\ n \in 0 .. n
  OBVIOUS
<1>2. PICK g \in [0 .. n -> States] :
          /\ g[0] = Scan
          /\ \A i \in 1 .. n : g[i] = GuardStep(g[i - 1], i)
          /\ Scanned(GuardStep) = g[n]
  BY GuardScan
<1>3. /\ Modes(g) /\ Froms(g)
      /\ \A i \in 1 .. n : g[i].found = IF GuardCut(g[i - 1], i)
                                        THEN GuardPushed(g[i - 1], Trim(g[i - 1].from, i - 1))
                                        ELSE g[i - 1].found
  BY <1>2, GuardFollows
<1>4. \A i \in 0 .. n : g[i].from \in 1 .. (i + 1) /\ AtCode(g[g[i].from - 1])
  BY <1>3, FromIs
<1> DEFINE P(i) == Lexed(ToSet(g[i].found)) \cup Solid(LexSql(g[i].from, n)) = Solid(whole)
           T == {i \in 0 .. n : P(i)}
<1>5. 0 \in T
  <2>1. ToSet(g[0].found) = {} /\ g[0].from = 1
    BY <1>2 DEF Scan, ToSet
  <2>2. Lexed({}) = {}
    BY DEF Lexed
  <2> QED
    BY <2>1, <2>2, <1>1
<1>6. ASSUME NEW i \in 1 .. n, i - 1 \in T PROVE i \in T
  <2>0. i - 1 \in 0 .. n /\ i \in 0 .. n /\ i - 1 \in Nat
    OBVIOUS
  <2>1. P(i - 1)
    BY <1>6
  <2>2. CASE ~GuardCut(g[i - 1], i)
    <3>1. g[i].found = g[i - 1].found /\ g[i].from = g[i - 1].from
      BY <2>2, <1>3 DEF Froms
    <3> QED
      BY <3>1, <2>0, <2>1
  <2>3. CASE GuardCut(g[i - 1], i)
    <3> DEFINE s == g[i - 1]
               f == s.from
               piece == LexSql(f, i - 1)
    <3>1. /\ AtCode(s) /\ sql[i] = "sep"
          /\ g[i].found = GuardPushed(s, Trim(f, i - 1)) /\ g[i].from = i + 1
      BY <2>3, <1>3 DEF Froms, GuardCut
    <3>2. f \in 1 .. ((i - 1) + 1) /\ AtCode(g[f - 1]) /\ f \in 1 .. i
      <4>1. f \in 1 .. ((i - 1) + 1) /\ AtCode(g[f - 1])
        BY <2>0, <1>4
      <4> HIDE DEF f
      <4> QED
        BY <4>1, <2>0
    <3>3. LexSql(f, n) = piece \cup LexSql(i, n)
      <4>1. Modes(g) /\ AtCode(g[i - 1]) /\ sql[i] = "sep" /\ f \in 1 .. i /\ AtCode(g[f - 1])
        BY <3>1, <3>2, <1>3
      <4> HIDE DEF f
      <4> QED
        BY ONLY <4>1, i \in 1 .. Len(sql), sql \in Seq(Chars), PieceOfWhole
    <3>4. LexSql(i, n) = {<<i, i>>} \cup LexSql(i + 1, n)
      <4>1. Token(i, n) = {<<i, i>>} /\ Jump(i, n) = i + 1
        BY <3>1 DEF Token, Jump, Skip, Comment, Starts
      <4>2. LexSql(i, n) = Token(i, n) \cup LexSql(Jump(i, n), n)
        BY <1>1, LexLaw
      <4> QED
        BY <4>1, <4>2
    <3>5. Solid(piece) = piece
      <4>1. \A t \in piece : t[1] \in f .. (i - 1)
        <5> HIDE DEF f
        <5> QED
          BY <2>0, <3>2, TokensWithin
      <4>2. piece \in SUBSET LexSql(g[i - 1].from, n)
        BY <3>3
      <4> HIDE DEF piece
      <4> QED
        BY <4>1, <4>2, <2>0, <1>3, SolidPiece
    <3>6. Lexed(ToSet(g[i].found)) = Lexed(ToSet(s.found)) \cup piece
      <4>1. s \in States
        BY <2>0, <1>2
      <4> HIDE DEF s, f
      <4>2. Lexed(ToSet(GuardPushed(s, Trim(f, i - 1)))) = Lexed(ToSet(s.found)) \cup LexSql(f, i - 1)
        BY <4>1, <3>2, <2>0, LexPushed
      <4> QED
        BY <4>2, <3>1
    <3> DEFINE tail == LexSql(i + 1, n)
               sofar == Lexed(ToSet(s.found))
    <3>7. sofar \cup Solid(LexSql(f, n)) = Solid(whole)
      BY <2>1
    <3>8. Lexed(ToSet(g[i].found)) = sofar \cup piece /\ LexSql(g[i].from, n) = tail
      BY <3>1, <3>6
    <3>9. LexSql(f, n) = piece \cup ({<<i, i>>} \cup tail)
      BY <3>3, <3>4
    <3> HIDE DEF piece, tail, sofar, s, f, whole
    <3>10. Solid(piece \cup ({<<i, i>>} \cup tail)) = Solid(piece) \cup Solid(tail)
      BY <3>1 DEF Solid
    <3>11. P(i)
      BY <3>5, <3>7, <3>8, <3>9, <3>10
    <3> HIDE DEF P
    <3> QED
      BY <3>11, <2>0
  <2> QED
    BY <2>2, <2>3
<1>7. P(n)
  <2> HIDE DEF T, n
  <2>1. \A i \in 0 .. n : i \in T
    BY <1>1, <1>5, <1>6, UpTo
  <2> QED
    BY <2>1, <1>1 DEF T
<1>8. GuardSplit = GuardPushed(g[n], Trim(g[n].from, n)) /\ g[n] \in States
  BY <1>1, <1>2 DEF GuardSplit
<1> DEFINE s == g[n]
           f == s.from
<1>9. f \in 1 .. (n + 1)
  BY <1>1, <1>4
<1>10. Lexed(ToSet(GuardSplit)) = Lexed(ToSet(s.found)) \cup LexSql(f, n)
  <2> HIDE DEF s, f, n
  <2>1. Lexed(ToSet(GuardPushed(s, Trim(f, n)))) = Lexed(ToSet(s.found)) \cup LexSql(f, n)
    BY <1>8, <1>9, <1>1, LexPushed DEF s
  <2> QED
    BY <2>1, <1>8 DEF f, s
<1>11. Solid(LexSql(f, n)) = LexSql(f, n)
  <2>1. \A t \in LexSql(f, n) : t[1] \in f .. n
    <3> HIDE DEF f, n
    <3> QED
      BY <1>1, <1>9, TokensWithin
  <2> DEFINE S == LexSql(g[n].from, n)
  <2>2. S \in SUBSET LexSql(g[n].from, n) /\ \A t \in S : t[1] \in g[n].from .. n
    BY <2>1
  <2> HIDE DEF S
  <2>3. Solid(S) = S
    BY <2>2, <1>1, <1>3, SolidPiece
  <2> QED
    BY <2>3 DEF S
<1> QED
  BY <1>7, <1>10, <1>11

-------------------------------------------------------------------------------
\* The words that the export looks at are the lexer's.

Worded(S) == {t \in S : sql[t[1]] = "word"}

\* A word and what follows it.
LEMMA WordRun ==
    ASSUME NEW n \in Nat, NEW i \in 1 .. (n + 1), NEW f \in 1 .. (i - 1),
           \A j \in f .. (i - 1) : sql[j] = "word", i <= n => sql[i] # "word"
    PROVE  LexSql(f, n) = {<<f, i - 1>>} \cup LexSql(i, n)
<1> DEFINE S == {j \in f .. n : sql[j] # "word"}
<1>1. S \in SUBSET Nat /\ f \in 1 .. n /\ sql[f] = "word"
  OBVIOUS
<1>2. AfterWord(f, n) = First(S, n + 1)
  BY DEF AfterWord
<1>3. First(S, n + 1) = i
  <2>1. CASE i <= n
    <3>1. i \in S
      BY <2>1
    <3>2. ASSUME NEW j \in S PROVE i <= j
      <4>1. j \in f .. (i - 1) \/ i <= j
        OBVIOUS
      <4> QED
        BY <4>1
    <3> HIDE DEF S
    <3> QED
      BY <3>1, <3>2, <1>1, FirstAt
  <2>2. CASE i = n + 1
    <3>1. S = {}
      BY <2>2
    <3> QED
      BY <3>1, <2>2 DEF First
  <2> QED
    BY <2>1, <2>2
<1>4. LexSql(f, n) = Token(f, n) \cup LexSql(Jump(f, n), n)
  BY <1>1, LexLaw
<1> QED
  BY <1>1, <1>2, <1>3, <1>4 DEF Token, Jump

\* sql_keywords_outside_literals finds the lexer's words.
LEMMA SameKeywords ==
    ASSUME sql \in Seq(Chars)
    PROVE  ToSet(KeywordsOutsideLiterals) = Worded(LexSql(1, Len(sql)))
<1> DEFINE n == Len(sql)
           whole == LexSql(1, n)
<1>1. n \in Nat /\ n \in 0 .. n
  OBVIOUS
<1>2. PICK g \in [0 .. n -> States] :
          /\ g[0] = Scan
          /\ \A i \in 1 .. n : g[i] = KeywordStep(g[i - 1], i)
          /\ Scanned(KeywordStep) = g[n]
  BY KeywordScan
<1>3. ASSUME NEW i \in 1 .. n
      PROVE  /\ g[i].inside = Inside(g[i - 1], i)
             /\ g[i].skip <=> Skips(g[i - 1], i)
             /\ g[i].from = IF AtCode(g[i - 1]) /\ sql[i] = "word" THEN g[i - 1].from ELSE i + 1
             /\ g[i].found = IF AtCode(g[i - 1]) /\ sql[i] # "word" THEN Ended(g[i - 1], i)
                             ELSE g[i - 1].found
  <2>1. i - 1 \in 0 .. n
    OBVIOUS
  <2>2. g[i - 1] \in States
    BY <2>1, <1>2
  <2> QED
    BY <2>2, <1>2, KeywordStepIs
<1>4. Modes(g)
  BY <1>2, <1>3 DEF Modes, Scan, AtCode
<1>5. \A i \in 0 .. n : g[i].found \in Seq(Pieces)
  BY <1>2 DEF States
<1> DEFINE A(i) == IF AtCode(g[i]) THEN g[i].from ELSE Resume(g[i], i)
           Q(i) == /\ g[i].from \in 1 .. (i + 1)
                   /\ \A j \in g[i].from .. i : sql[j] = "word"
                   /\ ~AtCode(g[i]) => g[i].from = i + 1
           P(i) == ToSet(g[i].found) \cup Worded(LexSql(A(i), n)) = Worded(whole)
           T == {i \in 0 .. n : P(i) /\ Q(i)}
<1>6. 0 \in T
  <2>1. /\ ToSet(g[0].found) = {} /\ g[0].from = 1 /\ AtCode(g[0])
    BY <1>2 DEF Scan, ToSet, AtCode
  <2> QED
    BY <2>1, <1>1
<1>7. ASSUME NEW i \in 1 .. n, i - 1 \in T PROVE i \in T
  <2> DEFINE s == g[i - 1]
             f == s.from
  <2>0. i - 1 \in 0 .. n /\ i \in 0 .. n /\ i - 1 \in Nat /\ (i - 1) + 1 = i /\ i \in Nat
    OBVIOUS
  <2>1. P(i - 1) /\ Q(i - 1)
    BY <1>7
  <2>2. CASE ~AtCode(s)
    <3>1. g[i].from = i + 1 /\ g[i].found = s.found
      BY <2>2, <1>3
    <3>2. Resume(g[i], i) = Resume(s, i - 1)
      BY <2>2, <1>4, ResumeStep
    <3>3. AtCode(g[i]) => Resume(g[i], i) = i + 1
      BY DEF AtCode, Resume
    <3>4. A(i) = A(i - 1)
      BY <3>1, <3>2, <3>3, <2>2
    <3>5. P(i)
      BY <3>1, <3>4, <2>1
    <3>6. Q(i)
      BY <3>1, <2>0
    <3> HIDE DEF P, Q
    <3> QED
      BY <3>5, <3>6, <2>0
  <2>3. CASE AtCode(s) /\ sql[i] = "word"
    <3>1. g[i].from = f /\ g[i].found = s.found
      BY <2>3, <1>3
    <3>2. AtCode(g[i])
      <4>1. Inside(s, i) = "code" /\ ~Skips(s, i)
        BY <2>3 DEF AtCode, Inside, Skips, Comment, Starts
      <4> QED
        BY <4>1, <1>3 DEF AtCode
    <3>3. A(i) = A(i - 1)
      BY <3>1, <3>2, <2>3
    <3>4. P(i)
      BY <3>1, <3>3, <2>1
    <3>5. f \in 1 .. ((i - 1) + 1) /\ \A j \in f .. (i - 1) : sql[j] = "word"
      BY <2>1
    <3> HIDE DEF f
    <3>6. \A j \in f .. i : j = i \/ j \in f .. (i - 1)
      BY <3>5, <2>0
    <3>7. Q(i)
      BY <3>1, <3>2, <3>5, <3>6, <2>0, <2>3
    <3> HIDE DEF P, Q
    <3> QED
      BY <3>4, <3>7, <2>0
  <2>4. CASE AtCode(s) /\ sql[i] # "word"
    <3>1. g[i].from = i + 1 /\ g[i].found = Ended(s, i) /\ A(i - 1) = f
      BY <2>4, <1>3
    <3>2. A(i) = Jump(i, n)
      <4>1. Resume(g[i], i) = Skip(i, n)
        BY <2>4, <1>4, ResumeStep
      <4>2. AtCode(g[i]) => Resume(g[i], i) = i + 1
        BY DEF AtCode, Resume
      <4> QED
        BY <4>1, <4>2, <3>1, <2>4 DEF Jump
    <3>3. Worded(LexSql(i, n)) = Worded(LexSql(Jump(i, n), n))
      <4>1. LexSql(i, n) = Token(i, n) \cup LexSql(Jump(i, n), n)
        BY <1>1, LexLaw
      <4>2. \A t \in Token(i, n) : t[1] = i
        BY DEF Token
      <4> QED
        BY <4>1, <4>2, <2>4 DEF Worded
    <3>4. f \in 1 .. i /\ \A j \in f .. (i - 1) : sql[j] = "word"
      BY <2>0, <2>1
    <3>5. ToSet(Ended(s, i)) \cup Worded(LexSql(i, n)) = ToSet(s.found) \cup Worded(LexSql(f, n))
      <4>1. CASE f < i
        <5>0. f \in 1 .. (i - 1) /\ i \in 1 .. (n + 1)
          BY <3>4, <4>1, <1>1
        <5> HIDE DEF f, n
        <5>1. LexSql(f, n) = {<<f, i - 1>>} \cup LexSql(i, n)
          BY <5>0, <3>4, <2>4, <1>1, WordRun
        <5>2. <<f, i - 1>> \in Pieces /\ s.found \in Seq(Pieces)
          BY <5>0, <2>0, <1>5 DEF Pieces, n
        <5>3. Ended(s, i) = Append(s.found, <<f, i - 1>>)
          BY <4>1 DEF Ended, f
        <5> DEFINE p == <<f, i - 1>>
        <5>4. sql[p[1]] = "word"
          BY <5>0, <3>4
        <5> HIDE DEF p, s
        <5>5. ToSet(Append(s.found, p)) = ToSet(s.found) \cup {p}
          BY <5>2, SetAppended DEF p
        <5>6. LexSql(f, n) = {p} \cup LexSql(i, n)
          BY <5>1 DEF p
        <5>7. Worded({p} \cup LexSql(i, n)) = {p} \cup Worded(LexSql(i, n))
          BY <5>4 DEF Worded
        <5> QED
          BY <5>3, <5>5, <5>6, <5>7 DEF p
      <4>2. CASE f = i
        <5>1. Ended(s, i) = s.found
          BY <4>2, <2>0 DEF Ended
        <5> QED
          BY <4>2, <5>1
      <4> QED
        BY <3>4, <4>1, <4>2
    <3>6. ToSet(s.found) \cup Worded(LexSql(f, n)) = Worded(whole)
      BY <2>1, <3>1
    <3>7. P(i)
      <4> HIDE DEF A, s, f, whole, n
      <4> QED
        BY <3>1, <3>2, <3>3, <3>5, <3>6
    <3>8. Q(i)
      BY <3>1, <2>0
    <3> HIDE DEF P, Q
    <3> QED
      BY <3>7, <3>8, <2>0
  <2> QED
    BY <2>2, <2>3, <2>4
<1>8. P(n) /\ Q(n)
  <2> HIDE DEF T, n
  <2>1. \A i \in 0 .. n : i \in T
    BY <1>1, <1>6, <1>7, UpTo
  <2> QED
    BY <2>1, <1>1 DEF T
<1> DEFINE s == g[n]
           f == s.from
<1>9. KeywordsOutsideLiterals = IF f <= n THEN Append(s.found, <<f, n>>) ELSE s.found
  BY <1>2 DEF KeywordsOutsideLiterals
<1>10. LexSql(n + 1, n) = {}
  BY <1>1, LexLaw
<1>11. CASE f <= n
  <2>1. A(n) = f /\ f \in 1 .. n /\ \A j \in f .. n : sql[j] = "word"
    BY <1>1, <1>8, <1>11
  <2>2. n + 1 \in 1 .. (n + 1) /\ f \in 1 .. ((n + 1) - 1) /\ (n + 1) - 1 = n /\ ~(n + 1 <= n)
    BY <1>1, <2>1
  <2> DEFINE p == <<f, n>>
  <2>3. ToSet(s.found) \cup Worded(LexSql(f, n)) = Worded(whole)
    BY <1>8, <2>1
  <2> HIDE DEF f, n, s
  <2> DEFINE e == n + 1
  <2>4. e \in 1 .. (n + 1) /\ f \in 1 .. (e - 1) /\ (\A j \in f .. (e - 1) : sql[j] = "word")
        /\ (e <= n => sql[e] # "word") /\ e - 1 = n
    BY <2>1, <2>2
  <2> HIDE DEF e
  <2>5. LexSql(f, n) = {<<f, e - 1>>} \cup LexSql(e, n)
    BY <2>4, <1>1, WordRun
  <2>6. LexSql(f, n) = {p}
    BY <2>4, <2>5, <1>10 DEF e
  <2>7. s.found \in Seq(Pieces) /\ p \in Pieces
    BY <1>1, <1>5, <2>1 DEF s, Pieces
  <2>8. sql[p[1]] = "word"
    BY <2>1
  <2> HIDE DEF p
  <2>9. ToSet(Append(s.found, p)) = ToSet(s.found) \cup {p}
    BY <2>7, SetAppended
  <2>10. Worded({p}) = {p}
    BY <2>8 DEF Worded
  <2> QED
    BY <1>9, <1>11, <2>3, <2>6, <2>9, <2>10 DEF p, n
<1>12. CASE ~(f <= n)
  <2>1. f = n + 1
    BY <1>1, <1>8, <1>12
  <2>2. A(n) = n + 1
    <3>1. Resume(g[n], n) = n + 1
      BY <1>4, ResumeAtEnd
    <3> QED
      BY <3>1, <2>1
  <2>3. Worded({}) = {}
    BY DEF Worded
  <2> QED
    BY <2>2, <2>3, <1>8, <1>9, <1>10, <1>12
<1> QED
  BY <1>11, <1>12

-------------------------------------------------------------------------------
\* CREATE TABLE AS: what each reader takes for the table and for the query.

Statement == items \in Seq(Items \cup {"CREATE"})

\* The next position of a set.
LEMMA AfterIs ==
    ASSUME NEW S \in SUBSET Nat, NEW i \in Nat, NEW j \in S, j > i, \A k \in S : k > i => j <= k
    PROVE  After(S, i) = j
<1> DEFINE R == {k \in S : k > i}
<1>1. R \in SUBSET Nat /\ j \in R /\ \A k \in R : j <= k
  OBVIOUS
<1> HIDE DEF R
<1>2. First(R, Len(items) + 1) = j
  BY <1>1, FirstAt
<1> QED
  BY <1>2 DEF After, R

\* Three positions in a row, and none before them, are the first three.
LEMMA FirstThree ==
    ASSUME NEW S \in SUBSET Nat, NEW i \in Nat \ {0}, i \in S, i + 1 \in S, i + 2 \in S,
           \A k \in S : i <= k
    PROVE  After(S, 0) = i /\ Second(S) = i + 1 /\ Third(S) = i + 2
<1>1. After(S, 0) = i
  <2>1. i > 0 /\ 0 \in Nat /\ \A k \in S : k > 0 => i <= k
    OBVIOUS
  <2> QED
    BY ONLY <2>1, i \in S, S \in SUBSET Nat, AfterIs
<1>2. After(S, i) = i + 1
  <2> DEFINE j == i + 1
  <2>1. i \in Nat /\ j \in S /\ j > i /\ \A k \in S : k > i => j <= k
    OBVIOUS
  <2> HIDE DEF j
  <2>2. After(S, i) = j
    BY ONLY <2>1, S \in SUBSET Nat, AfterIs
  <2> QED
    BY <2>2 DEF j
<1>3. After(S, i + 1) = i + 2
  <2> DEFINE j == i + 2
             l == i + 1
  <2>1. l \in Nat /\ j \in S /\ j > l /\ \A k \in S : k > l => j <= k
    OBVIOUS
  <2> HIDE DEF j, l
  <2>2. After(S, l) = j
    BY ONLY <2>1, S \in SUBSET Nat, AfterIs
  <2> QED
    BY <2>2 DEF j, l
<1> QED
  BY <1>1, <1>2, <1>3 DEF Second, Third

\* The table that the engine writes, and the query it fills it with, are those that
\* sql_guardrails.rs looks at.
LEMMA SameTable ==
    ASSUME Statement, CoreCreates
    PROVE  GuardTarget = CoreHeader /\ GuardQuery = CoreAs + 1
<1> DEFINE n == Len(items)
           h == CoreHeader
           i == Stripped(1)
           S == {k \in 1 .. n : items[k] \notin Comments}
           R == {k \in h .. n : items[k] \in {"AS", "note as"}}
<1>1. n \in Nat /\ DOMAIN items = 1 .. n
  BY DEF Statement
<1>2. /\ i < n /\ items[i] = "CREATE" /\ items[i + 1] = "TABLE" /\ h = i + 2
      /\ CoreAs = h + 1 /\ CoreAs # 0 /\ items[h + 1] = "AS"
      /\ items[h] \in Names \cup {"TABLE"}
  <2>1. h # 0 /\ CoreAs # 0 /\ CoreAs = h + 1 /\ items[CoreAs] = "AS"
        /\ items[h] \in Names \cup {"TABLE"}
    BY DEF CoreCreates
  <2>2. i < n /\ <<items[i], items[i + 1]>> = <<"CREATE", "TABLE">> /\ h = i + 2
    BY <2>1 DEF CoreHeader
  <2> HIDE DEF h, i
  <2> QED
    BY <2>1, <2>2
<1>3. i = First(S, n + 1)
  BY DEF Stripped
<1>4. CoreAs = First(R, 0)
  BY DEF CoreAs
<1>5. S \in SUBSET Nat
  OBVIOUS
<1> HIDE DEF h, i, S, R
<1>6. i \in S /\ \A k \in S : i <= k
  <2>1. S # {}
    BY <1>1, <1>2, <1>3, <1>5, FirstIs
  <2> QED
    BY <2>1, <1>3, <1>5, FirstIs
<1>7. i \in 1 .. n /\ i \in Nat /\ i > 0
  BY <1>6, <1>1 DEF S
<1>8. R \in SUBSET Nat /\ h + 1 \in R /\ \A k \in R : h + 1 <= k
  <2>1. R \in SUBSET Nat
    <3> HIDE DEF n
    <3>1. h \in Nat
      BY <1>2, <1>7
    <3>2. h .. n \in SUBSET Nat
      BY <3>1, <1>1
    <3> QED
      BY <3>2 DEF R
  <2>2. R # {}
    BY <2>1, <1>2, <1>4, FirstIs
  <2>3. First(R, 0) \in R /\ \A k \in R : First(R, 0) <= k
    BY <2>1, <2>2, FirstIs
  <2> QED
    BY <2>1, <2>3, <1>2, <1>4
<1>9. h + 1 \in 1 .. n /\ h \in 1 .. n /\ i + 1 \in 1 .. n /\ items[h] # "AS"
  <2>1. h + 1 \in h .. n
    BY <1>8 DEF R
  <2>2. h \notin R
    BY <1>8, <1>2, <1>7
  <2>3. h \in h .. n
    BY <2>1, <1>2, <1>7
  <2>4. items[h] # "AS"
    BY <2>2, <2>3 DEF R
  <2> QED
    BY <2>1, <2>4, <1>1, <1>2, <1>7
<1>10. /\ Tokens \in SUBSET Nat /\ i \in Tokens /\ i + 1 \in Tokens /\ i + 2 \in Tokens
       /\ \A k \in Tokens : i <= k
  <2>1. i \in Tokens /\ i + 1 \in Tokens /\ i + 2 \in Tokens
    BY <1>1, <1>2, <1>7, <1>9 DEF Tokens, Comments, Literals, Names
  <2>2. Tokens \subseteq S
    BY <1>1 DEF Tokens, S
  <2> QED
    BY <2>1, <2>2, <1>5, <1>6
<1>11. GuardTarget = h
  <2>1. Third(Tokens) = i + 2
    BY <1>7, <1>10, FirstThree
  <2> QED
    BY <2>1, <1>2, <1>10 DEF GuardTarget
<1>12. GuardQuery = CoreAs + 1
  <2> DEFINE W == {k \in Words : items[k] = "AS"}
  <2>1. W \in SUBSET Nat
    BY <1>10 DEF Words
  <2>2. h + 1 \in W
    BY <1>1, <1>2, <1>9 DEF Words, Tokens, IsWord, Names, Comments, Literals
  <2>3. ASSUME NEW k \in W PROVE h + 1 <= k
    <3>1. k \in Tokens /\ items[k] = "AS" /\ k \in 1 .. n
      BY <1>1 DEF Words, Tokens
    <3>2. i <= k
      BY <3>1, <1>10
    <3>3. k # i /\ k # i + 1 /\ k # h
      BY <3>1, <1>2, <1>9
    <3> QED
      BY <3>1, <3>2, <3>3, <1>2, <1>7
  <2> HIDE DEF W
  <2>4. First(W, -1) = h + 1
    BY <2>1, <2>2, <2>3, FirstAt
  <2> QED
    BY <2>4, <1>2 DEF GuardQuery, W
<1> QED
  BY <1>11, <1>12 DEF h

\* What rest.rs takes, sql_guardrails.rs takes, and the engine sees it the same way.
LEMMA SameAnswer ==
    ASSUME Statement, RestAccepts
    PROVE  GuardAccepts /\ RestTarget = CoreHeader /\ RestAs = CoreAs
<1> DEFINE n == Len(items)
           r == RestAs
           k == RestKeyword(r + 1)
           R == {j \in DOMAIN items : items[j] \in {"AS", "note as"}}
           K == {j \in (r + 1) .. n : items[j] # "("}
<1>1. n \in Nat /\ DOMAIN items = 1 .. n
  BY DEF Statement
<1>2. /\ RestTarget = 3 /\ n >= 3 /\ SubSeq(items, 1, 2) = <<"CREATE", "TABLE">>
      /\ items[3] \in Names \cup {"TABLE"}
      /\ r # 0 /\ items[r] = "AS" /\ k # 0 /\ items[k] = "SELECT"
  BY DEF RestAccepts, RestTarget
<1>3. items[1] = "CREATE" /\ items[2] = "TABLE"
  <2>1. SubSeq(items, 1, 2)[1] = items[1] /\ SubSeq(items, 1, 2)[2] = items[2]
    BY <1>1, <1>2 DEF Statement
  <2>2. <<"CREATE", "TABLE">>[1] = "CREATE" /\ <<"CREATE", "TABLE">>[2] = "TABLE"
    OBVIOUS
  <2>3. SubSeq(items, 1, 2) = <<"CREATE", "TABLE">>
    BY <1>2
  <2> QED
    BY ONLY <2>1, <2>2, <2>3
<1>4. r = First(R, 0) /\ k = First(K, 0)
  BY DEF RestAs, RestKeyword
<1>5. R \in SUBSET Nat /\ R = {j \in 1 .. n : items[j] \in {"AS", "note as"}}
  <2> HIDE DEF n
  <2> DEFINE D == DOMAIN items
  <2>1. D = 1 .. n /\ D \in SUBSET Nat
    BY <1>1
  <2>2. R = {j \in D : items[j] \in {"AS", "note as"}}
    OBVIOUS
  <2> HIDE DEF D, R
  <2> QED
    BY <2>1, <2>2
<1> HIDE DEF r, k, R, K, n
<1>6. r \in R /\ \A j \in R : r <= j
  <2>1. R # {}
    BY <1>2, <1>4, <1>5, FirstIs
  <2> QED
    BY <2>1, <1>4, <1>5, FirstIs
<1>7. r \in 1 .. n /\ r \in Nat
  BY <1>5, <1>6, <1>1
<1>8. k \in K /\ \A j \in K : k <= j
  <2>1. K \in SUBSET Nat
    BY <1>7 DEF K
  <2>2. K # {}
    BY <2>1, <1>2, <1>4, FirstIs
  <2> QED
    BY <2>1, <2>2, <1>4, FirstIs
<1>9. 1 \in DOMAIN items /\ 2 \in DOMAIN items /\ 3 \in DOMAIN items
  BY <1>1, <1>2
<1>10. /\ Tokens \in SUBSET Nat /\ 1 \in Tokens /\ 2 \in Tokens /\ 3 \in Tokens
       /\ \A j \in Tokens : 1 <= j
  <2>1. Tokens \in SUBSET (1 .. n)
    BY <1>1 DEF Tokens
  <2>2. 1 \in Tokens /\ 2 \in Tokens /\ 3 \in Tokens
    BY <1>2, <1>3, <1>9 DEF Tokens, Comments, Literals, Names
  <2> QED
    BY <2>1, <2>2
<1>11. /\ Words \in SUBSET Nat /\ 1 \in Words /\ 2 \in Words /\ 3 \in Words
       /\ \A j \in Words : 1 <= j
  BY <1>2, <1>3, <1>10 DEF Words, IsWord
<1>12. After(Tokens, 0) = 1 /\ Second(Tokens) = 2 /\ Third(Tokens) = 3
  BY <1>10, FirstThree
<1>13. After(Words, 0) = 1 /\ Second(Words) = 2 /\ Third(Words) = 3
  BY <1>11, FirstThree
<1>14. GuardTarget = 3
  BY <1>10, <1>12 DEF GuardTarget
<1>15. GuardQuery = r + 1
  <2> DEFINE W == {j \in Words : items[j] = "AS"}
  <2>1. W \in SUBSET Nat /\ W \subseteq R
    BY <1>11 DEF Words, Tokens, R
  <2>2. r \in W
    BY <1>1, <1>2, <1>7 DEF Words, Tokens, IsWord, Names, Comments, Literals
  <2>3. \A j \in W : r <= j
    BY <2>1, <1>6
  <2> HIDE DEF W
  <2>4. First(W, -1) = r
    BY <2>1, <2>2, <2>3, FirstAt
  <2> QED
    BY <2>4 DEF GuardQuery, W
<1>16. GuardKeyword(r + 1) = k
  <2> DEFINE W == {j \in (r + 1) .. n : IsWord(j)}
  <2>1. W \in SUBSET Nat /\ W \subseteq K
    BY <1>7 DEF IsWord, Names, K
  <2>2. k \in W
    BY <1>2, <1>8 DEF IsWord, Names, K
  <2>3. \A j \in W : k <= j
    BY <2>1, <1>8
  <2> HIDE DEF W
  <2>4. First(W, 0) = k
    BY <2>1, <2>2, <2>3, FirstAt
  <2> QED
    BY <2>4 DEF GuardKeyword, W, n
<1>17. GuardAccepts
  BY <1>2, <1>3, <1>7, <1>11, <1>12, <1>13, <1>14, <1>15, <1>16 DEF GuardAccepts
<1>18. CoreHeader = 3
  <2> DEFINE S == {j \in 1 .. n : items[j] \notin Comments}
  <2>1. S \in SUBSET Nat /\ 1 \in S /\ \A j \in S : 1 <= j
    <3>1. 1 \in 1 .. n
      BY <1>1, <1>2
    <3> QED
      <4>1. 1 \in S
        BY <3>1, <1>3 DEF Comments
      <4>2. S \in SUBSET (1 .. n)
        OBVIOUS
      <4> HIDE DEF S
      <4> QED
        BY <4>1, <4>2, <1>1
  <2> HIDE DEF S
  <2>2. First(S, n + 1) = 1
    BY <2>1, FirstAt
  <2>3. Stripped(1) = 1
    BY <2>2 DEF Stripped, S, n
  <2> QED
    BY <2>3, <1>2, <1>3 DEF CoreHeader, n
<1>19. CoreAs = r
  <2> DEFINE S == {j \in 3 .. n : items[j] \in {"AS", "note as"}}
  <2>1. S \in SUBSET Nat /\ S \subseteq R
    <3>1. 3 .. n \in SUBSET Nat /\ 3 .. n \in SUBSET (1 .. n)
      BY <1>1
    <3> QED
      BY <3>1, <1>5
  <2>2. r \in S
    <3>1. r # 1 /\ r # 2
      BY <1>2, <1>3
    <3>2. r \in 3 .. n
      BY <3>1, <1>7, <1>1
    <3> QED
      BY <3>2, <1>2
  <2>3. \A j \in S : r <= j
    BY <2>1, <1>6
  <2> HIDE DEF S
  <2>4. First(S, 0) = r
    BY <2>1, <2>2, <2>3, FirstAt
  <2> QED
    BY <2>4, <1>18 DEF CoreAs, S, n
<1> QED
  BY <1>2, <1>17, <1>18, <1>19 DEF r

-------------------------------------------------------------------------------
\* The checked statement is the statement that runs, for texts and statements of
\* every length.

Readable == sql \in Seq(Chars) /\ Statement

\* A text and a statement that can be read are read alike.
LEMMA ReadAlike == ASSUME Readable PROVE CheckedIsRun
<1> DEFINE n == Len(sql)
           whole == LexSql(1, n)
           guard == ToSet(GuardSplit)
<1>1. sql \in Seq(Chars) /\ DOMAIN sql = 1 .. n
  BY DEF Readable
<1>2. UNION {LexSql(p[1], p[2]) : p \in guard} = {t \in whole : sql[t[1]] # "sep"}
  BY <1>1, SameTokens DEF Lexed, Solid
<1>3. guard = {p \in ToSet(CoreSplit) : LexSql(p[1], p[2]) # {}}
  BY <1>1, SameStatements DEF Kept
<1>4. ToSet(KeywordsOutsideLiterals) = {t \in whole : sql[t[1]] = "word"}
  BY <1>1, SameKeywords DEF Worded
<1>5. (\A i \in DOMAIN sql : ~Starts(i, n, <<"-", "-">>) /\ ~Starts(i, n, <<"/", "*">>))
          => RestSplit = CoreSplit
  BY <1>1, SamePieces DEF NoComments, Comment
<1>6. GuardAccepts /\ CoreCreates => GuardTarget = CoreHeader /\ GuardQuery = CoreAs + 1
  BY SameTable DEF Readable
<1>7. RestAccepts => GuardAccepts /\ RestTarget = CoreHeader /\ RestAs = CoreAs
  BY SameAnswer DEF Readable
<1> HIDE DEF n
<1> QED
  BY <1>2, <1>3, <1>4, <1>5, <1>6, <1>7 DEF CheckedIsRun, n

\* Texts and statements that come in are made of characters and of words.
LEMMA ReadableAlways == TextSpec => []Readable
<1>1. TextInit => Readable
  <2> SUFFICES ASSUME TextInit PROVE Readable
    OBVIOUS
  <2>1. sql \in Seq(Chars)
    BY DEF TextInit
  <2> DEFINE I == Items \cup {"CREATE"}
  <2>2. "CREATE" \in I /\ "TABLE" \in I /\ "note" \in I
    BY DEF Items, Comments
  <2> HIDE DEF I
  <2>3. items \in Seq(I)
    <3>1. items = <<>> => items \in Seq(I)
      OBVIOUS
    <3>2. items = <<"CREATE", "TABLE">> => items \in Seq(I)
      BY <2>2
    <3>3. items = <<"note", "CREATE", "TABLE">> => items \in Seq(I)
      BY <2>2
    <3>4. items = <<"CREATE", "note">> => items \in Seq(I)
      BY <2>2
    <3> QED
      BY <3>1, <3>2, <3>3, <3>4 DEF TextInit
  <2> QED
    BY <2>1, <2>3 DEF Readable, Statement, I
<1>2. Readable /\ [TextNext]_textVars => Readable'
  <2> SUFFICES ASSUME Readable, [TextNext]_textVars PROVE Readable'
    OBVIOUS
  <2>1. CASE NextCharacter
    BY <2>1 DEF NextCharacter, Readable, Statement
  <2>2. CASE NextItem
    BY <2>2 DEF NextItem, Readable, Statement
  <2>3. CASE UNCHANGED textVars
    BY <2>3 DEF textVars, Readable, Statement
  <2> QED
    BY <2>1, <2>2, <2>3 DEF TextNext
<1> QED
  BY <1>1, <1>2, PTL DEF TextSpec

\* The statement that sql_guardrails.rs checks is the statement that commands.rs runs:
\* same tokens, same pieces, same table and same query; the words that the export looks
\* at are the lexer's; and rest.rs takes no statement that the guardrails refuse.
THEOREM CheckedStatementRuns == TextSpec => []CheckedIsRun
BY ReadableAlways, ReadAlike, PTL
=============================================================================

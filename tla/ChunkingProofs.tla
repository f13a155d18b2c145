--------------------------- MODULE ChunkingProofs ----------------------------
(***************************************************************************)
(* What Chunking promises, for every document and every configuration.     *)
(*                                                                         *)
(* The provers have no induction, and what becomes of a document is known  *)
(* by induction over its characters only.  Induction is proved first, from *)
(* facts about finite sets: no map is one-to-one from a set into a smaller *)
(* one, and a subset as large as the set is the set.                       *)
(***************************************************************************)
EXTENDS Chunking, FiniteSetTheorems, SequenceTheorems, TLAPS

-----------------------------------------------------------------------------
(***************************************************************************)
(* Induction, least and greatest numbers.                                  *)
(***************************************************************************)

\* A set with 0 and every successor has every number.  What it lacks of 0..n
\* it would lack of 0..(n - 1) too, one below: two sets of one size, which only
\* one of them has n in.
LEMMA Induction ==
    ASSUME NEW S, 0 \in S, \A n \in Nat : n \in S => n + 1 \in S
    PROVE  Nat \subseteq S
<1> SUFFICES ASSUME NEW n \in Nat, n \notin S PROVE FALSE
  OBVIOUS
<1> DEFINE T == (0..n) \ S
           U == (0..(n - 1)) \ S
           f == [i \in T |-> i - 1]
<1>1. IsFiniteSet(T) /\ U \in SUBSET T
  <2>1. IsFiniteSet(0..n) /\ T \in SUBSET (0..n)
    BY FS_Interval
  <2> QED
    BY <2>1, FS_Subset
<1>2. /\ IsFiniteSet(U)
      /\ Cardinality(U) <= Cardinality(T)
      /\ Cardinality(T) = Cardinality(U) => T = U
  BY <1>1, FS_Subset
<1>3. ASSUME NEW i \in T PROVE i - 1 \in U
  <2>1. i \in 0..n /\ i # 0
    OBVIOUS
  <2>2. i - 1 \in Nat /\ i - 1 \in 0..(n - 1) /\ (i - 1) + 1 = i
    BY <2>1
  <2>3. i - 1 \notin S
    BY <2>2
  <2> QED
    BY <2>2, <2>3
<1>4. f \in Injection(T, U)
  <2>1. f \in [T -> U]
    BY <1>3
  <2>2. \A a, b \in T : f[a] = f[b] => a = b
    OBVIOUS
  <2> QED
    BY <2>1, <2>2 DEF Injection, IsInjective
<1>5. Cardinality(T) <= Cardinality(U)
  <2> HIDE DEF T, U, f
  <2> QED
    BY <1>2, <1>4, FS_Injection
<1>6. T = U
  <2>1. Cardinality(T) \in Nat /\ Cardinality(U) \in Nat
    BY <1>1, <1>2, FS_CardinalityType
  <2> QED
    BY <1>2, <1>5, <2>1
<1> QED
  BY <1>6

\* The same within an interval.
LEMMA BoundedInduction ==
    ASSUME NEW m \in Int, NEW n \in Int, NEW S,
           m \in S, \A i \in m..(n - 1) : i \in S => i + 1 \in S
    PROVE  m..n \subseteq S
<1> DEFINE T == {k \in Nat : m + k <= n => m + k \in S}
<1>1. 0 \in T
  OBVIOUS
<1>2. ASSUME NEW k \in Nat, k \in T PROVE k + 1 \in T
  <2>1. CASE m + k <= n - 1
    <3>1. m + k \in m..(n - 1) /\ m + k \in S
      BY <1>2, <2>1
    <3>2. (m + k) + 1 \in S /\ (m + k) + 1 = m + (k + 1)
      BY <3>1
    <3> QED
      BY <3>2
  <2>2. CASE ~(m + k <= n - 1)
    BY <2>2
  <2> QED
    BY <2>1, <2>2
<1>3. Nat \subseteq T
  <2> HIDE DEF T
  <2> QED
    BY <1>1, <1>2, Induction
<1>4. ASSUME NEW i \in m..n PROVE i \in S
  <2>1. i - m \in Nat /\ m + (i - m) = i
    OBVIOUS
  <2>2. i - m \in T
    BY <1>3, <2>1
  <2> QED
    BY <2>1, <2>2
<1> QED
  BY <1>4

\* A set of numbers within an interval has a least element, which is its Min.
LEMMA MinFacts ==
    ASSUME NEW m \in Int, NEW n \in Int, NEW S \in SUBSET (m..n), S # {}
    PROVE  Min(S) \in S /\ \A x \in S : Min(S) <= x
<1> DEFINE Below == {i \in m..n : \A j \in m..i : j \notin S}
<1>1. \E x \in S : \A y \in S : x <= y
  <2>1. PICK x \in S : TRUE
    OBVIOUS
  <2>2. m <= n
    BY <2>1
  <2> SUFFICES ASSUME \A y \in S : \E z \in S : ~(y <= z) PROVE FALSE
    OBVIOUS
  <2>3. m \in Below
    <3>1. m \notin S
      OBVIOUS
    <3> QED
      BY <2>2, <3>1
  <2>4. ASSUME NEW i \in m..(n - 1), i \in Below PROVE i + 1 \in Below
    <3>1. ASSUME i + 1 \in S PROVE FALSE
      <4>1. PICK y \in S : ~(i + 1 <= y)
        BY <3>1
      <4>2. i \in Int /\ y \in m..n
        BY <2>4
      <4>3. y \in m..i
        BY <4>1, <4>2
      <4> QED
        BY <2>4, <4>3
    <3>2. \A j \in m..(i + 1) : j = i + 1 \/ j \in m..i
      OBVIOUS
    <3> QED
      BY <2>4, <3>1, <3>2
  <2>5. m..n \subseteq Below
    <3> HIDE DEF Below
    <3> QED
      BY <2>3, <2>4, BoundedInduction
  <2>6. x \in Below /\ x \in m..x
    BY <2>5
  <2> QED
    BY <2>6
<1> QED
  BY <1>1 DEF Min

\* And a greatest element, its Max: the least of what is left upside down.
LEMMA MaxFacts ==
    ASSUME NEW m \in Int, NEW n \in Int, NEW S \in SUBSET (m..n), S # {}
    PROVE  Max(S) \in S /\ \A x \in S : x <= Max(S)
<1> DEFINE T == {i \in (-n)..(-m) : -i \in S}
<1>1. /\ T \in SUBSET ((-n)..(-m)) /\ -n \in Int /\ -m \in Int
      /\ \A x \in S : -x \in T
      /\ \A y \in T : -y \in S /\ y \in Int
  OBVIOUS
<1>2. T # {}
  BY <1>1
<1>3. Min(T) \in T /\ \A y \in T : Min(T) <= y
  <2> HIDE DEF T
  <2> QED
    BY <1>1, <1>2, MinFacts
<1>4. -Min(T) \in S /\ \A x \in S : x <= -Min(T)
  <2>1. Min(T) \in Int /\ -Min(T) \in S
    BY <1>1, <1>3
  <2>2. ASSUME NEW x \in S PROVE x <= -Min(T)
    <3>1. Min(T) <= -x /\ x \in Int
      BY <1>1, <1>3
    <3> HIDE DEF T
    <3> QED
      BY <2>1, <3>1
  <2> QED
    BY <2>1, <2>2
<1>5. \E x \in S : \A y \in S : x >= y
  <2> HIDE DEF T
  <2> QED
    BY <1>4
<1> QED
  BY <1>5 DEF Max

\* The lesser and the greater of two numbers.
LEMMA MinMaxOfTwo ==
    ASSUME NEW a \in Int, NEW b \in Int
    PROVE  /\ Min({a, b}) = IF a <= b THEN a ELSE b
           /\ Max({a, b}) = IF a <= b THEN b ELSE a
BY DEF Min, Max

-----------------------------------------------------------------------------
(***************************************************************************)
(* The normalised text, one character of the content after the other.      *)
(***************************************************************************)

\* The concatenation of parts is reached through its prefixes.
IsFlat(g, parts, k) ==
    g = [i \in 1..k |-> IF i = 1 THEN parts[i] ELSE g[i - 1] \o parts[i]]

LEMMA FlatFacts ==
    ASSUME NEW parts, NEW k \in Nat \ {0}, NEW g, IsFlat(g, parts, k)
    PROVE  g[1] = parts[1] /\ \A i \in 2..k : g[i] = g[i - 1] \o parts[i]
<1>1. 1 \in 1..k /\ \A i \in 2..k : i \in 1..k /\ i # 1
  OBVIOUS
<1> QED
  BY <1>1 DEF IsFlat

LEMMA FlatExists ==
    ASSUME NEW n \in Nat \ {0}, NEW parts \in [1..n -> Seq(Characters)]
    PROVE  \E g \in [1..n -> Seq(Characters)] : IsFlat(g, parts, n)
<1> DEFINE Q(k) == \E g \in [1..k -> Seq(Characters)] : IsFlat(g, parts, k)
           T == {k \in 1..n : Q(k)}
<1>1. Q(1)
  <2> DEFINE g == [i \in 1..1 |-> parts[i]]
  <2>1. g \in [1..1 -> Seq(Characters)] /\ IsFlat(g, parts, 1)
    BY DEF IsFlat
  <2> HIDE DEF g
  <2> QED
    BY <2>1
<1>2. ASSUME NEW k \in 1..(n - 1), Q(k) PROVE Q(k + 1)
  <2>1. PICK g \in [1..k -> Seq(Characters)] : IsFlat(g, parts, k)
    BY <1>2
  <2> DEFINE h == [i \in 1..(k + 1) |->
                     IF i = k + 1 THEN g[k] \o parts[k + 1] ELSE g[i]]
  <2>2. g[k] \o parts[k + 1] \in Seq(Characters)
    BY ConcatProperties
  <2>3. h \in [1..(k + 1) -> Seq(Characters)]
    BY <2>2
  <2>4. ASSUME NEW i \in 1..(k + 1)
        PROVE  h[i] = IF i = 1 THEN parts[i] ELSE h[i - 1] \o parts[i]
    <3>1. CASE i = k + 1
      <4>1. i # 1 /\ i - 1 = k /\ i - 1 # k + 1 /\ i - 1 \in 1..(k + 1)
        BY <3>1
      <4> QED
        BY <3>1, <4>1
    <3>2. CASE i # k + 1
      <4>1. i \in 1..k
        BY <3>2
      <4>2. h[i] = g[i] /\ (i # 1 => h[i - 1] = g[i - 1])
        BY <3>2, <4>1
      <4> QED
        BY <2>1, <4>1, <4>2 DEF IsFlat
    <3> QED
      BY <3>1, <3>2
  <2>5. IsFlat(h, parts, k + 1)
    BY <2>4 DEF IsFlat
  <2> HIDE DEF h
  <2> QED
    BY <2>3, <2>5
<1> HIDE DEF Q
<1>3. 1 \in T /\ \A k \in 1..(n - 1) : k \in T => k + 1 \in T
  BY <1>1, <1>2
<1>4. 1 \in Int /\ n \in Int
  OBVIOUS
<1>5. 1..n \subseteq T
  <2> HIDE DEF T
  <2> QED
    BY <1>3, <1>4, BoundedInduction
<1>6. Q(n)
  <2>1. n \in 1..n
    OBVIOUS
  <2> QED
    BY <1>5, <2>1
<1> QED
  BY <1>6 DEF Q

LEMMA FlatIsUnique ==
    ASSUME NEW n \in Nat \ {0}, NEW parts,
           NEW f, NEW g, IsFlat(f, parts, n), IsFlat(g, parts, n)
    PROVE  f = g
<1> DEFINE Same == {i \in 1..n : f[i] = g[i]}
<1>1. n \in 1..n /\ 1 \in 1..n /\ 1 \in Int /\ n \in Int
  OBVIOUS
<1>2. f[1] = parts[1] /\ \A i \in 2..n : f[i] = f[i - 1] \o parts[i]
  BY FlatFacts
<1>3. g[1] = parts[1] /\ \A i \in 2..n : g[i] = g[i - 1] \o parts[i]
  BY FlatFacts
<1>4. 1 \in Same
  BY <1>1, <1>2, <1>3
<1>5. ASSUME NEW i \in 1..(n - 1), i \in Same PROVE i + 1 \in Same
  <2>1. i + 1 \in 2..n /\ (i + 1) - 1 = i /\ i + 1 \in 1..n
    OBVIOUS
  <2>2. f[i + 1] = f[i] \o parts[i + 1] /\ g[i + 1] = g[i] \o parts[i + 1]
    BY <1>2, <1>3, <2>1
  <2> QED
    BY <1>5, <2>1, <2>2
<1>6. 1..n \subseteq Same
  <2> HIDE DEF Same
  <2> QED
    BY <1>1, <1>4, <1>5, BoundedInduction
<1>7. \A i \in 1..n : f[i] = g[i]
  BY <1>6
<1>8. f = [i \in 1..n |-> f[i]] /\ g = [i \in 1..n |-> g[i]]
  BY DEF IsFlat
<1> QED
  BY <1>7, <1>8

LEMMA Flattening ==
    ASSUME NEW n \in Nat \ {0}, NEW parts \in [1..n -> Seq(Characters)]
    PROVE  \E g \in [1..n -> Seq(Characters)] :
              /\ g[1] = parts[1]
              /\ \A i \in 2..n : g[i] = g[i - 1] \o parts[i]
              /\ FlattenSeq(parts) = g[n]
<1>1. PICK g \in [1..n -> Seq(Characters)] : IsFlat(g, parts, n)
  BY FlatExists
<1> DEFINE flat == CHOOSE f : IsFlat(f, parts, n)
<1>2. IsFlat(flat, parts, n)
  BY <1>1
<1>3. Len(parts) = n /\ n # 0
  OBVIOUS
<1>4. FlattenSeq(parts) = flat[n]
  BY <1>3 DEF FlattenSeq, IsFlat
<1> HIDE DEF flat
<1>5. flat = g
  BY <1>1, <1>2, FlatIsUnique
<1>6. g[1] = parts[1] /\ \A i \in 2..n : g[i] = g[i - 1] \o parts[i]
  BY <1>1, FlatFacts
<1> QED
  BY <1>4, <1>5, <1>6

\* The whitespace before a later word is fewer characters than there are.
LEMMA LaterWord ==
    ASSUME NEW s \in Seq(Characters), NEW i \in DOMAIN s, s[i] # "c"
    PROVE  i + Cardinality(Gap(s, i)) <= Len(s)
              <=> \E j \in i..Len(s) : s[j] = "c"
<1> DEFINE Ahead == {j \in i..Len(s) : s[j] = "c"}
<1>1. i \in Nat /\ Len(s) \in Nat /\ i <= Len(s) /\ DOMAIN s = 1..Len(s)
  OBVIOUS
<1>2. CASE Ahead = {}
  <2>1. Gap(s, i) = i..Len(s)
    BY <1>1, <1>2 DEF Gap
  <2>2. Cardinality(Gap(s, i)) = Len(s) - i + 1
    BY <1>1, <2>1, FS_Interval
  <2> QED
    BY <1>1, <1>2, <2>2
<1>3. CASE Ahead # {}
  <2> DEFINE w == Min(Ahead)
  <2>1. w \in Ahead /\ \A j \in Ahead : w <= j
    <3> DEFINE n == Len(s)
    <3>1. Ahead \in SUBSET (i..n) /\ i \in Int /\ n \in Int
      BY <1>1
    <3> HIDE DEF Ahead, n
    <3> QED
      BY <1>3, <3>1, MinFacts
  <2> HIDE DEF w
  <2>2. w \in i..Len(s) /\ s[w] = "c" /\ \A j \in i..(w - 1) : s[j] # "c"
    BY <1>1, <2>1
  <2>3. Gap(s, i) = i..(w - 1)
    <3>1. ASSUME NEW j \in Gap(s, i) PROVE j \in i..(w - 1)
      BY <1>1, <2>2 DEF Gap
    <3>2. ASSUME NEW j \in i..(w - 1) PROVE j \in Gap(s, i)
      BY <1>1, <2>2 DEF Gap
    <3> QED
      BY <3>1, <3>2
  <2>4. w > i
    BY <2>2
  <2>5. Cardinality(Gap(s, i)) = w - i
    BY <1>1, <2>2, <2>3, <2>4, FS_Interval
  <2> QED
    BY <1>1, <2>2, <2>5
<1> QED
  BY <1>2, <1>3

\* What the character at i leaves.
HasSeparator(s, i) ==
    /\ i > 1 /\ s[i] # "c" /\ s[i - 1] = "c"
    /\ \E j \in i..Len(s) : s[j] = "c"

LEMMA TraceFacts ==
    ASSUME NEW s \in Seq(Characters), NEW i \in DOMAIN s
    PROVE  /\ s[i] = "c" => Trace(s, i) = <<"c">>
           /\ HasSeparator(s, i) => Trace(s, i) = Separator(s, i)
           /\ s[i] # "c" /\ ~HasSeparator(s, i) => Trace(s, i) = <<>>
           /\ Trace(s, i) \in Seq(Characters)
<1>1. CASE s[i] = "c"
  BY <1>1 DEF Trace, HasSeparator, Characters
<1>2. CASE HasSeparator(s, i)
  <2>1. s[i] # "c" /\ i > 1 /\ s[i - 1] = "c"
    BY <1>2 DEF HasSeparator
  <2>2. i + Cardinality(Gap(s, i)) <= Len(s)
    BY <1>2, LaterWord DEF HasSeparator
  <2>3. Trace(s, i) = Separator(s, i)
    BY <2>1, <2>2 DEF Trace
  <2>4. Separator(s, i) \in Seq(Characters)
    <3>1. <<"s">> \in Seq(Characters) /\ <<"n", "n">> \in Seq(Characters)
      BY DEF Characters
    <3> QED
      BY <3>1 DEF Separator
  <2> QED
    BY <1>2, <2>1, <2>3, <2>4
<1>3. CASE s[i] # "c" /\ ~HasSeparator(s, i)
  BY <1>3, LaterWord DEF Trace, HasSeparator
<1> QED
  BY <1>1, <1>2, <1>3

\* The normalisation goes through what the first i characters leave.
Leaves(s, g) ==
    /\ g \in [1..Len(s) -> Seq(Characters)]
    /\ g[1] = Trace(s, 1)
    /\ \A i \in 2..Len(s) : g[i] = g[i - 1] \o Trace(s, i)
    /\ Normalize(s) = g[Len(s)]

LEMMA Leaving ==
    ASSUME NEW s \in Seq(Characters), s # <<>>
    PROVE  \E g : Leaves(s, g)
<1> DEFINE parts == [i \in DOMAIN s |-> Trace(s, i)]
<1>1. Len(s) \in Nat \ {0} /\ DOMAIN s = 1..Len(s)
  OBVIOUS
<1> DEFINE n == Len(s)
<1>2. parts \in [1..n -> Seq(Characters)]
  BY <1>1, TraceFacts
<1>3. n \in Nat \ {0} /\ 1 \in 1..n /\ \A i \in 2..n : i \in 1..n
  BY <1>1
<1>4. \A i \in 1..n : parts[i] = Trace(s, i)
  BY <1>1
<1>5. Normalize(s) = FlattenSeq(parts)
  BY DEF Normalize
<1> HIDE DEF parts
<1>6. \E g \in [1..n -> Seq(Characters)] :
        /\ g[1] = parts[1]
        /\ \A i \in 2..n : g[i] = g[i - 1] \o parts[i]
        /\ FlattenSeq(parts) = g[n]
  <2> HIDE DEF n
  <2> QED
    BY <1>2, <1>3, Flattening
<1>7. PICK g \in [1..n -> Seq(Characters)] :
        /\ g[1] = parts[1]
        /\ \A i \in 2..n : g[i] = g[i - 1] \o parts[i]
        /\ FlattenSeq(parts) = g[n]
  BY <1>6
<1>8. /\ g[1] = Trace(s, 1) /\ Normalize(s) = g[n]
      /\ \A i \in 2..n : g[i] = g[i - 1] \o Trace(s, i)
  <2> HIDE DEF n
  <2> QED
    BY <1>3, <1>4, <1>5, <1>7
<1>9. Leaves(s, g)
  BY <1>7, <1>8 DEF Leaves
<1> QED
  BY <1>9

-----------------------------------------------------------------------------
(***************************************************************************)
(* Normal texts: they begin and end in a word, and between two words is a  *)
(* single blank, a single blank line or nothing.                           *)
(***************************************************************************)
IsBlank(t, i) ==
    /\ i > 1 /\ i < Len(t)
    /\ t[i - 1] = "c" /\ t[i] = "s" /\ t[i + 1] = "c"

\* A blank line begins at i.
IsBreak(t, i) ==
    /\ i > 1 /\ i + 1 < Len(t)
    /\ t[i - 1] = "c" /\ t[i] = "n" /\ t[i + 1] = "n" /\ t[i + 2] = "c"

IsNormal(t) ==
    /\ t \in Seq(Characters) /\ Len(t) > 0
    /\ t[1] = "c" /\ t[Len(t)] = "c"
    /\ \A i \in 1..Len(t) :
          t[i] # "c" => IsBlank(t, i) \/ IsBreak(t, i) \/ IsBreak(t, i - 1)

\* What may be between two words.
Separators == {<<>>, <<"s">>, <<"n", "n">>}

LEMMA NormalWord == IsNormal(<<"c">>)
BY DEF IsNormal, Characters

\* What the parts of a text are to the text.
LEMMA Joining ==
    ASSUME NEW a \in Seq(Characters), NEW b \in Seq(Characters),
           NEW sep \in Separators
    PROVE  /\ a \o sep \o b \in Seq(Characters)
           /\ Len(sep) \in 0..2
           /\ Len(a \o sep \o b) = Len(a) + Len(sep) + Len(b)
           /\ \A i \in 1..Len(a) : (a \o sep \o b)[i] = a[i]
           /\ \A i \in 1..Len(sep) : (a \o sep \o b)[Len(a) + i] = sep[i]
           /\ \A i \in 1..Len(b) :
                 (a \o sep \o b)[Len(a) + Len(sep) + i] = b[i]
<1>1. sep \in Seq(Characters) /\ Len(sep) \in 0..2
  <2>1. /\ <<>> \in Seq(Characters) /\ <<"s">> \in Seq(Characters)
        /\ <<"n", "n">> \in Seq(Characters)
    BY DEF Characters
  <2>2. Len(<<>>) = 0 /\ Len(<<"s">>) = 1 /\ Len(<<"n", "n">>) = 2
    OBVIOUS
  <2>3. sep = <<>> \/ sep = <<"s">> \/ sep = <<"n", "n">>
    BY DEF Separators
  <2>4. Len(sep) = 0 \/ Len(sep) = 1 \/ Len(sep) = 2
    BY <2>2, <2>3
  <2>5. sep \in Seq(Characters)
    BY <2>1, <2>3
  <2> QED
    BY <2>4, <2>5
<1>2. /\ a \o sep \in Seq(Characters)
      /\ Len(a \o sep) = Len(a) + Len(sep)
      /\ \A i \in 1..(Len(a) + Len(sep)) :
            (a \o sep)[i] = IF i <= Len(a) THEN a[i] ELSE sep[i - Len(a)]
  BY <1>1, ConcatProperties
<1> DEFINE c == a \o sep
<1>3. /\ c \o b \in Seq(Characters)
      /\ Len(c \o b) = Len(c) + Len(b)
      /\ \A i \in 1..(Len(c) + Len(b)) :
            (c \o b)[i] = IF i <= Len(c) THEN c[i] ELSE b[i - Len(c)]
  BY <1>2, ConcatProperties
<1>4. Len(a) \in Nat /\ Len(b) \in Nat /\ Len(sep) \in Nat
  BY <1>1
<1>5. ASSUME NEW i \in 1..Len(a) PROVE (c \o b)[i] = a[i]
  BY <1>2, <1>3, <1>4
<1>6. ASSUME NEW i \in 1..Len(sep) PROVE (c \o b)[Len(a) + i] = sep[i]
  <2>1. /\ Len(a) + i \in 1..(Len(a) + Len(sep)) /\ ~(Len(a) + i <= Len(a))
        /\ (Len(a) + i) - Len(a) = i
        /\ Len(a) + i \in 1..(Len(c) + Len(b)) /\ Len(a) + i <= Len(c)
    BY <1>2, <1>4
  <2>2. c[Len(a) + i] = sep[i]
    BY <1>2, <2>1
  <2> HIDE DEF c
  <2> QED
    BY <1>3, <2>1, <2>2
<1>7. ASSUME NEW i \in 1..Len(b)
      PROVE  (c \o b)[Len(a) + Len(sep) + i] = b[i]
  <2>1. /\ Len(c) + i \in 1..(Len(c) + Len(b)) /\ ~(Len(c) + i <= Len(c))
        /\ (Len(c) + i) - Len(c) = i
        /\ Len(a) + Len(sep) + i = Len(c) + i
    BY <1>2, <1>4
  <2> HIDE DEF c
  <2> QED
    BY <1>3, <2>1
<1> QED
  BY <1>1, <1>2, <1>3, <1>5, <1>6, <1>7

LEMMA NormalJoin ==
    ASSUME NEW a, NEW b, IsNormal(a), IsNormal(b), NEW sep \in Separators
    PROVE  IsNormal(a \o sep \o b)
<1> DEFINE u == a \o sep \o b
           p == Len(a)
           q == Len(sep)
           r == Len(b)
<1>1. a \in Seq(Characters) /\ b \in Seq(Characters)
  BY DEF IsNormal
<1>2. /\ u \in Seq(Characters) /\ Len(u) = p + q + r
      /\ p \in Nat /\ q \in 0..2 /\ r \in Nat
      /\ \A i \in 1..p : u[i] = a[i]
      /\ \A i \in 1..q : u[p + i] = sep[i]
      /\ \A i \in 1..r : u[p + q + i] = b[i]
  BY <1>1, Joining
<1>3. /\ p > 0 /\ a[1] = "c" /\ a[p] = "c"
      /\ r > 0 /\ b[1] = "c" /\ b[r] = "c"
  BY DEF IsNormal
<1>4. u[1] = "c" /\ u[p] = "c" /\ u[p + q + 1] = "c" /\ u[p + q + r] = "c"
  <2>1. 1 \in 1..p /\ p \in 1..p /\ 1 \in 1..r /\ r \in 1..r
    BY <1>2, <1>3
  <2> HIDE DEF u, p, q, r
  <2> QED
    BY <1>2, <1>3, <2>1
<1> HIDE DEF u
<1>5. ASSUME NEW i \in 1..p, u[i] # "c"
      PROVE  IsBlank(u, i) \/ IsBreak(u, i) \/ IsBreak(u, i - 1)
  <2>1. IsBlank(a, i) \/ IsBreak(a, i) \/ IsBreak(a, i - 1)
    BY <1>2, <1>5 DEF IsNormal
  <2>2. CASE IsBlank(a, i)
    BY <1>2, <2>2 DEF IsBlank
  <2>3. CASE IsBreak(a, i)
    <3>1. i - 1 \in 1..p /\ i + 1 \in 1..p /\ i + 2 \in 1..p
      BY <1>2, <2>3 DEF IsBreak
    <3>2. /\ u[i - 1] = a[i - 1] /\ u[i] = a[i]
          /\ u[i + 1] = a[i + 1] /\ u[i + 2] = a[i + 2]
      BY <1>2, <3>1
    <3>3. i > 1 /\ i + 1 < Len(u)
      BY <1>2, <3>1
    <3> QED
      BY <2>3, <3>2, <3>3 DEF IsBreak
  <2>4. CASE IsBreak(a, i - 1)
    <3>1. i - 1 > 1 /\ (i - 1) + 1 < p
      BY <1>2, <2>4 DEF IsBreak
    <3>2. /\ (i - 1) - 1 \in 1..p /\ i - 1 \in 1..p
          /\ (i - 1) + 1 \in 1..p /\ (i - 1) + 2 \in 1..p
      BY <1>2, <3>1
    <3>3. /\ u[(i - 1) - 1] = a[(i - 1) - 1] /\ u[i - 1] = a[i - 1]
          /\ u[(i - 1) + 1] = a[(i - 1) + 1] /\ u[(i - 1) + 2] = a[(i - 1) + 2]
      BY <1>2, <3>2
    <3>4. (i - 1) + 1 < Len(u)
      BY <1>2, <3>1
    <3> QED
      BY <2>4, <3>1, <3>3, <3>4 DEF IsBreak
  <2> QED
    BY <2>1, <2>2, <2>3, <2>4
<1>6. ASSUME NEW i \in 1..q, u[p + i] # "c"
      PROVE  \/ IsBlank(u, p + i) \/ IsBreak(u, p + i)
             \/ IsBreak(u, (p + i) - 1)
  <2>1. u[p + i] = sep[i]
    BY <1>2
  <2>2. CASE sep = <<>>
    BY <2>2
  <2>3. CASE sep = <<"s">>
    <3>1. q = 1 /\ i = 1 /\ u[p + i] = "s" /\ (p + i) - 1 = p
          /\ (p + i) + 1 = p + q + 1 /\ p + i > 1 /\ p + i < Len(u)
      BY <1>2, <1>3, <2>1, <2>3
    <3> QED
      BY <1>4, <3>1 DEF IsBlank
  <2>4. CASE sep = <<"n", "n">>
    <3>1. q = 2 /\ sep[1] = "n" /\ sep[2] = "n"
      BY <2>4
    <3>2. u[p + 1] = "n" /\ u[p + 2] = "n"
      BY <1>2, <3>1
    <3>3. /\ (p + 1) - 1 = p /\ (p + 1) + 1 = p + 2
          /\ (p + 1) + 2 = p + q + 1 /\ p + 1 > 1 /\ (p + 1) + 1 < Len(u)
      BY <1>2, <1>3, <3>1
    <3>4. IsBreak(u, p + 1)
      BY <1>4, <3>2, <3>3 DEF IsBreak
    <3>5. i = 1 \/ i = 2
      BY <3>1
    <3>6. i = 2 => (p + i) - 1 = p + 1
      BY <1>2
    <3> QED
      BY <3>4, <3>5, <3>6
  <2> QED
    BY <2>2, <2>3, <2>4 DEF Separators
<1>7. ASSUME NEW i \in 1..r, u[p + q + i] # "c"
      PROVE  \/ IsBlank(u, p + q + i) \/ IsBreak(u, p + q + i)
             \/ IsBreak(u, (p + q + i) - 1)
  <2>1. IsBlank(b, i) \/ IsBreak(b, i) \/ IsBreak(b, i - 1)
    BY <1>2, <1>7 DEF IsNormal
  <2> DEFINE s == p + q
  <2>2. s \in Nat /\ Len(u) = s + r /\ i \in 1..r
    BY <1>2
  <2>3. r \in Nat /\ r = Len(b)
    BY <1>2
  <2>4. ASSUME NEW j \in 1..r, NEW k, s + j = k PROVE u[k] = b[j]
    BY <1>2, <2>4
  <2> HIDE DEF s, u, r
  <2>5. CASE IsBlank(b, i)
    <3>1. /\ i - 1 \in 1..r /\ i + 1 \in 1..r
          /\ s + (i - 1) = (s + i) - 1 /\ s + (i + 1) = (s + i) + 1
      BY <2>2, <2>3, <2>5 DEF IsBlank
    <3>2. u[(s + i) - 1] = b[i - 1] /\ u[(s + i) + 1] = b[i + 1]
      BY <2>4, <3>1
    <3>3. u[s + i] = b[i] /\ s + i > 1 /\ s + i < Len(u)
      <4>1. s + i > 1 /\ s + i < Len(u)
        BY <2>2, <2>3, <3>1
      <4> QED
        BY <2>2, <2>4, <4>1
    <3>4. IsBlank(u, s + i)
      BY <2>5, <3>2, <3>3 DEF IsBlank
    <3> QED
      BY <3>4 DEF s
  <2>6. CASE IsBreak(b, i)
    <3>1. /\ i - 1 \in 1..r /\ i + 1 \in 1..r /\ i + 2 \in 1..r
          /\ s + (i - 1) = (s + i) - 1 /\ s + (i + 1) = (s + i) + 1
          /\ s + (i + 2) = (s + i) + 2
      BY <2>2, <2>3, <2>6 DEF IsBreak
    <3>2. u[(s + i) - 1] = b[i - 1] /\ u[s + i] = b[i]
      BY <2>2, <2>4, <3>1
    <3>3. u[(s + i) + 1] = b[i + 1] /\ u[(s + i) + 2] = b[i + 2]
      BY <2>4, <3>1
    <3>4. s + i > 1 /\ (s + i) + 1 < Len(u)
      BY <2>2, <2>3, <3>1
    <3>5. IsBreak(u, s + i)
      BY <2>6, <3>2, <3>3, <3>4 DEF IsBreak
    <3> QED
      BY <3>5 DEF s
  <2>7. CASE IsBreak(b, i - 1)
    <3>1. i - 1 > 1 /\ (i - 1) + 1 < r
      BY <2>3, <2>7 DEF IsBreak
    <3>2. /\ (i - 1) - 1 \in 1..r /\ i - 1 \in 1..r /\ i \in 1..r
          /\ (i - 1) + 1 = i /\ (i - 1) + 2 \in 1..r
          /\ s + (i - 1) = (s + i) - 1
          /\ s + ((i - 1) - 1) = ((s + i) - 1) - 1
          /\ s + i = ((s + i) - 1) + 1
          /\ s + ((i - 1) + 2) = ((s + i) - 1) + 2
      BY <2>2, <2>3, <3>1
    <3>3. /\ u[((s + i) - 1) - 1] = b[(i - 1) - 1]
          /\ u[(s + i) - 1] = b[i - 1]
      BY <2>4, <3>2
    <3>4. /\ u[((s + i) - 1) + 1] = b[(i - 1) + 1]
          /\ u[((s + i) - 1) + 2] = b[(i - 1) + 2]
      BY <2>4, <3>2
    <3>5. (s + i) - 1 > 1 /\ ((s + i) - 1) + 1 < Len(u)
      BY <2>2, <2>3, <3>1
    <3>6. IsBreak(u, (s + i) - 1)
      BY <2>7, <3>3, <3>4, <3>5 DEF IsBreak
    <3> QED
      BY <3>6 DEF s
  <2> QED
    BY <2>1, <2>5, <2>6, <2>7
<1>8. ASSUME NEW i \in 1..Len(u), u[i] # "c"
      PROVE  IsBlank(u, i) \/ IsBreak(u, i) \/ IsBreak(u, i - 1)
  <2>1. CASE i <= p
    <3>1. i \in 1..p
      BY <2>1, <1>2
    <3> QED
      BY <1>5, <1>8, <3>1
  <2>2. CASE i > p /\ i <= p + q
    <3>1. i - p \in 1..q /\ p + (i - p) = i
      BY <2>2, <1>2
    <3> QED
      BY <1>6, <1>8, <3>1
  <2>3. CASE i > p + q
    <3>1. i - (p + q) \in 1..r /\ p + q + (i - (p + q)) = i
      BY <2>3, <1>2
    <3> QED
      BY <1>7, <1>8, <3>1
  <2> QED
    BY <2>1, <2>2, <2>3, <1>2
<1>9. IsNormal(u)
  <2>1. Len(u) > 0 /\ u[Len(u)] = "c"
    BY <1>2, <1>3, <1>4
  <2> QED
    BY <1>2, <1>4, <1>8, <2>1 DEF IsNormal
<1> QED
  BY <1>9 DEF u

\* A normal text cut at words is normal.
LEMMA NormalCut ==
    ASSUME NEW t, IsNormal(t), NEW lo \in 1..Len(t), NEW hi \in lo..Len(t),
           t[lo] = "c", t[hi] = "c"
    PROVE  IsNormal(SubSeq(t, lo, hi))
<1> DEFINE u == SubSeq(t, lo, hi)
<1>1. t \in Seq(Characters) /\ Len(t) \in Nat
  BY DEF IsNormal
<1>2. /\ u \in Seq(Characters) /\ Len(u) = (hi - lo) + 1
      /\ \A i \in 1..Len(u) : u[i] = t[lo + i - 1]
  BY <1>1
<1>3. lo \in Nat /\ hi \in Nat /\ lo <= hi /\ lo >= 1 /\ hi <= Len(t)
  BY <1>1
<1> HIDE DEF u
<1>4. Len(u) > 0 /\ 1 \in 1..Len(u) /\ Len(u) \in 1..Len(u)
  BY <1>2, <1>3
<1>5. u[1] = "c" /\ u[Len(u)] = "c"
  <2>1. lo + 1 - 1 = lo /\ lo + Len(u) - 1 = hi
    BY <1>2, <1>3
  <2> QED
    BY <1>2, <1>4, <2>1
<1>6. ASSUME NEW i \in 1..Len(u), u[i] # "c"
      PROVE  IsBlank(u, i) \/ IsBreak(u, i) \/ IsBreak(u, i - 1)
  <2> DEFINE k == lo + i - 1
  <2>1. k \in 1..Len(t) /\ t[k] # "c" /\ k # lo /\ k # hi /\ k > lo /\ k < hi
    BY <1>2, <1>3, <1>6
  <2>2. IsBlank(t, k) \/ IsBreak(t, k) \/ IsBreak(t, k - 1)
    BY <2>1 DEF IsNormal
  <2>3. /\ i > 1 /\ i < Len(u)
        /\ k - 1 = lo + (i - 1) - 1 /\ k + 1 = lo + (i + 1) - 1
    BY <1>2, <1>3, <2>1
  <2>4. /\ i - 1 \in 1..Len(u) /\ i + 1 \in 1..Len(u)
        /\ u[i - 1] = t[k - 1] /\ u[i] = t[k] /\ u[i + 1] = t[k + 1]
    <3>1. i - 1 \in 1..Len(u) /\ i + 1 \in 1..Len(u)
      BY <1>2, <1>3, <2>3
    <3> QED
      BY <1>2, <2>3, <3>1
  <2>5. CASE IsBlank(t, k)
    BY <2>3, <2>4, <2>5 DEF IsBlank
  <2>6. CASE IsBreak(t, k)
    <3>1. k + 1 # hi
      BY <2>6 DEF IsBreak
    <3>2. k + 1 < hi /\ i + 1 < Len(u) /\ i + 2 \in 1..Len(u)
          /\ k + 2 = lo + (i + 2) - 1
      BY <1>2, <1>3, <2>1, <3>1
    <3>3. u[i + 2] = t[k + 2]
      BY <1>2, <3>2
    <3> QED
      BY <2>3, <2>4, <2>6, <3>2, <3>3 DEF IsBreak
  <2>7. CASE IsBreak(t, k - 1)
    <3>1. k - 1 # lo /\ (k - 1) + 1 = k /\ (k - 1) + 2 = k + 1
      BY <2>1, <2>7, <1>3 DEF IsBreak
    <3>2. /\ i - 1 > 1 /\ (i - 1) + 1 = i /\ (i - 1) + 2 = i + 1
          /\ (i - 1) - 1 \in 1..Len(u)
          /\ (k - 1) - 1 = lo + ((i - 1) - 1) - 1
      BY <1>2, <1>3, <2>1, <2>3, <3>1
    <3>3. u[(i - 1) - 1] = t[(k - 1) - 1]
      BY <1>2, <3>2
    <3> QED
      BY <2>3, <2>4, <2>7, <3>1, <3>2, <3>3 DEF IsBreak
  <2> QED
    BY <2>2, <2>5, <2>6, <2>7
<1>7. IsNormal(u)
  BY <1>2, <1>4, <1>5, <1>6 DEF IsNormal
<1> QED
  BY <1>7 DEF u

-----------------------------------------------------------------------------
(***************************************************************************)
(* The normalisation makes a normal text of every content with a word, and *)
(* leaves a normal text alone.                                             *)
(***************************************************************************)
Later(s, i) == \E j \in i..Len(s) : s[j] = "c"
Unbegun(s, i) == \A j \in 1..i : s[j] # "c"

\* What the first i characters of a content leave: nothing before the first
\* word, and between two words what is before them and what separates them.
Form(s, i, out) ==
    /\ Unbegun(s, i) => out = <<>>
    /\ ~Unbegun(s, i) /\ s[i] # "c" /\ Later(s, i) =>
          \E t : IsNormal(t) /\ \E sep \in Separators : out = t \o sep
    /\ ~Unbegun(s, i) /\ ~(s[i] # "c" /\ Later(s, i)) => IsNormal(out)

LEMMA SeparatorFacts ==
    ASSUME NEW s, NEW i PROVE Separator(s, i) \in Separators
BY DEF Separator, Separators

LEMMA EmptyFacts ==
    /\ <<>> \in Separators /\ <<>> \in Seq(Characters)
    /\ <<"c">> \in Seq(Characters)
    /\ \A q \in Seq(Characters) : q \o <<>> = q /\ <<>> \o q = q
<1>1. <<>> \in Separators
  BY DEF Separators
<1>2. <<"c">> \in Seq(Characters)
  BY DEF Characters
<1> QED
  BY <1>1, <1>2, ConcatEmptySeq

LEMMA FormFirst ==
    ASSUME NEW s \in Seq(Characters), s # <<>>
    PROVE  Form(s, 1, Trace(s, 1))
<1>1. 1 \in DOMAIN s /\ ~HasSeparator(s, 1)
  BY DEF HasSeparator
<1>2. CASE s[1] = "c"
  <2>1. ~Unbegun(s, 1) /\ Trace(s, 1) = <<"c">>
    BY <1>1, <1>2, TraceFacts DEF Unbegun
  <2> QED
    BY <1>2, <2>1, NormalWord DEF Form
<1>3. CASE s[1] # "c"
  <2>1. Unbegun(s, 1) /\ Trace(s, 1) = <<>>
    BY <1>1, <1>3, TraceFacts DEF Unbegun
  <2> QED
    BY <2>1 DEF Form
<1> QED
  BY <1>2, <1>3

LEMMA FormNext ==
    ASSUME NEW s \in Seq(Characters), NEW i \in 2..Len(s),
           NEW out \in Seq(Characters), Form(s, i - 1, out)
    PROVE  Form(s, i, out \o Trace(s, i))
<1>1. /\ i \in DOMAIN s /\ i - 1 \in DOMAIN s
      /\ i - 1 >= 1 /\ i > 1 /\ i <= Len(s) /\ Len(s) \in Nat /\ i \in Nat
  OBVIOUS
<1>2. /\ Unbegun(s, i) <=> Unbegun(s, i - 1) /\ s[i] # "c"
      /\ Unbegun(s, i - 1) => s[i - 1] # "c"
  <2>1. \A j : j \in 1..i <=> j \in 1..(i - 1) \/ j = i
    BY <1>1
  <2>2. i - 1 \in 1..(i - 1)
    BY <1>1
  <2> QED
    BY <2>1, <2>2 DEF Unbegun
<1>3. Later(s, i - 1) <=> s[i - 1] = "c" \/ Later(s, i)
  <2>1. \A j : j \in (i - 1)..Len(s) <=> j = i - 1 \/ j \in i..Len(s)
    BY <1>1
  <2> QED
    BY <2>1 DEF Later
<1>4. HasSeparator(s, i) <=> s[i] # "c" /\ s[i - 1] = "c" /\ Later(s, i)
  BY <1>1 DEF HasSeparator, Later
<1>5. out \o <<>> = out
  BY EmptyFacts
<1>6. CASE s[i] = "c"
  <2>1. Trace(s, i) = <<"c">> /\ ~Unbegun(s, i)
    BY <1>1, <1>2, <1>6, TraceFacts
  <2>2. Later(s, i)
    BY <1>1, <1>6 DEF Later
  <2>3. IsNormal(out \o <<"c">>)
    <3>1. CASE Unbegun(s, i - 1)
      <4>1. out = <<>>
        BY <3>1 DEF Form
      <4> QED
        BY <4>1, EmptyFacts, NormalWord
    <3>2. CASE ~Unbegun(s, i - 1) /\ s[i - 1] # "c"
      <4>1. PICK t : IsNormal(t) /\ \E sep \in Separators : out = t \o sep
        BY <1>3, <2>2, <3>2 DEF Form
      <4>2. PICK sep \in Separators : out = t \o sep
        BY <4>1
      <4>3. IsNormal(t \o sep \o <<"c">>)
        BY <4>1, NormalJoin, NormalWord
      <4> QED
        BY <4>2, <4>3
    <3>3. CASE ~Unbegun(s, i - 1) /\ s[i - 1] = "c"
      <4>1. IsNormal(out)
        BY <3>3 DEF Form
      <4>2. IsNormal(out \o <<>> \o <<"c">>)
        BY <4>1, NormalJoin, NormalWord, EmptyFacts
      <4> QED
        BY <1>5, <4>2
    <3> QED
      BY <3>1, <3>2, <3>3
  <2> QED
    BY <1>6, <2>1, <2>3 DEF Form
<1>7. CASE HasSeparator(s, i)
  <2>1. IsNormal(out) /\ ~Unbegun(s, i)
    BY <1>2, <1>4, <1>7 DEF Form
  <2>2. Trace(s, i) \in Separators
    BY <1>1, <1>7, TraceFacts, SeparatorFacts
  <2> QED
    BY <1>4, <1>7, <2>1, <2>2 DEF Form
<1>8. CASE s[i] # "c" /\ ~HasSeparator(s, i)
  <2>1. out \o Trace(s, i) = out
    BY <1>1, <1>5, <1>8, TraceFacts
  <2>2. Form(s, i, out)
    BY <1>2, <1>3, <1>4, <1>8 DEF Form
  <2> QED
    BY <2>1, <2>2
<1> QED
  BY <1>4, <1>6, <1>7, <1>8

\* Word characters: an appended one is one more, a separator none.
LEMMA LettersAppend ==
    ASSUME NEW q \in Seq(Characters), IsFiniteSet(Letters(q))
    PROVE  /\ IsFiniteSet(Letters(q \o <<"c">>))
           /\ Cardinality(Letters(q \o <<"c">>)) = Cardinality(Letters(q)) + 1
           /\ \A sep \in Separators : Letters(q \o sep) = Letters(q)
<1> DEFINE n == Len(q)
<1>1. n \in Nat /\ DOMAIN q = 1..n
  OBVIOUS
<1>2. Letters(q \o <<"c">>) = Letters(q) \cup {n + 1}
  <2> DEFINE u == q \o <<"c">>
  <2>1. /\ u \in Seq(Characters) /\ Len(u) = n + 1
        /\ \A i \in 1..n : u[i] = q[i]
        /\ u[n + 1] = "c"
    BY EmptyFacts
  <2>2. DOMAIN u = 1..(n + 1)
    BY <2>1
  <2> HIDE DEF u
  <2>3. \A i : i \in 1..(n + 1) <=> i \in 1..n \/ i = n + 1
    BY <1>1
  <2>4. Letters(u) = Letters(q) \cup {n + 1}
    BY <1>1, <2>1, <2>2, <2>3 DEF Letters
  <2> QED
    BY <2>4 DEF u
<1>3. n + 1 \notin Letters(q)
  BY <1>1 DEF Letters
<1>4. ASSUME NEW sep \in Separators PROVE Letters(q \o sep) = Letters(q)
  <2> DEFINE u == q \o sep
  <2>1. CASE sep = <<>>
    BY <2>1, EmptyFacts
  <2>2. CASE sep = <<"s">>
    <3>1. /\ DOMAIN u = 1..(n + 1) /\ u[n + 1] = "s"
          /\ \A i \in 1..n : u[i] = q[i]
      BY <2>2
    <3> HIDE DEF u
    <3>2. \A i : i \in 1..(n + 1) <=> i \in 1..n \/ i = n + 1
      BY <1>1
    <3>3. Letters(u) = Letters(q)
      BY <1>1, <3>1, <3>2 DEF Letters
    <3> QED
      BY <3>3 DEF u
  <2>3. CASE sep = <<"n", "n">>
    <3>1. /\ DOMAIN u = 1..(n + 2) /\ u[n + 1] = "n" /\ u[n + 2] = "n"
          /\ \A i \in 1..n : u[i] = q[i]
      BY <2>3
    <3> HIDE DEF u
    <3>2. \A i : i \in 1..(n + 2) <=> i \in 1..n \/ i = n + 1 \/ i = n + 2
      BY <1>1
    <3>3. Letters(u) = Letters(q)
      BY <1>1, <3>1, <3>2 DEF Letters
    <3> QED
      BY <3>3 DEF u
  <2> QED
    BY <2>1, <2>2, <2>3 DEF Separators
<1> QED
  BY <1>2, <1>3, <1>4, FS_AddElement

LEMMA LettersFinite ==
    ASSUME NEW q \in Seq(Characters) PROVE IsFiniteSet(Letters(q))
<1>1. IsFiniteSet(1..Len(q)) /\ Letters(q) \in SUBSET (1..Len(q))
  BY FS_Interval DEF Letters
<1> QED
  BY <1>1, FS_Subset

\* The word characters among the first i.
LettersTo(s, i) == {j \in 1..i : s[j] = "c"}

\* The normalisation of a content that has a word is normal, and has as many
\* word characters as the content (normalize_knowledge_text).
THEOREM Normalization ==
    ASSUME NEW s \in Seq(Characters), "c" \in Range(s)
    PROVE  /\ IsNormal(Normalize(s))
           /\ Cardinality(Letters(Normalize(s))) = Cardinality(Letters(s))
<1> DEFINE n == Len(s)
<1>1. /\ n \in Nat \ {0} /\ DOMAIN s = 1..n /\ s # <<>>
      /\ 1 \in 1..n /\ n \in 1..n /\ 1 \in Int /\ n \in Int
      /\ \E j \in 1..n : s[j] = "c"
  BY DEF Range
<1>2. PICK g : Leaves(s, g)
  BY <1>1, Leaving
<1>3. /\ g \in [1..n -> Seq(Characters)] /\ g[1] = Trace(s, 1)
      /\ \A i \in 2..n : g[i] = g[i - 1] \o Trace(s, i)
      /\ Normalize(s) = g[n]
  BY <1>2 DEF Leaves
<1> DEFINE Good(i) ==
              /\ Form(s, i, g[i])
              /\ Cardinality(Letters(g[i])) = Cardinality(LettersTo(s, i))
           T == {i \in 1..n : Good(i)}
<1>finite. ASSUME NEW i \in Nat
           PROVE  IsFiniteSet(LettersTo(s, i))
  <2>1. IsFiniteSet(1..i) /\ LettersTo(s, i) \in SUBSET (1..i)
    BY FS_Interval DEF LettersTo
  <2> QED
    BY <2>1, FS_Subset
<1>4. Good(1)
  <2>1. Form(s, 1, g[1])
    BY <1>1, <1>3, FormFirst
  <2>2. 1 \in DOMAIN s /\ ~HasSeparator(s, 1)
    BY <1>1 DEF HasSeparator
  <2>3. CASE s[1] = "c"
    <3>1. g[1] = <<"c">>
      BY <1>3, <2>2, <2>3, TraceFacts
    <3>2. Letters(<<"c">>) = {1} /\ LettersTo(s, 1) = {1}
      BY <2>3 DEF Letters, LettersTo
    <3> QED
      BY <2>1, <3>1, <3>2
  <2>4. CASE s[1] # "c"
    <3>1. g[1] = <<>>
      BY <1>3, <2>2, <2>4, TraceFacts
    <3>2. Letters(<<>>) = {} /\ LettersTo(s, 1) = {}
      BY <2>4 DEF Letters, LettersTo
    <3> QED
      BY <2>1, <3>1, <3>2
  <2> QED
    BY <2>3, <2>4
<1>5. ASSUME NEW i \in 1..(n - 1), i \in T PROVE Good(i + 1)
  <2> DEFINE k == i + 1
  <2>1. /\ k \in 2..n /\ k \in DOMAIN s /\ i = k - 1 /\ i \in 1..n /\ k \in Nat
        /\ i \in Nat
    BY <1>1
  <2>2. /\ g[i] \in Seq(Characters) /\ g[k] = g[i] \o Trace(s, k)
        /\ Form(s, i, g[i])
        /\ Cardinality(Letters(g[i])) = Cardinality(LettersTo(s, i))
    BY <1>3, <1>5, <2>1
  <2> HIDE DEF k
  <2>3. Form(s, k, g[k])
    BY <2>1, <2>2, FormNext
  <2>4. \A j : j \in 1..k <=> j \in 1..i \/ j = k
    BY <2>1
  <2>5. CASE s[k] = "c"
    <3>1. g[k] = g[i] \o <<"c">>
      BY <2>1, <2>2, <2>5, TraceFacts
    <3>2. Cardinality(Letters(g[k])) = Cardinality(Letters(g[i])) + 1
      BY <2>2, <3>1, LettersAppend, LettersFinite
    <3>3. LettersTo(s, k) = LettersTo(s, i) \cup {k} /\ k \notin LettersTo(s, i)
      BY <2>1, <2>4, <2>5 DEF LettersTo
    <3>4. Cardinality(LettersTo(s, k)) = Cardinality(LettersTo(s, i)) + 1
      BY <1>finite, <2>1, <3>3, FS_AddElement
    <3> QED
      BY <2>2, <2>3, <3>2, <3>4 DEF k
  <2>6. CASE s[k] # "c"
    <3>1. Trace(s, k) \in Separators
      BY <2>1, <2>6, TraceFacts, SeparatorFacts, EmptyFacts
    <3>2. Letters(g[k]) = Letters(g[i])
      BY <2>2, <3>1, LettersAppend, LettersFinite
    <3>3. LettersTo(s, k) = LettersTo(s, i)
      BY <2>1, <2>4, <2>6 DEF LettersTo
    <3> QED
      BY <2>2, <2>3, <3>2, <3>3 DEF k
  <2> QED
    BY <2>5, <2>6
<1>6. 1..n \subseteq T
  <2>1. 1 \in T /\ \A i \in 1..(n - 1) : i \in T => i + 1 \in T
    <3>1. \A i \in 1..(n - 1) : i + 1 \in 1..n
      BY <1>1
    <3> HIDE DEF Good
    <3> QED
      BY <1>1, <1>4, <1>5, <3>1
  <2> HIDE DEF T, n
  <2> QED
    BY <1>1, <2>1, BoundedInduction
<1>7. Good(n)
  BY <1>1, <1>6
<1>8. ~Unbegun(s, n) /\ ~(s[n] # "c" /\ Later(s, n))
  <2>1. \A j \in n..n : j = n
    BY <1>1
  <2> QED
    BY <1>1, <2>1 DEF Unbegun, Later
<1>9. IsNormal(g[n])
  BY <1>7, <1>8 DEF Form
<1>10. LettersTo(s, n) = Letters(s)
  BY <1>1 DEF LettersTo, Letters
<1> QED
  BY <1>3, <1>7, <1>9, <1>10

\* A normal text is what its characters leave, up to i, or up to the end of the
\* blank line that begins there.
Upto(t, i) == IF IsBreak(t, i) THEN i + 1 ELSE i

LEMMA PrefixNext ==
    ASSUME NEW t \in Seq(Characters), NEW i \in 1..Len(t)
    PROVE  /\ SubSeq(t, 1, i) = SubSeq(t, 1, i - 1) \o <<t[i]>>
           /\ SubSeq(t, 1, i) \in Seq(Characters)
<1>1. 1 \in 1..Len(t) /\ i \in 1..Len(t)
  OBVIOUS
<1> QED
  BY <1>1, SubSeqRecursiveSecond

LEMMA NormalTrace ==
    ASSUME NEW t, IsNormal(t), NEW i \in 1..Len(t)
    PROVE  /\ t[i] = "c" => Trace(t, i) = <<"c">>
           /\ IsBlank(t, i) => Trace(t, i) = <<"s">>
           /\ IsBreak(t, i) => Trace(t, i) = <<"n", "n">>
           /\ IsBreak(t, i - 1) => Trace(t, i) = <<>>
<1>1. t \in Seq(Characters) /\ i \in DOMAIN t /\ Len(t) \in Nat
  BY DEF IsNormal
<1>2. CASE t[i] = "c"
  <2>1. ~IsBlank(t, i) /\ ~IsBreak(t, i) /\ ~IsBreak(t, i - 1)
    <3>1. (i - 1) + 1 = i
      OBVIOUS
    <3> QED
      BY <1>2, <3>1 DEF IsBlank, IsBreak
  <2> QED
    BY <1>1, <1>2, <2>1, TraceFacts
<1>3. CASE IsBlank(t, i)
  <2>1. /\ t[i] = "s" /\ t[i - 1] = "c" /\ t[i + 1] = "c"
        /\ i > 1 /\ i < Len(t)
    BY <1>3 DEF IsBlank
  <2>2. HasSeparator(t, i)
    <3>1. i + 1 \in i..Len(t)
      BY <1>1, <2>1
    <3> QED
      BY <2>1, <3>1 DEF HasSeparator
  <2>3. {j \in Gap(t, i) : t[j] = "n"} = {}
    <3>1. ASSUME NEW j \in Gap(t, i), t[j] = "n" PROVE FALSE
      <4>1. j \in i..Len(t) /\ \A k \in i..j : t[k] # "c"
        BY DEF Gap
      <4>2. j = i \/ i + 1 \in i..j
        BY <1>1, <4>1
      <4> QED
        BY <2>1, <3>1, <4>1, <4>2
    <3> QED
      BY <3>1
  <2>4. Separator(t, i) = <<"s">>
    <3> DEFINE newlines == {j \in Gap(t, i) : t[j] = "n"}
    <3>1. Separator(t, i) =
              IF Cardinality(newlines) > 1 THEN <<"n", "n">> ELSE <<"s">>
      BY DEF Separator
    <3>2. Cardinality(newlines) = 0
      BY <2>3, FS_EmptySet
    <3> HIDE DEF newlines
    <3> QED
      BY <3>1, <3>2
  <2>5. ~IsBreak(t, i) /\ ~IsBreak(t, i - 1)
    <3>1. (i - 1) + 1 = i
      OBVIOUS
    <3> QED
      BY <2>1, <3>1 DEF IsBreak
  <2> QED
    BY <1>1, <2>1, <2>2, <2>4, <2>5, TraceFacts
<1>4. CASE IsBreak(t, i)
  <2>1. /\ t[i - 1] = "c" /\ t[i] = "n" /\ t[i + 1] = "n" /\ t[i + 2] = "c"
        /\ i > 1 /\ i + 1 < Len(t)
    BY <1>4 DEF IsBreak
  <2>2. HasSeparator(t, i)
    <3>1. i + 2 \in i..Len(t)
      BY <1>1, <2>1
    <3> QED
      BY <2>1, <3>1 DEF HasSeparator
  <2>3. {j \in Gap(t, i) : t[j] = "n"} = {i, i + 1}
    <3>1. ASSUME NEW j \in Gap(t, i) PROVE j \in {i, i + 1}
      <4>1. j \in i..Len(t) /\ \A k \in i..j : t[k] # "c"
        BY DEF Gap
      <4>2. j = i \/ j = i + 1 \/ i + 2 \in i..j
        BY <1>1, <4>1
      <4> QED
        BY <2>1, <4>1, <4>2
    <3>2. i \in Gap(t, i) /\ i + 1 \in Gap(t, i)
      <4>1. i \in i..Len(t) /\ i + 1 \in i..Len(t)
        BY <1>1, <2>1
      <4>2. \A k \in i..(i + 1) : k = i \/ k = i + 1
        OBVIOUS
      <4>3. \A k \in i..i : k = i
        OBVIOUS
      <4>4. t[i] # "c" /\ t[i + 1] # "c"
        BY <2>1
      <4> QED
        BY <4>1, <4>2, <4>3, <4>4 DEF Gap
    <3> QED
      BY <2>1, <3>1, <3>2
  <2>4. Cardinality({i, i + 1}) = 2
    <3>1. IsFiniteSet({i}) /\ Cardinality({i}) = 1
      BY FS_Singleton
    <3>2. {i, i + 1} = {i} \cup {i + 1} /\ i + 1 \notin {i}
      OBVIOUS
    <3> DEFINE one == {i}
    <3>3. i + 1 \notin one /\ IsFiniteSet(one) /\ Cardinality(one) = 1
      BY <3>1, <3>2
    <3> HIDE DEF one
    <3>4. Cardinality(one \cup {i + 1}) = 2
      BY <3>3, FS_AddElement
    <3> QED
      BY <3>2, <3>4 DEF one
  <2>5. Separator(t, i) = <<"n", "n">>
    <3> DEFINE newlines == {j \in Gap(t, i) : t[j] = "n"}
    <3>1. Separator(t, i) =
              IF Cardinality(newlines) > 1 THEN <<"n", "n">> ELSE <<"s">>
      BY DEF Separator
    <3>2. Cardinality(newlines) = 2
      BY <2>3, <2>4
    <3> HIDE DEF newlines
    <3> QED
      BY <3>1, <3>2
  <2>6. ~IsBlank(t, i) /\ ~IsBreak(t, i - 1)
    <3>1. (i - 1) + 2 = i + 1
      OBVIOUS
    <3> QED
      BY <2>1, <3>1 DEF IsBlank, IsBreak
  <2> QED
    BY <1>1, <2>1, <2>2, <2>5, <2>6, TraceFacts
<1>5. CASE IsBreak(t, i - 1)
  <2>1. t[i - 1] = "n" /\ t[i] = "n"
    <3>1. (i - 1) + 1 = i
      OBVIOUS
    <3> QED
      BY <1>5, <3>1 DEF IsBreak
  <2>2. ~HasSeparator(t, i) /\ ~IsBlank(t, i) /\ ~IsBreak(t, i)
    BY <2>1 DEF HasSeparator, IsBlank, IsBreak
  <2> QED
    BY <1>1, <2>1, <2>2, TraceFacts
<1>6. t[i] = "c" \/ IsBlank(t, i) \/ IsBreak(t, i) \/ IsBreak(t, i - 1)
  BY DEF IsNormal
<1> QED
  BY <1>2, <1>3, <1>4, <1>5, <1>6

LEMMA PrefixStep ==
    ASSUME NEW t, IsNormal(t), NEW i \in 2..Len(t)
    PROVE  SubSeq(t, 1, Upto(t, i - 1)) \o Trace(t, i) =
               SubSeq(t, 1, Upto(t, i))
<1>1. /\ t \in Seq(Characters) /\ Len(t) \in Nat /\ i \in 1..Len(t)
      /\ (i - 1) + 1 = i
  BY DEF IsNormal
<1>2. CASE t[i] = "c"
  <2>1. ~IsBreak(t, i) /\ ~IsBreak(t, i - 1)
    BY <1>1, <1>2 DEF IsBreak
  <2> QED
    BY <1>1, <1>2, <2>1, NormalTrace, PrefixNext DEF Upto
<1>3. CASE IsBlank(t, i)
  <2>1. t[i] = "s" /\ ~IsBreak(t, i) /\ ~IsBreak(t, i - 1)
    BY <1>1, <1>3 DEF IsBlank, IsBreak
  <2> QED
    BY <1>1, <1>3, <2>1, NormalTrace, PrefixNext DEF Upto
<1>4. CASE IsBreak(t, i)
  <2>1. /\ t[i] = "n" /\ t[i + 1] = "n" /\ i + 1 \in 1..Len(t)
        /\ ~IsBreak(t, i - 1) /\ (i + 1) - 1 = i
    BY <1>1, <1>4 DEF IsBreak
  <2> DEFINE p == SubSeq(t, 1, i - 1)
  <2>2. /\ SubSeq(t, 1, i) = p \o <<"n">>
        /\ SubSeq(t, 1, i + 1) = SubSeq(t, 1, i) \o <<"n">>
    BY <1>1, <2>1, PrefixNext
  <2>3. p \in Seq(Characters)
    BY <1>1, SubSeqProperties
  <2>4. (p \o <<"n">>) \o <<"n">> = p \o <<"n", "n">>
    <3> HIDE DEF p
    <3>1. <<"n">> \in Seq(Characters)
      BY DEF Characters
    <3>2. <<"n">> \o <<"n">> = <<"n", "n">>
      <4> DEFINE two == <<"n">> \o <<"n">>
      <4>1. two \in Seq(Characters) /\ Len(two) = 2
        BY <3>1, ConcatProperties
      <4>2. two[1] = "n" /\ two[2] = "n"
        BY <3>1, ConcatProperties
      <4>3. <<"n", "n">> \in Seq(Characters) /\ Len(<<"n", "n">>) = 2
        BY DEF Characters
      <4> HIDE DEF two
      <4>4. \A j \in 1..2 : two[j] = <<"n", "n">>[j]
        BY <4>2
      <4>5. two = <<"n", "n">>
        BY <4>1, <4>3, <4>4, SeqEqual
      <4> QED
        BY <4>5 DEF two
    <3> QED
      BY <2>3, <3>1, <3>2, ConcatAssociative
  <2>5. Trace(t, i) = <<"n", "n">>
    BY <1>1, <1>4, NormalTrace
  <2> QED
    BY <1>4, <2>1, <2>2, <2>4, <2>5 DEF Upto
<1>5. CASE IsBreak(t, i - 1)
  <2>1. ~IsBreak(t, i) /\ Trace(t, i) = <<>>
    <3>1. t[i - 1] = "n"
      BY <1>5 DEF IsBreak
    <3> QED
      BY <1>1, <1>5, <3>1, NormalTrace DEF IsBreak
  <2>2. SubSeq(t, 1, i) \o <<>> = SubSeq(t, 1, i)
    BY <1>1, PrefixNext, EmptyFacts
  <2> QED
    BY <1>1, <1>5, <2>1, <2>2 DEF Upto
<1>6. t[i] = "c" \/ IsBlank(t, i) \/ IsBreak(t, i) \/ IsBreak(t, i - 1)
  BY <1>1 DEF IsNormal
<1> QED
  BY <1>2, <1>3, <1>4, <1>5, <1>6

\* A normal text is left alone (normalize_knowledge_text, which the identifier
\* and the checksum of a chunk apply to the chunk again).
THEOREM NormalizationIsIdempotent ==
    ASSUME NEW t, IsNormal(t) PROVE Normalize(t) = t
<1> DEFINE n == Len(t)
<1>1. /\ t \in Seq(Characters) /\ n \in Nat \ {0} /\ t # <<>> /\ t[1] = "c"
      /\ 1 \in 1..n /\ n \in 1..n /\ 1 \in Int /\ n \in Int
  BY DEF IsNormal
<1>2. PICK g : Leaves(t, g)
  BY <1>1, Leaving
<1>3. /\ g[1] = Trace(t, 1)
      /\ \A i \in 2..n : g[i] = g[i - 1] \o Trace(t, i)
      /\ Normalize(t) = g[n]
  BY <1>2 DEF Leaves
<1> DEFINE T == {i \in 1..n : g[i] = SubSeq(t, 1, Upto(t, i))}
<1>4. 1 \in T
  <2>1. Upto(t, 1) = 1
    BY DEF Upto, IsBreak
  <2>2. g[1] = <<"c">>
    BY <1>1, <1>3, NormalTrace
  <2>3. SubSeq(t, 1, 1) = <<"c">>
    <3>1. SubSeq(t, 1, 1) = SubSeq(t, 1, 0) \o <<t[1]>>
      BY <1>1, PrefixNext
    <3>2. SubSeq(t, 1, 0) = <<>>
      BY SubSeqEmpty
    <3> QED
      BY <1>1, <3>1, <3>2, EmptyFacts
  <2> QED
    BY <1>1, <2>1, <2>2, <2>3
<1>5. ASSUME NEW i \in 1..(n - 1), i \in T PROVE i + 1 \in T
  <2>1. i + 1 \in 2..n /\ (i + 1) - 1 = i /\ i + 1 \in 1..n
    BY <1>1
  <2>2. g[i + 1] = g[i] \o Trace(t, i + 1)
    BY <1>3, <2>1
  <2>3. g[i] = SubSeq(t, 1, Upto(t, i))
    BY <1>5
  <2>4. SubSeq(t, 1, Upto(t, i)) \o Trace(t, i + 1) =
            SubSeq(t, 1, Upto(t, i + 1))
    BY <2>1, PrefixStep
  <2> QED
    BY <2>1, <2>2, <2>3, <2>4
<1>6. 1..n \subseteq T
  <2> HIDE DEF T, n
  <2> QED
    BY <1>1, <1>4, <1>5, BoundedInduction
<1>7. g[n] = SubSeq(t, 1, Upto(t, n))
  BY <1>1, <1>6
<1>8. Upto(t, n) = n
  BY <1>1 DEF Upto, IsBreak
<1> QED
  BY <1>1, <1>3, <1>7, <1>8, SubSeqFull

-----------------------------------------------------------------------------
(***************************************************************************)
(* The windows over the text.                                              *)
(***************************************************************************)
IsWord(i) == i \in 0..(TextLength - 1) /\ ~IsSpace(i)

\* What a configuration is.
LEMMA ConfigFacts ==
    ASSUME config \in Configs
    PROVE  /\ config.max \in Nat \ {0} /\ config.overlap \in Nat
           /\ config.min \in Nat \ {0} /\ config.overlap < config.max
BY ConfigAssumption

LEMMA NormalEnds ==
    ASSUME IsNormal(text)
    PROVE  /\ TextLength \in Nat \ {0}
           /\ IsWord(0) /\ IsWord(TextLength - 1)
<1>1. /\ Len(text) \in Nat \ {0} /\ text[1] = "c" /\ text[Len(text)] = "c"
      /\ 0 + 1 = 1 /\ (Len(text) - 1) + 1 = Len(text)
  BY DEF IsNormal
<1> QED
  BY <1>1 DEF IsWord, IsSpace, TextLength

\* A window is not empty, and not larger than a chunk may be.
LEMMA WindowFacts ==
    ASSUME config \in Configs, TextLength \in Nat, start \in Nat,
           start < TextLength
    PROVE  /\ WindowEnd \in (start + 1)..TextLength
           /\ WindowEnd <= start + config.max
<1> DEFINE end == Min({start + config.max, TextLength})
           paragraphs == {i \in (start + config.min)..(end - 2) :
                             text[i + 1] = "n" /\ text[i + 2] = "n"}
<1>1. /\ config.max \in Nat \ {0} /\ config.min \in Nat \ {0}
      /\ start + config.max \in Int /\ start + config.min \in Int
  BY ConfigFacts
<1>2. end = IF start + config.max <= TextLength
            THEN start + config.max ELSE TextLength
  BY <1>1, MinMaxOfTwo
<1>3. end \in (start + 1)..TextLength /\ end <= start + config.max
  BY <1>1, <1>2
<1>4. WindowEnd = IF end < TextLength /\ paragraphs # {}
                  THEN Max(paragraphs) ELSE end
  BY DEF WindowEnd
<1> HIDE DEF end
<1>5. CASE paragraphs # {}
  <2>1. /\ paragraphs \in SUBSET ((start + config.min)..(end - 2))
        /\ end - 2 \in Int
    BY <1>3
  <2>2. Max(paragraphs) \in (start + config.min)..(end - 2)
    <3> HIDE DEF paragraphs
    <3> QED
      BY <1>1, <1>5, <2>1, MaxFacts
  <2> HIDE DEF paragraphs
  <2>3. Max(paragraphs) \in (start + 1)..end
    BY <1>1, <1>3, <2>2
  <2> QED
    BY <1>1, <1>3, <1>4, <2>3
<1>6. CASE paragraphs = {}
  BY <1>3, <1>4, <1>6
<1> QED
  BY <1>5, <1>6

\* Whitespace is skipped up to the next word, and there is one.
LEMMA SkipFacts ==
    ASSUME IsNormal(text), NEW i \in 0..(TextLength - 1)
    PROVE  /\ SkipWhitespace(i) \in i..(TextLength - 1)
           /\ \A j \in i..(SkipWhitespace(i) - 1) : ~IsWord(j)
<1> DEFINE stops == {j \in i..TextLength : j = TextLength \/ ~IsSpace(j)}
<1>1. TextLength \in Nat \ {0} /\ IsWord(TextLength - 1)
  BY NormalEnds
<1>2. TextLength - 1 \in stops /\ stops \in SUBSET (i..TextLength)
  BY <1>1 DEF IsWord
<1>3. SkipWhitespace(i) = Min(stops)
  BY DEF SkipWhitespace
<1>4. i \in Int /\ TextLength \in Int
  BY <1>1
<1>5. Min(stops) \in stops /\ \A j \in stops : Min(stops) <= j
  <2> HIDE DEF stops
  <2> QED
    BY <1>2, <1>4, MinFacts
<1>6. Min(stops) \in i..(TextLength - 1)
  BY <1>1, <1>2, <1>5
<1>7. ASSUME NEW j \in i..(Min(stops) - 1), IsWord(j) PROVE FALSE
  <2>1. j \in stops
    BY <1>1, <1>6, <1>7 DEF IsWord
  <2>2. j < Min(stops)
    BY <1>4, <1>6
  <2> QED
    BY <1>5, <1>6, <2>1, <2>2
<1> QED
  BY <1>3, <1>6, <1>7

\* The next window starts behind the start of this one, at most the overlap
\* before its end, and no word is between its end and the next window.
LEMMA NextStartFacts ==
    ASSUME config \in Configs, IsNormal(text), start \in Nat,
           NEW end \in (start + 1)..(TextLength - 1)
    PROVE  /\ NextStart(end) \in (start + 1)..(TextLength - 1)
           /\ end - config.overlap <= NextStart(end)
           /\ \A j \in end..(NextStart(end) - 1) : ~IsWord(j)
<1> DEFINE back == Max({end - config.overlap, 0})
           from == IF back <= start THEN end ELSE back
<1>1. /\ TextLength \in Nat \ {0} /\ config.overlap \in Nat
      /\ end - config.overlap \in Int /\ 0 \in Int
  BY NormalEnds, ConfigFacts
<1>2. back = IF end - config.overlap <= 0 THEN 0 ELSE end - config.overlap
  BY <1>1, MinMaxOfTwo
<1>3. /\ from \in (start + 1)..end /\ end - config.overlap <= from
      /\ from \in 0..(TextLength - 1)
  BY <1>1, <1>2
<1>4. NextStart(end) = SkipWhitespace(from)
  BY DEF NextStart
<1> HIDE DEF from
<1>5. /\ SkipWhitespace(from) \in from..(TextLength - 1)
      /\ \A j \in from..(SkipWhitespace(from) - 1) : ~IsWord(j)
  BY <1>3, SkipFacts
<1>6. \A j \in end..(SkipWhitespace(from) - 1) :
          j \in from..(SkipWhitespace(from) - 1)
  BY <1>1, <1>3, <1>5
<1> QED
  BY <1>1, <1>3, <1>4, <1>5, <1>6

\* A span of the text that begins and ends in a word and fits a chunk.
IsCut(span) ==
    /\ span \in Nat \X Nat
    /\ span[1] < span[2] /\ span[2] <= TextLength
    /\ Width(span) <= config.max
    /\ IsWord(span[1]) /\ IsWord(span[2] - 1)

In(i, span) == i \in span[1]..(span[2] - 1)

\* A strip keeps every word, and takes the whitespace around them.
LEMMA StripFacts ==
    ASSUME config \in Configs, TextLength \in Nat,
           NEW lo \in Nat, NEW hi \in (lo + 1)..TextLength,
           hi <= lo + config.max
    PROVE  \/ /\ Strip(lo, hi) = <<>>
              /\ \A i \in lo..(hi - 1) : ~IsWord(i)
           \/ \E span : /\ Strip(lo, hi) = <<span>> /\ IsCut(span)
                        /\ lo <= span[1] /\ span[2] <= hi
                        /\ \A i \in lo..(hi - 1) : IsWord(i) => In(i, span)
<1> DEFINE words == {i \in lo..(hi - 1) : ~IsSpace(i)}
<1>1. /\ lo \in Int /\ hi - 1 \in Int /\ hi \in Nat /\ hi <= TextLength
      /\ words \in SUBSET (lo..(hi - 1))
      /\ config.max \in Nat
  BY ConfigFacts
<1>2. Strip(lo, hi) = IF words = {} THEN <<>>
                      ELSE << <<Min(words), Max(words) + 1>> >>
  BY DEF Strip
<1>3. \A i \in lo..(hi - 1) : IsWord(i) <=> i \in words
  BY <1>1 DEF IsWord
<1>4. CASE words = {}
  BY <1>2, <1>3, <1>4
<1>5. CASE words # {}
  <2> DEFINE a == Min(words)
             b == Max(words)
  <2>1. /\ a \in words /\ b \in words
        /\ \A i \in words : a <= i /\ i <= b
    <3> HIDE DEF words
    <3> QED
      BY <1>1, <1>5, MinFacts, MaxFacts
  <2>2. /\ a \in lo..(hi - 1) /\ b \in lo..(hi - 1) /\ a <= b
        /\ IsWord(a) /\ IsWord(b)
    BY <1>1, <1>3, <2>1
  <2> HIDE DEF words, a, b
  <2> DEFINE span == <<a, b + 1>>
  <2>3. /\ a \in Nat /\ b \in Nat /\ b + 1 \in Nat /\ (b + 1) - 1 = b
        /\ a < b + 1 /\ b + 1 <= hi /\ (b + 1) - a <= config.max
    BY <1>1, <2>2
  <2>4. IsCut(span)
    BY <1>1, <2>2, <2>3 DEF IsCut, Width
  <2>5. \A i \in lo..(hi - 1) : IsWord(i) => In(i, span)
    <3>1. \A i \in lo..(hi - 1) : IsWord(i) => i \in a..b
      BY <1>1, <1>3, <2>1, <2>2
    <3> QED
      BY <2>3, <3>1 DEF In
  <2>6. lo <= span[1] /\ span[2] <= hi
    BY <1>1, <2>2, <2>3
  <2>7. Strip(lo, hi) = <<span>>
    BY <1>2, <1>5 DEF a, b
  <2> HIDE DEF span
  <2> QED
    BY <2>4, <2>5, <2>6, <2>7
<1> QED
  BY <1>4, <1>5

-----------------------------------------------------------------------------
(***************************************************************************)
(* The invariant.  Until the merge, a chunk is one cut.  What is before    *)
(* the start of the next window is in a chunk, and the last chunk ends at  *)
(* most the overlap behind that start.                                     *)
(***************************************************************************)
IsOne(c) == Len(c) = 1 /\ IsCut(c[1])
IsJoint(c) ==
    /\ Len(c) = 2 /\ IsCut(c[1]) /\ IsCut(c[2])
    /\ Size(c) <= config.max

Covered(cs, n) ==
    \A i \in 0..(n - 1) : IsWord(i) =>
        \E k \in 1..Len(cs) : \E j \in 1..Len(cs[k]) : In(i, cs[k][j])

Ends(c) == c[Len(c)][2]
Near(cs) ==
    \A k \in 1..(Len(cs) - 1) : Ends(cs[k]) - cs[k + 1][1][1] <= config.overlap

Begun == pc = "normalize" => text = <<>> /\ start = 0 /\ chunks = <<>>

Normalized ==
    pc # "normalize" =>
        /\ IsNormal(text)
        /\ Cardinality(Letters(text)) = Cardinality(Letters(content))

Chunked ==
    /\ pc # "done" => \A k \in 1..Len(chunks) : IsOne(chunks[k])
    /\ pc = "done" =>
          \A k \in 1..Len(chunks) : IsOne(chunks[k]) \/ IsJoint(chunks[k])
    /\ Near(chunks)

Reached ==
    /\ pc = "split" =>
          /\ start < TextLength /\ Covered(chunks, start)
          /\ chunks # <<>> =>
                Ends(chunks[Len(chunks)]) - start <= config.overlap
    /\ pc \in {"merge", "done"} => Covered(chunks, TextLength)

ChunkInv == TypeOK /\ Begun /\ Normalized /\ Chunked /\ Reached

LEMMA ChunkInit == Init => ChunkInv
<1> SUFFICES ASSUME Init PROVE ChunkInv
  OBVIOUS
<1>1. /\ content \in Documents /\ config \in Configs /\ text = <<>>
      /\ start = 0 /\ chunks = <<>> /\ pc = "normalize"
  BY DEF Init
<1>2. /\ <<>> \in Seq(Characters) /\ <<>> \in Seq(Seq(Nat \X Nat))
      /\ Len(<<>>) = 0
  OBVIOUS
<1>3. TypeOK
  BY <1>1, <1>2 DEF TypeOK, TextLength
<1>4. Chunked
  BY <1>1, <1>2 DEF Chunked, Near
<1> QED
  BY <1>1, <1>3, <1>4 DEF ChunkInv, Begun, Normalized, Reached

LEMMA NormalizeStep == ChunkInv /\ NormalizeContent => ChunkInv'
<1> SUFFICES ASSUME ChunkInv, NormalizeContent PROVE ChunkInv'
  OBVIOUS
<1>1. /\ text' = Normalize(content) /\ pc' = "split" /\ pc = "normalize"
      /\ UNCHANGED <<content, config, start, chunks>>
  BY DEF NormalizeContent
<1>2. /\ content \in Documents /\ config \in Configs /\ start = 0
      /\ chunks = <<>> /\ chunks \in Seq(Seq(Nat \X Nat))
  BY <1>1 DEF ChunkInv, TypeOK, Begun
<1>3. content \in Seq(Characters) /\ "c" \in Range(content)
  BY <1>2, DocumentAssumption
<1>4. /\ IsNormal(text')
      /\ Cardinality(Letters(text')) = Cardinality(Letters(content))
  BY <1>1, <1>3, Normalization
<1>5. text' \in Seq(Characters) /\ TextLength' \in Nat /\ 0 < TextLength'
  BY <1>4 DEF IsNormal, TextLength
<1>6. start' = 0 /\ chunks' = <<>> /\ Len(<<>>) = 0
  BY <1>1, <1>2
<1>7. TypeOK'
  BY <1>1, <1>2, <1>5 DEF TypeOK
<1>8. Begun' /\ Normalized'
  BY <1>1, <1>4 DEF Begun, Normalized
<1>9. Chunked'
  BY <1>1, <1>6 DEF Chunked, Near
<1>10. Reached'
  <2>1. Covered(chunks, start)'
    BY <1>6 DEF Covered
  <2> QED
    BY <1>1, <1>5, <1>6, <2>1 DEF Reached
<1> QED
  BY <1>7, <1>8, <1>9, <1>10 DEF ChunkInv

\* What a pass of the loop adds to the chunks.
LEMMA SplitAdds ==
    ASSUME ChunkInv, pc = "split", NEW end, end = WindowEnd, NEW cs,
           cs = IF Strip(start, end) = <<>> THEN chunks
                ELSE Append(chunks, Strip(start, end))
    PROVE  /\ cs \in Seq(Seq(Nat \X Nat))
           /\ \A k \in 1..Len(cs) : IsOne(cs[k])
           /\ Near(cs) /\ Covered(cs, end)
           /\ cs # <<>> => \/ Ends(cs[Len(cs)]) <= end
                           \/ Ends(cs[Len(cs)]) - start <= config.overlap
<1> DEFINE n == Len(chunks)
<1>1. /\ config \in Configs /\ start \in Nat /\ start < TextLength
      /\ TextLength \in Nat /\ chunks \in Seq(Seq(Nat \X Nat))
      /\ config.overlap \in Nat
  <2>1. /\ config \in Configs /\ text \in Seq(Characters)
        /\ start \in 0..TextLength
        /\ chunks \in Seq(Seq(Nat \X Nat)) /\ start < TextLength
    BY DEF ChunkInv, TypeOK, Reached
  <2> QED
    BY <2>1, ConfigFacts DEF TextLength
<1>2. end \in (start + 1)..TextLength /\ end <= start + config.max
  BY <1>1, WindowFacts
<1>3. /\ \A k \in 1..n : IsOne(chunks[k])
      /\ Near(chunks) /\ Covered(chunks, start)
      /\ chunks # <<>> => Ends(chunks[n]) - start <= config.overlap
  BY DEF ChunkInv, Chunked, Reached
<1>4. \A i \in 0..(end - 1) : i \in 0..(start - 1) \/ i \in start..(end - 1)
  BY <1>1, <1>2
<1>5. CASE Strip(start, end) = <<>>
  <2>1. cs = chunks /\ \A i \in start..(end - 1) : ~IsWord(i)
    <3>1. \A x : <<x>> # <<>>
      OBVIOUS
    <3>2. ~\E x : Strip(start, end) = <<x>>
      BY <1>5, <3>1
    <3>3. \A i \in start..(end - 1) : ~IsWord(i)
      BY <1>1, <1>2, <3>2, StripFacts
    <3> QED
      BY <1>5, <3>3
  <2>2. Covered(chunks, end)
    BY <1>3, <1>4, <2>1 DEF Covered
  <2> QED
    BY <1>1, <1>3, <2>1, <2>2
<1>6. CASE Strip(start, end) # <<>>
  <2>1. PICK span : /\ Strip(start, end) = <<span>> /\ IsCut(span)
                    /\ start <= span[1] /\ span[2] <= end
                    /\ \A i \in start..(end - 1) : IsWord(i) => In(i, span)
    BY <1>1, <1>2, <1>6, StripFacts
  <2>2. span \in Nat \X Nat
    BY <2>1 DEF IsCut
  <2> DEFINE c == <<span>>
  <2>3. c \in Seq(Nat \X Nat) /\ Len(c) = 1 /\ c[1] = span
    BY <2>2
  <2> HIDE DEF c
  <2>4. cs = Append(chunks, c)
    BY <1>6, <2>1 DEF c
  <2>5. /\ cs \in Seq(Seq(Nat \X Nat)) /\ Len(cs) = n + 1 /\ n \in Nat
        /\ \A k \in 1..n : cs[k] = chunks[k]
        /\ cs[n + 1] = c
    BY <1>1, <2>3, <2>4
  <2>6. \A k \in 1..(n + 1) : k \in 1..n \/ k = n + 1
    BY <2>5
  <2>7. ASSUME NEW k \in 1..Len(cs) PROVE IsOne(cs[k])
    BY <1>3, <2>1, <2>3, <2>5, <2>6 DEF IsOne
  <2>8. ASSUME NEW k \in 1..(Len(cs) - 1)
        PROVE  Ends(cs[k]) - cs[k + 1][1][1] <= config.overlap
    <3>1. k \in 1..n /\ cs[k] = chunks[k]
      BY <2>5
    <3>2. CASE k = n
      <4>1. chunks # <<>>
        BY <1>1, <2>5, <3>1
      <4>2. Ends(chunks[n]) - start <= config.overlap
        BY <1>3, <4>1
      <4>3. Ends(chunks[n]) \in Nat
        <5>1. IsOne(chunks[n])
          BY <1>3, <3>1, <3>2
        <5> QED
          BY <5>1 DEF IsOne, IsCut, Ends
      <4>4. cs[k + 1][1][1] = span[1] /\ span[1] \in Nat
        BY <2>2, <2>3, <2>5, <3>2
      <4>5. start \in Nat /\ config.overlap \in Nat /\ start <= span[1]
        BY <1>1, <2>1
      <4> DEFINE e == Ends(chunks[n])
      <4> HIDE DEF e
      <4>6. e - span[1] <= config.overlap
        BY <4>2, <4>3, <4>4, <4>5 DEF e
      <4> QED
        BY <3>1, <3>2, <4>4, <4>6 DEF e
    <3>3. CASE k # n
      <4>1. k \in 1..(n - 1) /\ k + 1 \in 1..n
        BY <2>5, <3>1, <3>3
      <4> QED
        BY <1>3, <2>5, <3>1, <4>1 DEF Near
    <3> QED
      BY <3>2, <3>3
  <2>9. ASSUME NEW i \in 0..(end - 1), IsWord(i)
        PROVE  \E k \in 1..Len(cs) : \E j \in 1..Len(cs[k]) : In(i, cs[k][j])
    <3>1. CASE i \in 0..(start - 1)
      <4>1. PICK k \in 1..n : \E j \in 1..Len(chunks[k]) : In(i, chunks[k][j])
        BY <1>3, <2>9, <3>1 DEF Covered
      <4>2. k \in 1..Len(cs) /\ cs[k] = chunks[k]
        BY <2>5
      <4> QED
        BY <4>1, <4>2
    <3>2. CASE i \in start..(end - 1)
      <4>1. In(i, span)
        BY <2>1, <2>9, <3>2
      <4>2. n + 1 \in 1..Len(cs) /\ cs[n + 1][1] = span
            /\ 1 \in 1..Len(cs[n + 1])
        BY <2>3, <2>5
      <4> QED
        BY <4>1, <4>2
    <3> QED
      BY <1>4, <3>1, <3>2
  <2>10. Ends(cs[Len(cs)]) <= end
    BY <2>1, <2>3, <2>5 DEF Ends
  <2>11. Near(cs) /\ Covered(cs, end)
    BY <2>8, <2>9 DEF Near, Covered
  <2> QED
    BY <2>5, <2>7, <2>10, <2>11
<1> QED
  BY <1>5, <1>6

LEMMA SplitStep == ChunkInv /\ SplitOff => ChunkInv'
<1> SUFFICES ASSUME ChunkInv, SplitOff PROVE ChunkInv'
  OBVIOUS
<1> DEFINE end == WindowEnd
<1>1. /\ pc = "split"
      /\ chunks' = IF Strip(start, end) = <<>> THEN chunks
                   ELSE Append(chunks, Strip(start, end))
      /\ IF end >= TextLength THEN pc' = "merge" /\ start' = start
         ELSE start' = NextStart(end) /\ pc' = "split"
      /\ UNCHANGED <<content, config, text>>
  BY DEF SplitOff
<1>2. /\ config \in Configs /\ content \in Documents
      /\ text \in Seq(Characters) /\ IsNormal(text)
      /\ start \in Nat /\ start < TextLength /\ TextLength \in Nat
      /\ Cardinality(Letters(text)) = Cardinality(Letters(content))
  <2>1. /\ config \in Configs /\ content \in Documents
        /\ text \in Seq(Characters) /\ IsNormal(text)
        /\ start \in 0..TextLength /\ start < TextLength
        /\ Cardinality(Letters(text)) = Cardinality(Letters(content))
    BY <1>1 DEF ChunkInv, TypeOK, Normalized, Reached
  <2> QED
    BY <2>1 DEF TextLength
<1>3. end \in (start + 1)..TextLength
  BY <1>2, WindowFacts
<1>4. /\ chunks' \in Seq(Seq(Nat \X Nat))
      /\ \A k \in 1..Len(chunks') : IsOne(chunks'[k])
      /\ Near(chunks') /\ Covered(chunks', end)
      /\ chunks' # <<>> =>
            \/ Ends(chunks'[Len(chunks')]) <= end
            \/ Ends(chunks'[Len(chunks')]) - start <= config.overlap
  <2> HIDE DEF end
  <2>1. end = WindowEnd
    BY DEF end
  <2> QED
    BY <1>1, <2>1, SplitAdds
<1> HIDE DEF end
<1>5. TextLength' = TextLength /\ \A i : IsWord(i)' <=> IsWord(i)
  BY <1>1 DEF TextLength, IsWord, IsSpace
<1>6. \A span : IsCut(span)' <=> IsCut(span)
  BY <1>1, <1>5 DEF IsCut
<1>7. \A k \in 1..Len(chunks') : IsOne(chunks[k])'
  BY <1>4, <1>6 DEF IsOne
<1>8. Near(chunks)'
  BY <1>1, <1>4 DEF Near
<1>9. ASSUME NEW m, Covered(chunks', m)
      PROVE  \A i \in 0..(m - 1) : IsWord(i)' =>
          \E k \in 1..Len(chunks') : \E j \in 1..Len(chunks'[k]) :
              In(i, chunks'[k][j])
  BY <1>5, <1>9 DEF Covered
<1>10. Begun' /\ Normalized'
  BY <1>1, <1>2 DEF Begun, Normalized
<1>11. CASE end >= TextLength
  <2>1. pc' = "merge" /\ start' = start /\ end = TextLength
    BY <1>1, <1>2, <1>3, <1>11
  <2>2. TypeOK'
    BY <1>1, <1>2, <1>4, <1>5, <2>1 DEF TypeOK
  <2>3. Chunked'
    BY <1>7, <1>8, <2>1 DEF Chunked
  <2>4. Covered(chunks, TextLength)'
    BY <1>4, <1>5, <1>9, <2>1 DEF Covered
  <2>5. Reached'
    BY <2>1, <2>4 DEF Reached
  <2> QED
    BY <1>10, <2>2, <2>3, <2>5 DEF ChunkInv
<1>12. CASE ~(end >= TextLength)
  <2>1. pc' = "split" /\ start' = NextStart(end)
        /\ end \in (start + 1)..(TextLength - 1)
    BY <1>1, <1>2, <1>3, <1>12
  <2>2. /\ start' \in (start + 1)..(TextLength - 1)
        /\ end - config.overlap <= start'
        /\ \A j \in end..(start' - 1) : ~IsWord(j)
    BY <1>2, <2>1, NextStartFacts
  <2>3. start' \in 0..TextLength' /\ start' < TextLength'
    BY <1>2, <1>5, <2>2
  <2>4. TypeOK'
    BY <1>1, <1>2, <1>4, <2>1, <2>3 DEF TypeOK
  <2>5. Chunked'
    BY <1>7, <1>8, <2>1 DEF Chunked
  <2>6. Covered(chunks', start')
    <3>1. \A i \in 0..(start' - 1) :
              i \in 0..(end - 1) \/ i \in end..(start' - 1)
      BY <1>2, <2>1, <2>2
    <3> QED
      BY <1>4, <2>2, <3>1 DEF Covered
  <2>7. Covered(chunks, start)'
    BY <1>9, <2>6 DEF Covered
  <2>8. ASSUME chunks' # <<>>
        PROVE  Ends(chunks'[Len(chunks')]) - start' <= config.overlap
    <3> DEFINE e == Ends(chunks'[Len(chunks')])
    <3>1. e \in Nat
      <4>1. Len(chunks') \in 1..Len(chunks')
        BY <1>4, <2>8
      <4>2. IsOne(chunks'[Len(chunks')])
        BY <1>4, <4>1
      <4> QED
        BY <4>2 DEF IsOne, IsCut, Ends
    <3>2. e <= end \/ e - start <= config.overlap
      BY <1>4, <2>8
    <3>3. config.overlap \in Nat
      BY <1>2, ConfigFacts
    <3> HIDE DEF e
    <3>4. e - start' <= config.overlap
      BY <1>2, <2>1, <2>2, <3>1, <3>2, <3>3
    <3> QED
      BY <3>4 DEF e
  <2>9. Reached'
    BY <1>1, <2>1, <2>3, <2>7, <2>8 DEF Reached, Ends
  <2> QED
    BY <1>10, <2>4, <2>5, <2>9 DEF ChunkInv
<1> QED
  BY <1>11, <1>12


\* A chunk of either form ends and begins at a number.
LEMMA EndsFacts ==
    ASSUME NEW c, IsOne(c) \/ IsJoint(c)
    PROVE  /\ Len(c) \in 1..2 /\ Ends(c) \in Nat /\ c[1][1] \in Nat
           /\ \A j \in 1..Len(c) : IsCut(c[j])
<1>1. CASE IsOne(c)
  <2>1. Len(c) = 1 /\ IsCut(c[1]) /\ \A j \in 1..1 : j = 1
    BY <1>1 DEF IsOne
  <2> QED
    BY <2>1 DEF IsCut, Ends
<1>2. CASE IsJoint(c)
  <2>1. /\ Len(c) = 2 /\ IsCut(c[1]) /\ IsCut(c[2])
        /\ \A j \in 1..2 : j = 1 \/ j = 2
    BY <1>2 DEF IsJoint
  <2> QED
    BY <2>1 DEF IsCut, Ends
<1> QED
  BY <1>1, <1>2

Spans == Nat \X Nat

LEMMA Pairing ==
    ASSUME NEW S, NEW a \in Seq(S), NEW b \in Seq(S), Len(a) = 1, Len(b) = 1
    PROVE  /\ a \o b \in Seq(S) /\ Len(a \o b) = 2
           /\ (a \o b)[1] = a[1] /\ (a \o b)[2] = b[1]
<1>1. /\ a \o b \in Seq(S) /\ Len(a \o b) = 1 + 1
      /\ \A i \in 1..(1 + 1) : (a \o b)[i] = IF i <= 1 THEN a[i] ELSE b[i - 1]
  BY ConcatProperties
<1>2. 1 \in 1..(1 + 1) /\ 2 \in 1..(1 + 1) /\ ~(2 <= 1) /\ 2 - 1 = 1
  OBVIOUS
<1> QED
  BY <1>1, <1>2

\* The last two elements of a sequence are replaced by one.
LEMMA LastTwo ==
    ASSUME NEW S, NEW s \in Seq(S), NEW back \in Seq(S),
           Len(s) >= 2, Len(back) = 1
    PROVE  LET new == SubSeq(s, 1, Len(s) - 2) \o back
           IN  /\ new \in Seq(S) /\ Len(new) = Len(s) - 1
               /\ \A k \in 1..(Len(s) - 2) : new[k] = s[k]
               /\ new[Len(s) - 1] = back[1]
<1> DEFINE n == Len(s)
           front == SubSeq(s, 1, n - 2)
           new == front \o back
<1>1. n \in Nat /\ n >= 2 /\ n - 2 \in Nat
  OBVIOUS
<1>2. /\ front \in Seq(S) /\ Len(front) = n - 2
      /\ \A k \in 1..(n - 2) : front[k] = s[k]
  <2>1. \A i \in 1..(n - 2) : i \in 1..n
    BY <1>1
  <2>2. \A i \in 1..(n - 2) : s[i] \in S
    BY <2>1
  <2> HIDE DEF n
  <2>3. /\ 1 \in Int /\ n - 2 \in Int
        /\ \A i \in 1..(n - 2) : 1 + i - 1 = i
        /\ (n - 2) - 1 + 1 = n - 2 /\ ~(1 <= n - 2) => n - 2 = 0
    BY <1>1
  <2> QED
    BY <2>2, <2>3, SubSeqProperties
<1> HIDE DEF front
<1>3. /\ new \in Seq(S) /\ Len(new) = Len(front) + Len(back)
      /\ \A k \in 1..(Len(front) + Len(back)) :
            new[k] = IF k <= Len(front) THEN front[k]
                     ELSE back[k - Len(front)]
  BY <1>2, ConcatProperties
<1> HIDE DEF n, new
<1>4. /\ (n - 2) + 1 = n - 1 /\ (n - 1) - (n - 2) = 1
      /\ n - 1 \in 1..((n - 2) + 1) /\ ~(n - 1 <= n - 2)
      /\ \A k \in 1..(n - 2) : k \in 1..((n - 2) + 1) /\ k <= n - 2
  BY <1>1
<1>5. /\ new \in Seq(S) /\ Len(new) = n - 1
      /\ \A k \in 1..(n - 2) : new[k] = s[k]
      /\ new[n - 1] = back[1]
  BY <1>2, <1>3, <1>4
<1> QED
  BY <1>5 DEF n, new, front

\* The merge: nothing changes, or the last two chunks become one.
LEMMA MergeFacts ==
    ASSUME config \in Configs, NEW cs, cs \in Seq(Seq(Nat \X Nat)),
           \A k \in 1..Len(cs) : IsOne(cs[k])
    PROVE  \/ MergeTinyFinalChunk(cs) = cs
           \/ \E new \in Seq(Seq(Nat \X Nat)) :
                 /\ MergeTinyFinalChunk(cs) = new
                 /\ Len(cs) >= 2 /\ Len(new) = Len(cs) - 1
                 /\ \A k \in 1..(Len(cs) - 2) : new[k] = cs[k]
                 /\ IsJoint(new[Len(cs) - 1])
                 /\ new[Len(cs) - 1][1] = cs[Len(cs) - 1][1]
                 /\ new[Len(cs) - 1][2] = cs[Len(cs)][1]
<1> DEFINE n == Len(cs)
           joint == cs[n - 1] \o cs[n]
           new == SubSeq(cs, 1, n - 2) \o <<joint>>
<1>1. n \in Nat
  OBVIOUS
<1>2. CASE n >= 2 /\ Size(joint) <= config.max
  <2>1. n \in 1..n /\ n - 1 \in 1..n
    BY <1>1, <1>2
  <2>2. /\ IsOne(cs[n - 1]) /\ IsOne(cs[n])
        /\ cs[n - 1] \in Seq(Nat \X Nat) /\ cs[n] \in Seq(Nat \X Nat)
    BY <2>1
  <2>3. /\ joint \in Seq(Nat \X Nat) /\ Len(joint) = 2
        /\ joint[1] = cs[n - 1][1] /\ joint[2] = cs[n][1]
    <3>1. Len(cs[n - 1]) = 1 /\ Len(cs[n]) = 1
      BY <2>2 DEF IsOne
    <3>2. cs[n - 1] \in Seq(Spans) /\ cs[n] \in Seq(Spans)
      BY <2>2 DEF Spans
    <3> DEFINE a == cs[n - 1]
               b == cs[n]
    <3>3. a \in Seq(Spans) /\ b \in Seq(Spans) /\ Len(a) = 1 /\ Len(b) = 1
      BY <3>1, <3>2
    <3> HIDE DEF a, b
    <3>4. /\ a \o b \in Seq(Spans) /\ Len(a \o b) = 2
          /\ (a \o b)[1] = a[1] /\ (a \o b)[2] = b[1]
      BY <3>3, Pairing
    <3> QED
      BY <3>4 DEF a, b, Spans
  <2>4. IsJoint(joint)
    BY <1>2, <2>2, <2>3 DEF IsOne, IsJoint
  <2> HIDE DEF joint
  <2>5. /\ new \in Seq(Seq(Nat \X Nat)) /\ Len(new) = n - 1
        /\ \A k \in 1..(n - 2) : new[k] = cs[k]
        /\ new[n - 1] = joint
    <3>1. joint \in Seq(Nat \X Nat) /\ n = Len(cs) /\ n \in Nat /\ n >= 2
      BY <1>1, <1>2, <2>3
    <3>2. cs \in Seq(Seq(Spans)) /\ joint \in Seq(Spans)
      BY <3>1 DEF Spans
    <3> DEFINE S == Seq(Spans)
               back == <<joint>>
    <3>3. cs \in Seq(S) /\ back \in Seq(S) /\ Len(back) = 1 /\ back[1] = joint
      BY <3>2
    <3> HIDE DEF S, n, joint, back
    <3>4. /\ new \in Seq(S) /\ Len(new) = n - 1
          /\ \A k \in 1..(n - 2) : new[k] = cs[k]
          /\ new[n - 1] = joint
      <4> DEFINE whole == SubSeq(cs, 1, Len(cs) - 2) \o back
      <4>1. Len(cs) >= 2
        BY <3>1
      <4>2. /\ whole \in Seq(S) /\ Len(whole) = Len(cs) - 1
            /\ \A k \in 1..(Len(cs) - 2) : whole[k] = cs[k]
            /\ whole[Len(cs) - 1] = back[1]
        BY ONLY <3>3, <4>1, LastTwo
      <4>3. whole = new
        BY <3>1 DEF back
      <4> HIDE DEF whole, new
      <4> QED
        BY <3>1, <3>3, <4>2, <4>3
    <3> QED
      BY <3>4 DEF S, Spans
  <2> HIDE DEF new
  <2>6. MergeTinyFinalChunk(cs) = cs \/ MergeTinyFinalChunk(cs) = new
    BY DEF MergeTinyFinalChunk, new, joint
  <2> QED
    BY <1>2, <2>3, <2>4, <2>5, <2>6
<1>3. CASE ~(n >= 2 /\ Size(joint) <= config.max)
  BY <1>3 DEF MergeTinyFinalChunk
<1> QED
  BY <1>2, <1>3

\* What the merge leaves of the chunks.
LEMMA MergeKeeps ==
    ASSUME ChunkInv, pc = "merge", NEW cs, cs = MergeTinyFinalChunk(chunks)
    PROVE  /\ cs \in Seq(Seq(Nat \X Nat))
           /\ \A k \in 1..Len(cs) : IsOne(cs[k]) \/ IsJoint(cs[k])
           /\ Near(cs) /\ Covered(cs, TextLength)
<1> DEFINE n == Len(chunks)
<1>1. /\ config \in Configs /\ chunks \in Seq(Seq(Nat \X Nat)) /\ n \in Nat
      /\ \A k \in 1..n : IsOne(chunks[k])
      /\ Near(chunks) /\ Covered(chunks, TextLength)
  BY DEF ChunkInv, TypeOK, Chunked, Reached
<1>2. CASE cs = chunks
  BY <1>1, <1>2
<1>3. CASE cs # chunks
  <2>1. /\ cs \in Seq(Seq(Nat \X Nat)) /\ n >= 2 /\ Len(cs) = n - 1
        /\ \A k \in 1..(n - 2) : cs[k] = chunks[k]
        /\ IsJoint(cs[n - 1])
        /\ cs[n - 1][1] = chunks[n - 1][1] /\ cs[n - 1][2] = chunks[n][1]
    BY <1>1, <1>3, MergeFacts
  <2> HIDE DEF n
  <2>2. n \in Nat /\ n >= 2 /\ Len(cs) = n - 1
    BY <1>1, <2>1
  <2>3. ASSUME NEW k \in 1..Len(cs) PROVE IsOne(cs[k]) \/ IsJoint(cs[k])
    <3>1. k \in 1..(n - 2) \/ k = n - 1
      BY <2>2
    <3>2. \A i \in 1..(n - 2) : i \in 1..n
      BY <2>2
    <3>3. CASE k \in 1..(n - 2)
      <4>1. cs[k] = chunks[k] /\ IsOne(chunks[k])
        BY <1>1, <2>1, <3>2, <3>3 DEF n
      <4> QED
        BY <4>1
    <3> QED
      BY <2>1, <3>1, <3>3
  <2>4. ASSUME NEW k \in 1..(Len(cs) - 1)
        PROVE  Ends(cs[k]) - cs[k + 1][1][1] <= config.overlap
    <3>1. /\ k \in 1..(n - 1) /\ k \in 1..(n - 2) /\ cs[k] = chunks[k]
          /\ k + 1 \in 1..(n - 2) \/ k + 1 = n - 1
      <4>1. /\ k \in 1..(n - 1) /\ k \in 1..(n - 2)
            /\ k + 1 \in 1..(n - 2) \/ k + 1 = n - 1
        BY <2>2
      <4> QED
        BY <2>1, <4>1
    <3>2. Ends(chunks[k]) - chunks[k + 1][1][1] <= config.overlap
      BY <1>1, <3>1 DEF Near, n
    <3>3. cs[k + 1][1] = chunks[k + 1][1]
      BY <2>1, <3>1
    <3> QED
      BY <3>1, <3>2, <3>3
  <2>5. ASSUME NEW i \in 0..(TextLength - 1), IsWord(i)
        PROVE  \E k \in 1..Len(cs) : \E j \in 1..Len(cs[k]) : In(i, cs[k][j])
    <3>1. PICK k \in 1..n : \E j \in 1..Len(chunks[k]) : In(i, chunks[k][j])
      BY <1>1, <2>5 DEF Covered, n
    <3>2. IsOne(chunks[k])
      BY <1>1 DEF n
    <3>3. In(i, chunks[k][1])
      BY <3>1, <3>2 DEF IsOne
    <3>4. Len(cs[n - 1]) = 2
      BY <2>1 DEF IsJoint
    <3>5. CASE k \in 1..(n - 2)
      <4>1. k \in 1..Len(cs) /\ cs[k] = chunks[k] /\ 1 \in 1..Len(chunks[k])
        <5>1. k \in 1..Len(cs) /\ 1 \in 1..1
          BY <2>2, <3>5
        <5> QED
          BY <2>1, <3>2, <3>5, <5>1 DEF IsOne
      <4> QED
        BY <3>3, <4>1
    <3>6. CASE k = n - 1
      <4>1. /\ n - 1 \in 1..Len(cs) /\ 1 \in 1..Len(cs[n - 1])
            /\ In(i, cs[n - 1][1])
        BY <1>1, <2>1, <3>3, <3>4, <3>6
      <4> QED
        BY <4>1
    <3>7. CASE k = n
      <4>1. /\ n - 1 \in 1..Len(cs) /\ 2 \in 1..Len(cs[n - 1])
            /\ In(i, cs[n - 1][2])
        BY <1>1, <2>1, <3>3, <3>4, <3>7
      <4> QED
        BY <4>1
    <3>8. k \in 1..(n - 2) \/ k = n - 1 \/ k = n
      BY <2>2
    <3> QED
      BY <3>5, <3>6, <3>7, <3>8
  <2> QED
    BY <2>1, <2>3, <2>4, <2>5 DEF Near, Covered
<1> QED
  BY <1>2, <1>3

LEMMA MergeStep == ChunkInv /\ Merge => ChunkInv'
<1> SUFFICES ASSUME ChunkInv, Merge PROVE ChunkInv'
  OBVIOUS
<1>1. /\ pc = "merge" /\ pc' = "done"
      /\ chunks' = MergeTinyFinalChunk(chunks)
      /\ UNCHANGED <<content, config, text, start>>
  BY DEF Merge
<1>2. /\ chunks' \in Seq(Seq(Nat \X Nat))
      /\ \A k \in 1..Len(chunks') : IsOne(chunks'[k]) \/ IsJoint(chunks'[k])
      /\ Near(chunks') /\ Covered(chunks', TextLength)
  BY <1>1, MergeKeeps
<1>3. /\ TextLength' = TextLength /\ \A i : IsWord(i)' <=> IsWord(i)
      /\ config' = config
  BY <1>1 DEF TextLength, IsWord, IsSpace
<1>4. \A span : IsCut(span)' <=> IsCut(span)
  BY <1>3 DEF IsCut
<1>5. \A k \in 1..Len(chunks') : IsOne(chunks[k])' \/ IsJoint(chunks[k])'
  <2>1. \A c : IsOne(c)' <=> IsOne(c)
    BY <1>4 DEF IsOne
  <2>2. \A c : IsJoint(c)' <=> IsJoint(c)
    BY <1>3, <1>4 DEF IsJoint
  <2> QED
    BY <1>2, <1>3, <1>4 DEF IsOne, IsJoint
<1>6. Chunked'
  BY <1>1, <1>2, <1>5 DEF Chunked, Near
<1>7. Covered(chunks, TextLength)'
  BY <1>2, <1>3 DEF Covered
<1>8. Reached'
  BY <1>1, <1>7 DEF Reached
<1>9. TypeOK' /\ Begun' /\ Normalized'
  BY <1>1, <1>2, <1>3 DEF ChunkInv, TypeOK, Begun, Normalized
<1> QED
  BY <1>6, <1>8, <1>9 DEF ChunkInv

LEMMA ChunkStutter == ChunkInv /\ UNCHANGED vars => ChunkInv'
<1> SUFFICES ASSUME ChunkInv, UNCHANGED vars PROVE ChunkInv'
  OBVIOUS
<1>1. UNCHANGED <<content, config, text, start, chunks, pc>>
  BY DEF vars
<1>2. TextLength' = TextLength /\ \A i : IsWord(i)' <=> IsWord(i)
  BY <1>1 DEF TextLength, IsWord, IsSpace
<1>3. \A span : IsCut(span)' <=> IsCut(span)
  BY <1>1, <1>2 DEF IsCut
<1>4. \A k \in 1..Len(chunks) :
          /\ IsOne(chunks[k])' <=> IsOne(chunks[k])
          /\ IsJoint(chunks[k])' <=> IsJoint(chunks[k])
  BY <1>1, <1>3 DEF IsOne, IsJoint
<1>5. TypeOK' /\ Begun' /\ Normalized'
  BY <1>1, <1>2 DEF ChunkInv, TypeOK, Begun, Normalized
<1>6. Chunked'
  BY <1>1, <1>4 DEF ChunkInv, Chunked, Near
<1>7. Reached'
  BY <1>1, <1>2 DEF ChunkInv, Reached, Covered
<1> QED
  BY <1>5, <1>6, <1>7 DEF ChunkInv

\* The inductive invariant of the chunking: a chunk is a cut of the text, or
\* two cuts that fit a chunk together; what lies before the next window is in
\* a chunk, and the last chunk ends at most the overlap behind its start.
THEOREM ChunkInvariant == Spec => []ChunkInv
<1>1. ChunkInv /\ [Next]_vars => ChunkInv'
  BY NormalizeStep, SplitStep, MergeStep, ChunkStutter DEF Next
<1> QED
  BY ChunkInit, <1>1, PTL DEF Spec

-----------------------------------------------------------------------------
(***************************************************************************)
(* What the invariant says of the chunks.                                  *)
(***************************************************************************)
\* A chunk is one cut, or two joined by a paragraph's end.
LEMMA Shapes ==
    ASSUME ChunkInv, NEW i \in 1..Len(chunks)
    PROVE  IsOne(chunks[i]) \/ IsJoint(chunks[i])
BY DEF ChunkInv, Chunked

\* The types of the chunking's state (chunk_document, _split_text).
THEOREM ChunkTypes == Spec => []TypeOK
BY ChunkInvariant, PTL DEF ChunkInv

LEMMA CutSize ==
    ASSUME config \in Configs, NEW span, IsCut(span)
    PROVE  Width(span) \in 1..config.max
BY ConfigFacts DEF IsCut, Width

LEMMA InvariantFits == ChunkInv => ChunksFit
<1> SUFFICES ASSUME ChunkInv PROVE ChunksFit
  OBVIOUS
<1>1. /\ config \in Configs /\ chunks \in Seq(Seq(Nat \X Nat))
      /\ DOMAIN chunks = 1..Len(chunks) /\ Len(chunks) \in Nat
      /\ Near(chunks)
  BY DEF ChunkInv, TypeOK, Chunked
<1>2. config.max \in Nat
  BY <1>1, ConfigFacts
<1>3. ASSUME NEW i \in DOMAIN chunks PROVE Size(chunks[i]) \in 1..config.max
  <2> DEFINE c == chunks[i]
  <2>1. IsOne(c) \/ IsJoint(c)
    BY <1>1, Shapes
  <2> HIDE DEF c
  <2>2. Size(c) \in 1..config.max
    <3>1. CASE IsOne(c)
      BY <1>1, <3>1, CutSize DEF IsOne, Size
    <3>2. CASE IsJoint(c)
      <4>1. /\ Width(c[1]) \in Nat \ {0} /\ Width(c[2]) \in Nat \ {0}
            /\ Size(c) = Width(c[1]) + 2 + Width(c[2])
            /\ Size(c) <= config.max
        BY <1>1, <1>2, <3>2, CutSize DEF IsJoint, Size
      <4> QED
        BY <1>2, <4>1
    <3> QED
      BY <2>1, <3>1, <3>2
  <2> QED
    BY <2>2 DEF c
<1>4. ASSUME NEW i \in 1..(Len(chunks) - 1)
      PROVE  Last(chunks[i])[2] - Head(chunks[i + 1])[1] <= config.overlap
  <2>1. i + 1 \in 1..Len(chunks)
    BY <1>1
  <2>2. chunks[i + 1] \in Seq(Nat \X Nat) /\ Len(chunks[i + 1]) \in 1..2
    BY <1>1, <2>1, Shapes, EndsFacts
  <2>3. Head(chunks[i + 1]) = chunks[i + 1][1]
    BY <2>2
  <2>4. Ends(chunks[i]) - chunks[i + 1][1][1] <= config.overlap
    BY <1>1 DEF Near
  <2> QED
    BY <2>3, <2>4 DEF Ends, Last
<1> QED
  BY <1>3, <1>4 DEF ChunksFit

\* No chunk is empty or larger than max_chunk_chars, the merged one included,
\* and two neighbours share at most the overlap: whatever the document and
\* the configuration (_split_text, _merge_tiny_final_chunk).
THEOREM ChunksDoFit == Spec => []ChunksFit
BY ChunkInvariant, InvariantFits, PTL

LEMMA InvariantKeeps == ChunkInv => NothingIsLost
<1> SUFFICES ASSUME ChunkInv, pc = "done"
             PROVE  /\ \A i \in 0..(TextLength - 1) : ~IsSpace(i) =>
                          \E c \in Range(chunks) : \E span \in Range(c) :
                              i \in span[1]..(span[2] - 1)
                    /\ Cardinality(Letters(text)) =
                          Cardinality(Letters(content))
  BY DEF NothingIsLost
<1>1. /\ chunks \in Seq(Seq(Nat \X Nat)) /\ Covered(chunks, TextLength)
      /\ Cardinality(Letters(text)) = Cardinality(Letters(content))
  BY DEF ChunkInv, TypeOK, Normalized, Reached
<1>2. ASSUME NEW i \in 0..(TextLength - 1), ~IsSpace(i)
      PROVE  \E c \in Range(chunks) : \E span \in Range(c) :
                 i \in span[1]..(span[2] - 1)
  <2>1. PICK k \in 1..Len(chunks) :
            \E j \in 1..Len(chunks[k]) : In(i, chunks[k][j])
    BY <1>1, <1>2 DEF Covered, IsWord
  <2>2. PICK j \in 1..Len(chunks[k]) : In(i, chunks[k][j])
    BY <2>1
  <2>3. chunks[k] \in Range(chunks)
    BY <1>1 DEF Range
  <2>4. chunks[k][j] \in Range(chunks[k])
    <3>1. chunks[k] \in Seq(Nat \X Nat)
      BY <1>1
    <3> QED
      BY <3>1 DEF Range
  <2> QED
    BY <2>2, <2>3, <2>4 DEF In
<1> QED
  BY <1>1, <1>2

\* Every word character of the normalised text is in a chunk, and the text has
\* as many as the content: neither the normalisation nor a window, a strip,
\* an overlap or the merge loses one (chunk_document).
THEOREM NothingGetsLost == Spec => []NothingIsLost
BY ChunkInvariant, InvariantKeeps, PTL

LEMMA CutIsNormal ==
    ASSUME IsNormal(text), NEW span, IsCut(span) PROVE IsNormal(Cut(span))
<1>1. /\ span[1] \in Nat /\ span[2] \in Nat /\ span[1] < span[2]
      /\ span[2] <= TextLength /\ TextLength = Len(text) /\ Len(text) \in Nat
      /\ IsWord(span[1]) /\ IsWord(span[2] - 1)
  BY DEF IsCut, TextLength, IsNormal
<1>2. /\ span[1] + 1 \in 1..Len(text) /\ span[2] \in (span[1] + 1)..Len(text)
      /\ (span[2] - 1) + 1 = span[2]
  BY <1>1
<1>3. text[span[1] + 1] = "c" /\ text[span[2]] = "c"
  BY <1>1, <1>2 DEF IsWord, IsSpace
<1> QED
  BY <1>2, <1>3, NormalCut DEF Cut

LEMMA InvariantNormal == ChunkInv => ChunksAreNormal
<1> SUFFICES ASSUME ChunkInv, NEW c \in Range(chunks)
             PROVE  Normalize(Content(c)) = Content(c)
  BY DEF ChunksAreNormal
<1>1. chunks \in Seq(Seq(Nat \X Nat))
  BY DEF ChunkInv, TypeOK
<1>2. PICK k \in 1..Len(chunks) : c = chunks[k]
  BY <1>1 DEF Range
<1>3. IsOne(c) \/ IsJoint(c)
  BY <1>2, Shapes
<1>4. IsNormal(text)
  <2>1. chunks # <<>>
    BY <1>1, <1>2
  <2> QED
    BY <2>1 DEF ChunkInv, Begun, Normalized
<1>5. IsNormal(Content(c))
  <2>1. CASE IsOne(c)
    BY <1>4, <2>1, CutIsNormal DEF IsOne, Content
  <2>2. CASE IsJoint(c)
    <3>1. /\ IsNormal(Cut(c[1])) /\ IsNormal(Cut(c[2]))
          /\ Content(c) = Cut(c[1]) \o <<"n", "n">> \o Cut(c[2])
      BY <1>4, <2>2, CutIsNormal DEF IsJoint, Content
    <3>2. <<"n", "n">> \in Separators
      BY DEF Separators
    <3> QED
      BY <3>1, <3>2, NormalJoin
  <2> QED
    BY <1>3, <2>1, <2>2
<1> QED
  BY <1>5, NormalizationIsIdempotent

\* The normalisation leaves every chunk as it is, a merged one too, so that
\* the identifier, the checksum and the embedding of a chunk, which normalise
\* it again, are about the text whose characters are counted.
THEOREM ChunksStayNormal == Spec => []ChunksAreNormal
BY ChunkInvariant, InvariantNormal, PTL

LEMMA InvariantAdvances ==
    ASSUME ChunkInv, [Next]_vars
    PROVE  [pc = "split" => \/ pc' = "merge"
                            \/ start < start' /\ start' < TextLength]_vars
<1> SUFFICES ASSUME Next, pc = "split", pc' # "merge"
             PROVE  start < start' /\ start' < TextLength
  OBVIOUS
<1> DEFINE end == WindowEnd
<1>1. SplitOff
  BY DEF Next, NormalizeContent, Merge
<1>2. /\ end < TextLength \/ ~(end \in Int /\ TextLength \in Int)
      /\ start' = NextStart(end)
  <2>1. /\ IF end >= TextLength THEN pc' = "merge" /\ UNCHANGED start
           ELSE start' = NextStart(end) /\ UNCHANGED pc
    BY <1>1 DEF SplitOff
  <2> HIDE DEF end
  <2> QED
    BY <2>1
<1>3. /\ config \in Configs /\ IsNormal(text) /\ start \in Nat
      /\ TextLength \in Nat /\ start < TextLength
  <2>1. /\ config \in Configs /\ IsNormal(text) /\ text \in Seq(Characters)
        /\ start \in 0..TextLength /\ start < TextLength
    BY DEF ChunkInv, TypeOK, Normalized, Reached
  <2> QED
    BY <2>1 DEF TextLength
<1>4. end \in (start + 1)..TextLength
  BY <1>3, WindowFacts
<1> HIDE DEF end
<1>5. end \in (start + 1)..(TextLength - 1)
  BY <1>2, <1>3, <1>4
<1>6. NextStart(end) \in (start + 1)..(TextLength - 1)
  BY <1>3, <1>5, NextStartFacts
<1> QED
  BY <1>2, <1>3, <1>6

\* Each pass of the loop of _split_text that is not the last moves the start
\* forward, and not up to the text's end: the loop terminates, whatever the
\* overlap and wherever the paragraphs end.
THEOREM LoopDoesAdvance == Spec => LoopAdvances
<1>1. ChunkInv /\ [Next]_vars =>
          [pc = "split" => \/ pc' = "merge"
                           \/ start < start' /\ start' < TextLength]_vars
  BY InvariantAdvances
<1> QED
  BY ChunkInvariant, <1>1, PTL DEF Spec, LoopAdvances
=============================================================================

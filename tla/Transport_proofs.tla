-------------------------- MODULE Transport_proofs --------------------------
(***************************************************************************)
(* Proofs about ReplyStream, for every reply and every stream of it;       *)
(* about CodexAuth, for every set of sessions, every lifetime of the       *)
(* tokens, every margin, and requests and answers of any delay; and what   *)
(* they say of Transport, whose sessions stream answers.                   *)
(***************************************************************************)
EXTENDS Transport, SequenceTheorems, WellFoundedInduction, TLAPS

(***************************************************************************)
(* Sequences put together, as in Sessions_proofs                           *)
(***************************************************************************)

\* Least numbers stand in for induction.
LEMMA Least ==
  ASSUME NEW T, T \subseteq Nat, T # {}
  PROVE  \E m \in T : \A k \in T : m <= k
<1> DEFINE R == OpToRel(<, Nat)
<1>1. IsWellFoundedOn(R, Nat)
  BY NatLessThanWellFounded
<1>2. \A x, y \in Nat : x < y => <<x, y>> \in R
  BY DEF OpToRel
<1> HIDE DEF R
<1>3. \E m \in T : \A k \in T : ~(<<k, m>> \in R)
  BY <1>1, WFMin
<1>4. \A x, y \in Nat : ~(x < y) => y <= x
  OBVIOUS
<1> QED BY <1>2, <1>3, <1>4

LEMMA Induction ==
  ASSUME NEW n \in Nat, NEW T, 0 \in T, \A k \in 0..n : k \in T /\ k < n => k + 1 \in T
  PROVE  0..n \subseteq T
<1> DEFINE D == (0..n) \ T
<1> SUFFICES ASSUME D # {} PROVE FALSE
  OBVIOUS
<1>1. PICK m \in D : \A k \in D : m <= k
  <2>1. D \subseteq Nat
    OBVIOUS
  <2> HIDE DEF D
  <2> QED BY <2>1, Least
<1>2. m \in 0..n /\ m # 0
  OBVIOUS
<1>3. m - 1 \in 0..n /\ m - 1 < n /\ (m - 1) + 1 = m /\ ~(m <= m - 1)
  BY <1>2
<1>4. m - 1 \in T
  BY <1>1, <1>3
<1>5. m \in T
  BY <1>3, <1>4
<1> QED BY <1>5

\* f holds what the first elements of ss make together.
Joins(f, ss) ==
  f[0] = <<>> /\ \A k \in 0..Len(ss) : k < Len(ss) => f[k + 1] = f[k] \o ss[k + 1]

LEMMA JoinsExist ==
  ASSUME NEW S, NEW ss \in Seq(Seq(S))
  PROVE  \E f \in [0..Len(ss) -> Seq(S)] : Joins(f, ss)
<1> DEFINE n == Len(ss)
           X == Seq(S)
           Cat(x, y) == x \o y
           Solves(g, k) == g[0] = <<>> /\ \A i \in 0..n : i < k => g[i + 1] = Cat(g[i], ss[i + 1])
           T == {k \in 0..n : \E g \in [0..n -> X] : Solves(g, k)}
<1>1. n \in Nat /\ (\A i \in 1..n : ss[i] \in X) /\ (\A x, y \in X : Cat(x, y) \in X) /\ <<>> \in X
  BY LenProperties, ConcatProperties, EmptySeq
<1> HIDE DEF Cat, X
<1>2. 0 \in T
  <2> DEFINE g == [i \in 0..n |-> <<>>]
  <2> HIDE DEF n
  <2>1. g \in [0..n -> X] /\ 0 \in 0..n /\ g[0] = <<>> /\ \A i \in 0..n : ~(i < 0)
    BY <1>1
  <2> HIDE DEF g
  <2> QED BY <2>1
<1>3. ASSUME NEW k \in 0..n, k \in T, k < n PROVE k + 1 \in T
  <2> HIDE DEF n
  <2>1. PICK g \in [0..n -> X] : Solves(g, k)
    BY <1>3
  <2>2. k + 1 \in 1..n /\ k + 1 \in 0..n /\ k + 1 # 0
    BY <1>1, <1>3
  <2> DEFINE h == [g EXCEPT ![k + 1] = Cat(g[k], ss[k + 1])]
  <2>3. /\ h \in [0..n -> X] /\ h[k + 1] = Cat(g[k], ss[k + 1])
        /\ \A i \in 0..n : i # k + 1 => h[i] = g[i]
    BY <1>1, <2>1, <2>2
  <2> HIDE DEF h
  <2>4. ASSUME NEW i \in 0..n, i < k + 1 PROVE h[i + 1] = Cat(h[i], ss[i + 1])
    <3>1. i # k + 1 /\ i + 1 \in 0..n /\ (i # k => i < k /\ i + 1 # k + 1)
      BY <1>1, <2>2, <2>4
    <3> QED BY <2>1, <2>3, <2>4, <3>1
  <2>5. h[0] = <<>>
    BY <1>1, <2>1, <2>2, <2>3
  <2> QED BY <2>2, <2>3, <2>4, <2>5
<1>4. n \in T
  <2> HIDE DEF T, n
  <2>1. n \in 0..n
    BY <1>1
  <2> QED BY <1>1, <1>2, <1>3, <2>1, Induction
<1> QED BY <1>4 DEF Joins, Cat, X

LEMMA FlattenIs ==
  ASSUME NEW S, NEW ss \in Seq(Seq(S))
  PROVE  \E f \in [0..Len(ss) -> Seq(S)] : Joins(f, ss) /\ FlattenSeq(ss) = f[Len(ss)]
<1> DEFINE n == Len(ss)
           Cat(x, y) == x \o y
<1>1. n \in Nat /\ (\A i \in 1..n : ss[i] \in Seq(S))
  BY LenProperties
<1>2. PICK f \in [0..n -> Seq(S)] : Joins(f, ss)
  BY JoinsExist
<1>3. f[0] = <<>> /\ \A k \in 0..n : k < n => f[k + 1] = Cat(f[k], ss[k + 1])
  BY <1>2 DEF Joins
<1>4. \A x \in Seq(S) : Cat(<<>>, x) = x
  BY ConcatEmptySeq
<1>5. CASE n = 0
  BY <1>2, <1>3, <1>5, EmptySeq DEF FlattenSeq
<1>6. CASE n # 0
  <2> DEFINE Step(g, i) == IF i = 1 THEN ss[i] ELSE Cat(g[i - 1], ss[i])
             F == CHOOSE g : g = [i \in 1..n |-> Step(g, i)]
             g == [i \in 1..n |-> f[i]]
  <2>1. FlattenSeq(ss) = F[n]
    BY <1>6 DEF FlattenSeq
  <2> HIDE DEF n, Cat
  <2>2. ASSUME NEW i \in 1..n PROVE g[i] = Step(g, i)
    <3>1. i - 1 \in 0..n /\ i - 1 < n /\ (i - 1) + 1 = i /\ (i # 1 => i - 1 \in 1..n)
      BY <1>1
    <3>2. f[i] = Cat(f[i - 1], ss[i])
      BY <1>3, <3>1
    <3> QED BY <1>1, <1>3, <1>4, <3>1, <3>2
  <2>3. g = [i \in 1..n |-> Step(g, i)]
    <3> HIDE DEF Step
    <3> QED BY <2>2
  <2>4. F = [i \in 1..n |-> Step(F, i)]
    <3> HIDE DEF Step, g
    <3> QED BY <2>3
  <2> HIDE DEF F, g
  <2> DEFINE U == {k \in 0..n : k # 0 => F[k] = f[k]}
  <2>5. 0 \in U
    BY <1>1
  <2>6. ASSUME NEW k \in 0..n, k \in U, k < n PROVE k + 1 \in U
    <3>1. /\ k + 1 \in 1..n /\ k + 1 \in 0..n /\ k + 1 - 1 = k
          /\ (k = 0 <=> k + 1 = 1)
      BY <1>1, <2>6
    <3>2. F[k + 1] = Step(F, k + 1)
      <4> HIDE DEF Step
      <4> QED BY <2>4, <3>1
    <3>3. CASE k = 0
      <4>1. F[k + 1] = ss[k + 1] /\ f[k + 1] = Cat(<<>>, ss[k + 1])
        BY <1>3, <2>6, <3>1, <3>2, <3>3
      <4> QED BY <1>1, <1>4, <3>1, <4>1
    <3>4. CASE k # 0
      <4>1. F[k + 1] = Cat(F[k], ss[k + 1]) /\ F[k] = f[k]
        BY <2>6, <3>1, <3>2, <3>4
      <4> QED BY <1>3, <2>6, <3>1, <4>1
    <3> QED BY <3>3, <3>4
  <2>7. n \in U
    <3> HIDE DEF U
    <3>1. n \in 0..n
      BY <1>1
    <3> QED BY <1>1, <2>5, <2>6, <3>1, Induction
  <2> QED BY <1>2, <1>6, <2>1, <2>7 DEF n
<1> QED BY <1>5, <1>6

LEMMA FlattenType ==
  ASSUME NEW S, NEW ss \in Seq(Seq(S))
  PROVE  FlattenSeq(ss) \in Seq(S)
<1>1. PICK f \in [0..Len(ss) -> Seq(S)] : FlattenSeq(ss) = f[Len(ss)]
  BY FlattenIs
<1>2. Len(ss) \in 0..Len(ss)
  BY LenProperties
<1> QED BY <1>1, <1>2

LEMMA FlattenConcat ==
  ASSUME NEW S, NEW a \in Seq(Seq(S)), NEW b \in Seq(Seq(S))
  PROVE  FlattenSeq(a \o b) = FlattenSeq(a) \o FlattenSeq(b)
<1> DEFINE m == Len(a)
           n == Len(b)
           ab == a \o b
           Cat(x, y) == x \o y
<1>1. PICK f \in [0..m -> Seq(S)] : Joins(f, a) /\ FlattenSeq(a) = f[m]
  BY FlattenIs
<1>2. PICK g \in [0..n -> Seq(S)] : Joins(g, b) /\ FlattenSeq(b) = g[n]
  BY FlattenIs
<1>3. /\ ab \in Seq(Seq(S)) /\ Len(ab) = m + n /\ m \in Nat /\ n \in Nat
      /\ \A i \in 1..(m + n) : ab[i] = IF i <= m THEN a[i] ELSE b[i - m]
      /\ \A i \in 1..n : b[i] \in Seq(S)
  BY ConcatProperties, LenProperties
<1> HIDE DEF ab
<1>4. PICK h \in [0..(m + n) -> Seq(S)] : Joins(h, ab) /\ FlattenSeq(ab) = h[m + n]
  BY <1>3, FlattenIs
<1>5. f[0] = <<>> /\ \A k \in 0..m : k < m => f[k + 1] = Cat(f[k], a[k + 1])
  BY <1>1 DEF Joins
<1>6. g[0] = <<>> /\ \A k \in 0..n : k < n => g[k + 1] = Cat(g[k], b[k + 1])
  BY <1>2 DEF Joins
<1>7. h[0] = <<>> /\ \A k \in 0..(m + n) : k < m + n => h[k + 1] = Cat(h[k], ab[k + 1])
  BY <1>3, <1>4 DEF Joins
<1>8. /\ \A x \in Seq(S) : Cat(x, <<>>) = x
      /\ \A x, y, z \in Seq(S) : Cat(Cat(x, y), z) = Cat(x, Cat(y, z))
  BY ConcatEmptySeq, ConcatAssociative
<1> HIDE DEF m, n, Cat
<1>9. h[m] = f[m]
  <2> DEFINE T == {k \in 0..m : h[k] = f[k]}
  <2>1. 0 \in T
    BY <1>3, <1>5, <1>7
  <2>2. ASSUME NEW k \in 0..m, k \in T, k < m PROVE k + 1 \in T
    <3>1. /\ k + 1 \in 0..m /\ k \in 0..(m + n) /\ k < m + n
          /\ k + 1 \in 1..(m + n) /\ k + 1 <= m
      BY <1>3, <2>2
    <3>2. ab[k + 1] = a[k + 1]
      BY <1>3, <3>1
    <3> QED BY <1>5, <1>7, <2>2, <3>1, <3>2
  <2> HIDE DEF T
  <2>3. m \in T
    <3>1. m \in 0..m
      BY <1>3
    <3> QED BY <1>3, <2>1, <2>2, <3>1, Induction
  <2> QED BY <2>3 DEF T
<1>10. h[m + n] = Cat(f[m], g[n])
  <2> DEFINE T == {k \in 0..n : h[m + k] = Cat(f[m], g[k])}
  <2>1. f[m] \in Seq(S)
    BY <1>1, <1>3
  <2>2. 0 \in T
    <3>1. m + 0 = m /\ 0 \in 0..n
      BY <1>3
    <3> QED BY <1>6, <1>8, <1>9, <2>1, <3>1
  <2>3. ASSUME NEW k \in 0..n, k \in T, k < n PROVE k + 1 \in T
    <3>1. /\ k + 1 \in 0..n /\ k + 1 \in 1..n
          /\ m + k \in 0..(m + n) /\ m + k < m + n /\ m + (k + 1) = (m + k) + 1
          /\ (m + k) + 1 \in 1..(m + n) /\ ~((m + k) + 1 <= m) /\ ((m + k) + 1) - m = k + 1
      <4>1. \A x, y \in Nat : \A z \in 0..y : z < y =>
              /\ z + 1 \in 0..y /\ z + 1 \in 1..y
              /\ x + z \in 0..(x + y) /\ x + z < x + y /\ x + (z + 1) = (x + z) + 1
              /\ (x + z) + 1 \in 1..(x + y) /\ ~((x + z) + 1 <= x) /\ ((x + z) + 1) - x = z + 1
        OBVIOUS
      <4> QED BY <1>3, <2>3, <4>1
    <3>2. ab[(m + k) + 1] = b[k + 1]
      <4>1. \A i \in 1..(m + n) : ~(i <= m) => ab[i] = b[i - m]
        BY <1>3
      <4> QED BY <3>1, <4>1
    <3>3. h[(m + k) + 1] = Cat(Cat(f[m], g[k]), b[k + 1])
      BY <1>7, <2>3, <3>1, <3>2
    <3>4. g[k + 1] = Cat(g[k], b[k + 1]) /\ g[k] \in Seq(S) /\ b[k + 1] \in Seq(S)
      BY <1>2, <1>3, <1>6, <2>3, <3>1
    <3> QED BY <1>8, <2>1, <3>1, <3>3, <3>4
  <2> HIDE DEF T
  <2>4. n \in T
    <3>1. n \in 0..n
      BY <1>3
    <3> QED BY <1>3, <2>2, <2>3, <3>1, Induction
  <2> QED BY <2>4 DEF T
<1> QED BY <1>1, <1>2, <1>4, <1>10 DEF ab, Cat

LEMMA FlattenOne ==
  ASSUME NEW S, NEW s \in Seq(S)
  PROVE  FlattenSeq(<<s>>) = s
<1>1. <<s>> \in Seq(Seq(S)) /\ Len(<<s>>) = 1 /\ <<s>>[1] = s
  OBVIOUS
<1> DEFINE ss == <<s>>
<1> HIDE DEF ss
<1>2. PICK f \in [0..1 -> Seq(S)] : Joins(f, ss) /\ FlattenSeq(ss) = f[1]
  BY <1>1, FlattenIs DEF ss
<1>3. f[0] = <<>> /\ f[0 + 1] = f[0] \o ss[0 + 1]
  <2>1. 0 \in 0..1 /\ 0 < 1
    OBVIOUS
  <2> QED BY <1>1, <1>2, <2>1, Zenon DEF Joins, ss
<1>4. f[1] = <<>> \o s
  <2>1. 0 + 1 = 1
    OBVIOUS
  <2> QED BY <1>1, <1>3, <2>1, Zenon DEF ss
<1> QED BY <1>2, <1>4, ConcatEmptySeq, Zenon DEF ss

LEMMA FlattenNone ==
  ASSUME NEW S, NEW ss \in Seq(Seq(S)), \A i \in 1..Len(ss) : ss[i] = <<>>
  PROVE  FlattenSeq(ss) = <<>>
<1> DEFINE n == Len(ss)
           Cat(x, y) == x \o y
<1>1. PICK f \in [0..n -> Seq(S)] : Joins(f, ss) /\ FlattenSeq(ss) = f[n]
  BY FlattenIs
<1>2. n \in Nat
  BY LenProperties
<1>3. f[0] = <<>> /\ \A k \in 0..n : k < n => f[k + 1] = Cat(f[k], ss[k + 1])
  BY <1>1 DEF Joins
<1>4. Cat(<<>>, <<>>) = <<>>
  OBVIOUS
<1> HIDE DEF n, Cat
<1> DEFINE T == {k \in 0..n : f[k] = <<>>}
<1>5. 0 \in T
  BY <1>2, <1>3
<1>6. ASSUME NEW k \in 0..n, k \in T, k < n PROVE k + 1 \in T
  <2>1. k + 1 \in 1..n /\ k + 1 \in 0..n
    BY <1>2, <1>6
  <2>2. ss[k + 1] = <<>>
    BY <2>1 DEF n
  <2> QED BY <1>3, <1>4, <1>6, <2>1, <2>2
<1> HIDE DEF T
<1>7. n \in T
  <2>1. n \in 0..n
    BY <1>2
  <2> QED BY <1>2, <1>5, <1>6, <2>1, Induction
<1> QED BY <1>1, <1>7 DEF T

\* Flattening undoes singletons.
LEMMA FlattenSingles ==
  ASSUME NEW S, NEW s \in Seq(S)
  PROVE  FlattenSeq([k \in DOMAIN s |-> <<s[k]>>]) = s
<1> DEFINE n == Len(s)
           ss == [k \in DOMAIN s |-> <<s[k]>>]
           Cat(x, y) == x \o y
<1>1. n \in Nat /\ DOMAIN s = 1..n /\ \A k \in 1..n : s[k] \in S
  BY LenProperties
<1>2. /\ ss \in Seq(Seq(S)) /\ Len(ss) = n
      /\ \A k \in 1..n : ss[k] = <<s[k]>>
  <2>1. \A k \in 1..n : <<s[k]>> \in Seq(S)
    BY <1>1
  <2>2. ss \in [1..n -> Seq(S)]
    BY <1>1, <2>1
  <2> QED BY <1>1, <2>2, IsASeq, LenProperties
<1> HIDE DEF ss
<1>3. PICK f \in [0..n -> Seq(S)] : Joins(f, ss) /\ FlattenSeq(ss) = f[n]
  BY <1>2, FlattenIs
<1>4. f[0] = <<>> /\ \A k \in 0..n : k < n => f[k + 1] = Cat(f[k], ss[k + 1])
  BY <1>2, <1>3 DEF Joins
<1> DEFINE T == {k \in 0..n : f[k] = SubSeq(s, 1, k)}
<1>5. 0 \in T
  <2>1. SubSeq(s, 1, 0) = <<>>
    BY SubSeqEmpty
  <2> QED BY <1>1, <1>4, <2>1
<1>6. ASSUME NEW k \in 0..n, k \in T, k < n PROVE k + 1 \in T
  <2>1. k + 1 \in 1..n /\ k + 1 \in 0..n /\ k + 1 - 1 = k /\ 1 \in 1..n /\ k + 1 \in 1..(k + 1)
    BY <1>1, <1>6
  <2>2. SubSeq(s, 1, k + 1) = Cat(SubSeq(s, 1, k), <<s[k + 1]>>)
    <3>1. k + 1 \in 1..Len(s) /\ 1 \in 1..Len(s)
      BY <2>1
    <3>2. SubSeq(s, 1, k + 1) = SubSeq(s, 1, (k + 1) - 1) \o <<s[k + 1]>>
      BY <3>1, SubSeqRecursiveSecond
    <3> QED BY <2>1, <3>2
  <2> HIDE DEF Cat, n
  <2> QED BY <1>2, <1>4, <1>6, <2>1, <2>2
<1>7. n \in T
  <2> HIDE DEF T, n
  <2>1. n \in 0..n
    BY <1>1
  <2> QED BY <1>1, <1>5, <1>6, <2>1, Induction
<1> QED BY <1>3, <1>7, SubSeqFull DEF ss

(***************************************************************************)
(* The images of a sequence's elements put together                        *)
(***************************************************************************)

Image(g, s) == [k \in DOMAIN s |-> g[s[k]]]

Joined(g, s) == FlattenSeq(Image(g, s))

\* g takes E to sequences over S.
Maps(g, E, S) == \A e \in E : g[e] \in Seq(S)

LEMMA ImageAt ==
  ASSUME NEW S, NEW E, NEW g, Maps(g, E, S), NEW s \in Seq(E)
  PROVE  /\ Image(g, s) \in Seq(Seq(S))
         /\ Len(Image(g, s)) = Len(s)
         /\ \A k \in 1..Len(s) : Image(g, s)[k] = g[s[k]]
<1>1. Len(s) \in Nat /\ DOMAIN s = 1..Len(s) /\ \A k \in 1..Len(s) : s[k] \in E
  BY LenProperties
<1>2. Image(g, s) = [k \in 1..Len(s) |-> g[s[k]]]
  BY <1>1 DEF Image
<1>3. \A k \in 1..Len(s) : g[s[k]] \in Seq(S)
  BY <1>1 DEF Maps
<1>4. Image(g, s) \in [1..Len(s) -> Seq(S)]
  BY <1>2, <1>3
<1> QED BY <1>1, <1>2, <1>4, IsASeq, LenProperties

LEMMA JoinedType ==
  ASSUME NEW S, NEW E, NEW g, Maps(g, E, S), NEW s \in Seq(E)
  PROVE  Joined(g, s) \in Seq(S)
<1>1. Image(g, s) \in Seq(Seq(S))
  BY ImageAt
<1> QED BY <1>1, FlattenType DEF Joined

LEMMA JoinedNothing ==
  ASSUME NEW S, NEW E, NEW g, Maps(g, E, S)
  PROVE  Joined(g, <<>>) = <<>>
<1> DEFINE s == <<>>
<1>1. s \in Seq(E) /\ Len(s) = 0 /\ 1..0 = {}
  BY EmptySeq
<1> HIDE DEF s
<1>2. Image(g, s) \in Seq(Seq(S)) /\ Len(Image(g, s)) = 0
  <2>1. s \in Seq(E)
    BY <1>1
  <2>2. Image(g, s) \in Seq(Seq(S)) /\ Len(Image(g, s)) = Len(s)
    BY <2>1, ImageAt
  <2> QED BY <1>1, <2>2
<1>3. FlattenSeq(Image(g, s)) = <<>>
  BY <1>1, <1>2, FlattenNone
<1> QED BY <1>3 DEF Joined, s

LEMMA JoinedConcat ==
  ASSUME NEW S, NEW E, NEW g, Maps(g, E, S), NEW a \in Seq(E), NEW b \in Seq(E)
  PROVE  Joined(g, a \o b) = Joined(g, a) \o Joined(g, b)
<1> DEFINE m == Len(a)
           n == Len(b)
           ab == a \o b
           x == Image(g, a)
           y == Image(g, b)
           xy == x \o y
<1>1. /\ m \in Nat /\ n \in Nat /\ ab \in Seq(E) /\ Len(ab) = m + n
      /\ \A k \in 1..(m + n) : ab[k] = IF k <= m THEN a[k] ELSE b[k - m]
  BY LenProperties, ConcatProperties
<1>2. x \in Seq(Seq(S)) /\ Len(x) = m /\ \A k \in 1..m : x[k] = g[a[k]]
  BY ImageAt
<1>3. y \in Seq(Seq(S)) /\ Len(y) = n /\ \A k \in 1..n : y[k] = g[b[k]]
  BY ImageAt
<1> HIDE DEF ab
<1>4. /\ Image(g, ab) \in Seq(Seq(S)) /\ Len(Image(g, ab)) = m + n
      /\ \A k \in 1..(m + n) : Image(g, ab)[k] = g[ab[k]]
  <2> HIDE DEF m, n
  <2>1. /\ Image(g, ab) \in Seq(Seq(S)) /\ Len(Image(g, ab)) = Len(ab)
        /\ \A k \in 1..Len(ab) : Image(g, ab)[k] = g[ab[k]]
    <3>1. ab \in Seq(E)
      BY <1>1
    <3> QED BY <3>1, ImageAt
  <2> QED BY <1>1, <2>1
<1> HIDE DEF x, y, m, n
<1>5. /\ xy \in Seq(Seq(S)) /\ Len(xy) = m + n
      /\ \A k \in 1..(m + n) : xy[k] = IF k <= m THEN x[k] ELSE y[k - m]
  <2>1. x \in Seq(Seq(S)) /\ y \in Seq(Seq(S)) /\ Len(x) = m /\ Len(y) = n
    BY <1>2, <1>3
  <2> QED BY <2>1, ConcatProperties
<1> HIDE DEF xy
<1>6. \A k \in 1..(m + n) : Image(g, ab)[k] = xy[k]
  <2> TAKE k \in 1..(m + n)
  <2>1. Image(g, ab)[k] = g[ab[k]]
    BY <1>4
  <2>2. CASE k <= m
    <3>1. k \in 1..m /\ ab[k] = a[k] /\ xy[k] = x[k]
      BY <1>1, <1>5, <2>2
    <3>2. x[k] = g[a[k]]
      BY <1>2, <3>1
    <3> QED BY <2>1, <3>1, <3>2
  <2>3. CASE ~(k <= m)
    <3>1. k - m \in 1..n /\ ab[k] = b[k - m] /\ xy[k] = y[k - m]
      BY <1>1, <1>5, <2>3
    <3>2. y[k - m] = g[b[k - m]]
      BY <1>3, <3>1
    <3> QED BY <2>1, <3>1, <3>2
  <2> QED BY <2>2, <2>3
<1>7. Image(g, ab) = xy
  BY <1>4, <1>5, <1>6, SeqEqual
<1>8. FlattenSeq(xy) = FlattenSeq(x) \o FlattenSeq(y)
  BY <1>2, <1>3, FlattenConcat DEF xy
<1> QED BY <1>7, <1>8 DEF Joined, ab, x, y

\* What each of several sequences contributes.
Each(g, ss) == [k \in DOMAIN ss |-> Joined(g, ss[k])]

LEMMA EachIs ==
  ASSUME NEW S, NEW E, NEW g, Maps(g, E, S), NEW ss \in Seq(Seq(E))
  PROVE  /\ Each(g, ss) \in Seq(Seq(S)) /\ Len(Each(g, ss)) = Len(ss)
         /\ \A k \in 1..Len(ss) : Each(g, ss)[k] = Joined(g, ss[k])
         /\ Joined(g, FlattenSeq(ss)) = FlattenSeq(Each(g, ss))
<1> DEFINE n == Len(ss)
           ps == Each(g, ss)
           Cat(x, y) == x \o y
<1>1. n \in Nat /\ DOMAIN ss = 1..n /\ \A k \in 1..n : ss[k] \in Seq(E)
  BY LenProperties
<1>2. \A k \in 1..n : Joined(g, ss[k]) \in Seq(S)
  BY <1>1, JoinedType
<1>3. ps = [k \in 1..n |-> Joined(g, ss[k])]
  BY <1>1 DEF Each
<1> HIDE DEF n, ps
<1>4. ps \in [1..n -> Seq(S)] /\ \A k \in 1..n : ps[k] = Joined(g, ss[k])
  BY <1>2, <1>3
<1>5. ps \in Seq(Seq(S)) /\ Len(ps) = n
  BY <1>1, <1>4, IsASeq, LenProperties
<1>6. PICK f \in [0..n -> Seq(E)] : Joins(f, ss) /\ FlattenSeq(ss) = f[n]
  BY FlattenIs DEF n
<1>7. PICK h \in [0..n -> Seq(S)] : Joins(h, ps) /\ FlattenSeq(ps) = h[n]
  BY <1>5, FlattenIs
<1>8. f[0] = <<>> /\ \A k \in 0..n : k < n => f[k + 1] = Cat(f[k], ss[k + 1])
  BY <1>6 DEF Joins, n
<1>9. h[0] = <<>> /\ \A k \in 0..n : k < n => h[k + 1] = Cat(h[k], ps[k + 1])
  BY <1>5, <1>7 DEF Joins
<1>10. \A a, b \in Seq(E) : Joined(g, Cat(a, b)) = Cat(Joined(g, a), Joined(g, b))
  BY JoinedConcat
<1> HIDE DEF Cat
<1> DEFINE T == {k \in 0..n : Joined(g, f[k]) = h[k]}
<1>11. 0 \in T
  <2>1. Joined(g, <<>>) = <<>>
    BY JoinedNothing
  <2> QED BY <1>1, <1>8, <1>9, <2>1
<1>12. ASSUME NEW k \in 0..n, k \in T, k < n PROVE k + 1 \in T
  <2>1. k + 1 \in 1..n /\ k + 1 \in 0..n
    BY <1>1, <1>12
  <2>2. ps[k + 1] = Joined(g, ss[k + 1]) /\ f[k] \in Seq(E) /\ ss[k + 1] \in Seq(E)
    BY <1>1, <1>4, <1>6, <2>1
  <2> QED BY <1>8, <1>9, <1>10, <1>12, <2>1, <2>2
<1>13. n \in T
  <2> HIDE DEF T
  <2>1. n \in 0..n
    BY <1>1
  <2> QED BY <1>1, <1>11, <1>12, <2>1, Induction
<1> QED BY <1>4, <1>5, <1>6, <1>7, <1>13 DEF n, ps

LEMMA FlattenTwice ==
  ASSUME NEW S, NEW ss \in Seq(Seq(Seq(S))), NEW ps \in Seq(Seq(S)),
         Len(ps) = Len(ss), \A k \in 1..Len(ss) : ps[k] = FlattenSeq(ss[k])
  PROVE  FlattenSeq(FlattenSeq(ss)) = FlattenSeq(ps)
<1> DEFINE g == [x \in Seq(S) |-> x]
<1>1. Maps(g, Seq(S), S) /\ \A x \in Seq(S) : g[x] = x
  BY DEF Maps
<1> HIDE DEF g
<1>2. ASSUME NEW s \in Seq(Seq(S)) PROVE Joined(g, s) = FlattenSeq(s)
  <2>1. /\ Image(g, s) \in Seq(Seq(S)) /\ Len(Image(g, s)) = Len(s)
        /\ \A k \in 1..Len(s) : Image(g, s)[k] = g[s[k]]
    BY <1>1, ImageAt
  <2>2. \A k \in 1..Len(s) : s[k] \in Seq(S)
    BY LenProperties
  <2>3. \A k \in 1..Len(s) : Image(g, s)[k] = s[k]
    BY <1>1, <2>1, <2>2
  <2>4. Image(g, s) = s
    BY <2>1, <2>3, SeqEqual
  <2> QED BY <2>4 DEF Joined
<1>3. \A k \in 1..Len(ss) : ss[k] \in Seq(Seq(S))
  BY LenProperties
<1>4. FlattenSeq(ss) \in Seq(Seq(S))
  BY FlattenType
<1>5. /\ Each(g, ss) \in Seq(Seq(S)) /\ Len(Each(g, ss)) = Len(ss)
      /\ \A k \in 1..Len(ss) : Each(g, ss)[k] = Joined(g, ss[k])
      /\ Joined(g, FlattenSeq(ss)) = FlattenSeq(Each(g, ss))
  <2>1. Maps(g, Seq(S), S)
    BY <1>1
  <2> QED BY <2>1, EachIs
<1>6. Each(g, ss) = ps
  <2>1. \A k \in 1..Len(ss) : Each(g, ss)[k] = ps[k]
    BY <1>2, <1>3, <1>5
  <2> QED BY <1>5, <2>1, SeqEqual
<1> QED BY <1>2, <1>4, <1>5, <1>6

(***************************************************************************)
(* What is left of a sequence                                              *)
(***************************************************************************)

LEMMA WithinItself ==
  ASSUME NEW S, NEW s \in Seq(S)
  PROVE  Within(s, s)
<1> DEFINE f == [i \in DOMAIN s |-> i]
<1>1. f \in [DOMAIN s -> DOMAIN s] /\ \A i \in DOMAIN s : f[i] = i
  OBVIOUS
<1> HIDE DEF f
<1> QED BY <1>1 DEF Within

LEMMA NothingWithin ==
  ASSUME NEW S, NEW t \in Seq(S)
  PROVE  Within(<<>>, t)
<1> DEFINE f == [i \in {} |-> 1]
<1>1. DOMAIN <<>> = {} /\ f \in [{} -> DOMAIN t]
  OBVIOUS
<1> HIDE DEF f
<1> QED BY <1>1 DEF Within

LEMMA WithinConcat ==
  ASSUME NEW S, NEW a \in Seq(S), NEW b \in Seq(S), NEW x \in Seq(S), NEW y \in Seq(S),
         Within(a, x), Within(b, y)
  PROVE  Within(a \o b, x \o y)
<1> DEFINE m == Len(a)
           n == Len(b)
           u == Len(x)
           v == Len(y)
           ab == a \o b
           xy == x \o y
<1>1. /\ m \in Nat /\ n \in Nat /\ u \in Nat /\ v \in Nat
      /\ DOMAIN a = 1..m /\ DOMAIN b = 1..n /\ DOMAIN x = 1..u /\ DOMAIN y = 1..v
  BY LenProperties
<1>2. /\ DOMAIN ab = 1..(m + n)
      /\ \A i \in 1..(m + n) : ab[i] = IF i <= m THEN a[i] ELSE b[i - m]
  BY LenProperties, ConcatProperties
<1>3. /\ DOMAIN xy = 1..(u + v)
      /\ \A i \in 1..(u + v) : xy[i] = IF i <= u THEN x[i] ELSE y[i - u]
  BY LenProperties, ConcatProperties
<1> HIDE DEF ab, xy, m, n, u, v
<1>4. PICK f \in [1..m -> 1..u] : /\ \A i \in 1..m : a[i] = x[f[i]]
                                  /\ \A i, j \in 1..m : i < j => f[i] < f[j]
  BY <1>1 DEF Within
<1>5. PICK g \in [1..n -> 1..v] : /\ \A i \in 1..n : b[i] = y[g[i]]
                                  /\ \A i, j \in 1..n : i < j => g[i] < g[j]
  BY <1>1 DEF Within
<1> DEFINE at(i) == IF i <= m THEN f[i] ELSE u + g[i - m]
           h == [i \in 1..(m + n) |-> at(i)]
<1>6. ASSUME NEW i \in 1..(m + n)
      PROVE  /\ i <= m => /\ i \in 1..m /\ h[i] = f[i] /\ f[i] \in 1..u
             /\ ~(i <= m) => /\ i - m \in 1..n /\ h[i] = u + g[i - m] /\ g[i - m] \in 1..v
  BY <1>1
<1> HIDE DEF h
<1>7. ASSUME NEW i \in 1..(m + n) PROVE h[i] \in 1..(u + v) /\ ab[i] = xy[h[i]]
  <2>1. CASE i <= m
    <3>1. h[i] \in 1..(u + v) /\ h[i] <= u
      BY <1>1, <1>6, <2>1
    <3> QED BY <1>2, <1>3, <1>4, <1>6, <2>1, <3>1
  <2>2. CASE ~(i <= m)
    <3>1. h[i] \in 1..(u + v) /\ ~(h[i] <= u) /\ h[i] - u = g[i - m]
      BY <1>1, <1>6, <2>2
    <3> QED BY <1>2, <1>3, <1>5, <1>6, <2>2, <3>1
  <2> QED BY <2>1, <2>2
<1>8. ASSUME NEW i \in 1..(m + n), NEW j \in 1..(m + n), i < j PROVE h[i] < h[j]
  <2>1. CASE j <= m
    <3>1. i <= m
      BY <1>1, <1>8, <2>1
    <3> QED BY <1>4, <1>6, <1>8, <2>1, <3>1
  <2>2. CASE i <= m /\ ~(j <= m)
    BY <1>1, <1>6, <2>2
  <2>3. CASE ~(i <= m)
    <3>1. ~(j <= m) /\ i - m < j - m
      BY <1>1, <1>8, <2>3
    <3>2. g[i - m] < g[j - m]
      BY <1>5, <1>6, <2>3, <3>1
    <3> QED BY <1>1, <1>6, <2>3, <3>1, <3>2
  <2> QED BY <2>1, <2>2, <2>3
<1>9. h \in [1..(m + n) -> 1..(u + v)]
  BY <1>7 DEF h
<1>10. Within(ab, xy)
  BY <1>2, <1>3, <1>7, <1>8, <1>9 DEF Within
<1> QED BY <1>10 DEF ab, xy

\* Some of several sequences are dropped.
LEMMA WithinFlatten ==
  ASSUME NEW S, NEW ss \in Seq(Seq(S)), NEW tt \in Seq(Seq(S)),
         Len(ss) = Len(tt), \A k \in 1..Len(tt) : ss[k] = <<>> \/ ss[k] = tt[k]
  PROVE  Within(FlattenSeq(ss), FlattenSeq(tt))
<1> DEFINE n == Len(tt)
           Cat(x, y) == x \o y
<1>1. n \in Nat /\ \A k \in 1..n : ss[k] \in Seq(S) /\ tt[k] \in Seq(S)
  BY LenProperties
<1>2. PICK f \in [0..n -> Seq(S)] : Joins(f, ss) /\ FlattenSeq(ss) = f[n]
  BY FlattenIs
<1>3. PICK h \in [0..n -> Seq(S)] : Joins(h, tt) /\ FlattenSeq(tt) = h[n]
  BY FlattenIs
<1>4. f[0] = <<>> /\ \A k \in 0..n : k < n => f[k + 1] = Cat(f[k], ss[k + 1])
  BY <1>2 DEF Joins
<1>5. h[0] = <<>> /\ \A k \in 0..n : k < n => h[k + 1] = Cat(h[k], tt[k + 1])
  BY <1>3 DEF Joins
<1>6. \A a, b, x, y \in Seq(S) : Within(a, x) /\ Within(b, y) => Within(Cat(a, b), Cat(x, y))
  BY WithinConcat
<1>7. \A x \in Seq(S) : Within(x, x) /\ Within(<<>>, x)
  BY WithinItself, NothingWithin
<1> HIDE DEF Cat
<1> DEFINE T == {k \in 0..n : Within(f[k], h[k])}
<1>8. 0 \in T
  <2>1. <<>> \in Seq(S)
    BY EmptySeq
  <2> QED BY <1>1, <1>4, <1>5, <1>7, <2>1
<1>9. ASSUME NEW k \in 0..n, k \in T, k < n PROVE k + 1 \in T
  <2>1. k + 1 \in 1..n /\ k + 1 \in 0..n
    BY <1>1, <1>9
  <2>2. /\ f[k] \in Seq(S) /\ h[k] \in Seq(S)
        /\ ss[k + 1] \in Seq(S) /\ tt[k + 1] \in Seq(S) /\ Within(ss[k + 1], tt[k + 1])
    BY <1>1, <1>2, <1>3, <1>7, <2>1
  <2> HIDE DEF n
  <2> QED BY <1>4, <1>5, <1>6, <1>9, <2>1, <2>2
<1>10. n \in T
  <2> HIDE DEF T, n
  <2>1. n \in 0..n
    BY <1>1
  <2> QED BY <1>1, <1>8, <1>9, <2>1, Induction
<1> QED BY <1>2, <1>3, <1>10

\* The same of the images of what is left.
LEMMA WithinJoined ==
  ASSUME NEW S, NEW E, NEW g, Maps(g, E, S), NEW ss \in Seq(Seq(E)), NEW tt \in Seq(Seq(E)),
         Len(ss) = Len(tt), \A k \in 1..Len(tt) : ss[k] = <<>> \/ ss[k] = tt[k]
  PROVE  Within(Joined(g, FlattenSeq(ss)), Joined(g, FlattenSeq(tt)))
<1>1. /\ Each(g, ss) \in Seq(Seq(S)) /\ Len(Each(g, ss)) = Len(ss)
      /\ \A k \in 1..Len(ss) : Each(g, ss)[k] = Joined(g, ss[k])
      /\ Joined(g, FlattenSeq(ss)) = FlattenSeq(Each(g, ss))
  BY EachIs
<1>2. /\ Each(g, tt) \in Seq(Seq(S)) /\ Len(Each(g, tt)) = Len(tt)
      /\ \A k \in 1..Len(tt) : Each(g, tt)[k] = Joined(g, tt[k])
      /\ Joined(g, FlattenSeq(tt)) = FlattenSeq(Each(g, tt))
  BY EachIs
<1>3. Joined(g, <<>>) = <<>>
  BY JoinedNothing
<1>4. \A k \in 1..Len(Each(g, tt)) :
        Each(g, ss)[k] = <<>> \/ Each(g, ss)[k] = Each(g, tt)[k]
  BY <1>1, <1>2, <1>3
<1>5. Within(FlattenSeq(Each(g, ss)), FlattenSeq(Each(g, tt)))
  BY <1>1, <1>2, <1>4, WithinFlatten
<1> QED BY <1>1, <1>2, <1>5

(***************************************************************************)
(* The stream of a reply                                                   *)
(***************************************************************************)

\* What _opencode_openai_completion has after the first events of a stream.
LEMMA ReadIs ==
  ASSUME NEW E, NEW s \in Seq(E)
  PROVE  \E f : /\ f[0] = Nothing
                /\ \A k \in 0..Len(s) : k < Len(s) => f[k + 1] = ReadEvent(f[k], s[k + 1])
                /\ Read(s) = f[Len(s)]
<1> DEFINE n == Len(s)
           Top(t) == CHOOSE x \in t : \A y \in t : x >= y
           Add(a, e) == ReadEvent(a, e)
           Step(g, t) == IF t = {} THEN Nothing ELSE Add(g[t \ {Top(t)}], s[Top(t)])
           F == CHOOSE g : g = [t \in SUBSET DOMAIN s |-> Step(g, t)]
           T == {m \in 0..n : \E g : g = [t \in SUBSET (1..m) |-> Step(g, t)]}
<1>1. n \in Nat /\ DOMAIN s = 1..n
  BY LenProperties
<1>2. Read(s) = F[1..n]
  BY <1>1 DEF Read, FoldLeft, MapThenFoldSet, Max
<1>3. ASSUME NEW t, NEW m \in t, t \subseteq Nat, \A y \in t : m >= y PROVE Top(t) = m
  <2>1. Top(t) \in t /\ \A y \in t : Top(t) >= y
    BY <1>3
  <2> HIDE DEF Top
  <2>2. Top(t) >= m /\ m >= Top(t) /\ Top(t) \in Nat /\ m \in Nat
    BY <1>3, <2>1
  <2> QED BY <2>2
<1> HIDE DEF Top, Add, F
<1>4. 0 \in T
  <2> DEFINE g == [t \in SUBSET (1..0) |-> Nothing]
  <2>1. 1..0 = {} /\ 0 \in 0..n
    BY <1>1
  <2>2. \A t \in SUBSET (1..0) : t = {}
    BY <2>1
  <2>3. \A t \in SUBSET (1..0) : Nothing = Step(g, t)
    <3> HIDE DEF g
    <3> QED BY <2>2
  <2>4. g = [t \in SUBSET (1..0) |-> Step(g, t)]
    <3> HIDE DEF Step
    <3> QED BY <2>3
  <2> HIDE DEF g, Step, n
  <2> QED BY <2>1, <2>4
<1>5. ASSUME NEW m \in 0..n, m \in T, m < n PROVE m + 1 \in T
  <2>1. PICK g : g = [t \in SUBSET (1..m) |-> Step(g, t)]
    BY <1>5
  <2> DEFINE value(t) == IF m + 1 \in t THEN Add(g[t \ {m + 1}], s[m + 1]) ELSE g[t]
             h == [t \in SUBSET (1..(m + 1)) |-> value(t)]
  <2>2. /\ m + 1 \in 0..n /\ m + 1 \in 1..(m + 1) /\ 1..m \subseteq 1..(m + 1) /\ m + 1 \notin 1..m
        /\ 1..(m + 1) \subseteq Nat
        /\ \A x \in 1..(m + 1) : (x \in 1..m \/ x = m + 1) /\ m + 1 >= x
    BY <1>1, <1>5
  <2>3. \A t \in SUBSET (1..(m + 1)) : h[t] = value(t)
    <3> HIDE DEF value
    <3> QED OBVIOUS
  <2> HIDE DEF h
  <2>4. \A t \in SUBSET (1..m) : h[t] = g[t] /\ g[t] = Step(g, t)
    <3>1. \A t \in SUBSET (1..m) : g[t] = Step(g, t)
      <4> HIDE DEF Step
      <4> QED BY <2>1
    <3>2. \A t \in SUBSET (1..m) : t \in SUBSET (1..(m + 1)) /\ m + 1 \notin t
      BY <2>2
    <3> HIDE DEF Step
    <3> QED BY <2>3, <3>1, <3>2
  <2>5. ASSUME NEW t \in SUBSET (1..(m + 1)) PROVE value(t) = Step(h, t)
    <3>1. CASE m + 1 \in t
      <4>1. t \subseteq Nat /\ \A y \in t : m + 1 >= y
        BY <2>2
      <4>2. Top(t) = m + 1
        BY <1>3, <3>1, <4>1
      <4>3. t \ {m + 1} \in SUBSET (1..m)
        BY <2>2
      <4> QED BY <2>4, <3>1, <4>2, <4>3
    <3>2. CASE m + 1 \notin t
      <4>1. t \in SUBSET (1..m) /\ t \ {Top(t)} \in SUBSET (1..m)
        BY <2>2, <3>2
      <4>2. g[t] = Step(g, t) /\ h[t \ {Top(t)}] = g[t \ {Top(t)}]
        BY <2>4, <4>1
      <4> QED BY <3>2, <4>2
    <3> QED BY <3>1, <3>2
  <2>6. h = [t \in SUBSET (1..(m + 1)) |-> Step(h, t)]
    <3>1. h = [t \in SUBSET (1..(m + 1)) |-> value(t)]
      BY DEF h
    <3> HIDE DEF value, Step
    <3> QED BY <2>5, <3>1
  <2> HIDE DEF n, Step
  <2> QED BY <2>2, <2>6
<1>6. \E g : g = [t \in SUBSET (1..n) |-> Step(g, t)]
  <2> HIDE DEF T, n
  <2>1. n \in 0..n
    BY <1>1
  <2>2. n \in T
    BY <1>1, <1>4, <1>5, <2>1, Induction
  <2> QED BY <2>2 DEF T
<1>7. F = [t \in SUBSET (1..n) |-> Step(F, t)]
  <2> HIDE DEF n, Step
  <2> QED BY <1>1, <1>6 DEF F
<1> DEFINE f == [k \in 0..n |-> F[1..k]]
<1>8. \A k \in 0..n : f[k] = Step(F, 1..k)
  <2>1. \A k \in 0..n : 1..k \in SUBSET (1..n)
    BY <1>1
  <2> HIDE DEF n, Step
  <2> QED BY <1>7, <2>1
<1>9. f[0] = Nothing
  <2>1. 1..0 = {} /\ 0 \in 0..n
    BY <1>1
  <2> HIDE DEF f
  <2> QED BY <1>8, <2>1
<1>10. ASSUME NEW k \in 0..n, k < n PROVE f[k + 1] = Add(f[k], s[k + 1])
  <2>1. /\ k + 1 \in 0..n /\ k + 1 \in 1..(k + 1) /\ 1..(k + 1) \subseteq Nat
        /\ \A y \in 1..(k + 1) : k + 1 >= y
        /\ (1..(k + 1)) \ {k + 1} = 1..k
    BY <1>1, <1>10
  <2>2. Top(1..(k + 1)) = k + 1
    BY <1>3, <2>1
  <2>3. f[k] = F[1..k]
    OBVIOUS
  <2> HIDE DEF f, n
  <2> QED BY <1>8, <2>1, <2>2, <2>3
<1>11. n \in 0..n
  BY <1>1
<1> HIDE DEF n
<1>12. Read(s) = f[n]
  BY <1>2, <1>11
<1> QED BY <1>9, <1>10, <1>12 DEF n, Add

LEMMA ReadAppend ==
  ASSUME NEW E, NEW s \in Seq(E), NEW e \in E
  PROVE  Read(Append(s, e)) = ReadEvent(Read(s), e)
<1> DEFINE n == Len(s)
           Add(a, x) == ReadEvent(a, x)
           t == Append(s, e)
<1>1. /\ n \in Nat /\ t \in Seq(E) /\ Len(t) = n + 1 /\ t[n + 1] = e
      /\ \A k \in 1..n : t[k] = s[k]
  BY LenProperties, AppendProperties
<1> HIDE DEF t
<1>2. PICK f : /\ f[0] = Nothing
               /\ \A k \in 0..n : k < n => f[k + 1] = Add(f[k], s[k + 1])
               /\ Read(s) = f[n]
  BY ReadIs
<1>3. PICK g : /\ g[0] = Nothing
               /\ \A k \in 0..(n + 1) : k < n + 1 => g[k + 1] = Add(g[k], t[k + 1])
               /\ Read(t) = g[n + 1]
  BY <1>1, ReadIs
<1> HIDE DEF n, Add
<1> DEFINE T == {k \in 0..n : g[k] = f[k]}
<1>4. 0 \in T
  BY <1>1, <1>2, <1>3
<1>5. ASSUME NEW k \in 0..n, k \in T, k < n PROVE k + 1 \in T
  <2>1. k + 1 \in 1..n /\ k + 1 \in 0..n /\ k \in 0..(n + 1) /\ k < n + 1
    BY <1>1, <1>5
  <2>2. t[k + 1] = s[k + 1]
    BY <1>1, <2>1
  <2> QED BY <1>2, <1>3, <1>5, <2>1, <2>2
<1>6. n \in T
  <2> HIDE DEF T
  <2>1. n \in 0..n
    BY <1>1
  <2> QED BY <1>1, <1>4, <1>5, <2>1, Induction
<1>7. n \in 0..(n + 1) /\ n < n + 1
  BY <1>1
<1>8. g[n + 1] = Add(f[n], e)
  BY <1>1, <1>3, <1>6, <1>7
<1> QED BY <1>2, <1>3, <1>8 DEF t, Add

\* The contents of the events of one kind.
Part(kind, e) == IF e.event = kind THEN e.content ELSE <<>>

Contents(kind, stream) == [k \in DOMAIN stream |-> Part(kind, stream[k])]

Picked(kind, stream) == FlattenSeq(Contents(kind, stream))

\* The events before the end of a stream, and those that can be read.
Readable(P, I) == [event : {"delta"}, content : Seq(P)] \cup [event : {"item"}, content : Seq(I)]
Parts(P, I) == Readable(P, I) \cup {Garbled}

\* What _opencode_openai_completion keeps of a stream.
Accs(P, I) == [text : Seq(P), items : Seq(I), output : Seq(I), completed : BOOLEAN]

\* What events of one kind carry.
Carry(E, kind, S) == \A e \in E : e.event = kind => e.content \in Seq(S)

LEMMA ContentsAt ==
  ASSUME NEW E, NEW kind, NEW s \in Seq(E)
  PROVE  /\ Len(Contents(kind, s)) = Len(s)
         /\ \A k \in 1..Len(s) : Contents(kind, s)[k] = Part(kind, s[k])
<1>1. Len(s) \in Nat /\ DOMAIN s = 1..Len(s)
  BY LenProperties
<1>2. Contents(kind, s) = [k \in 1..Len(s) |-> Part(kind, s[k])]
  BY <1>1 DEF Contents
<1>3. \A k \in 1..Len(s) : Contents(kind, s)[k] = Part(kind, s[k])
  BY <1>2
<1>4. Len(Contents(kind, s)) = Len(s)
  <2> DEFINE parts == {Part(kind, s[l]) : l \in 1..Len(s)}
  <2>1. \A k \in 1..Len(s) : Part(kind, s[k]) \in parts
    OBVIOUS
  <2> HIDE DEF parts
  <2>2. Contents(kind, s) \in [1..Len(s) -> parts]
    BY <1>2, <2>1
  <2> QED BY <1>1, <2>2, LenProperties, IsASeq
<1> QED BY <1>3, <1>4

LEMMA ContentsIn ==
  ASSUME NEW S, NEW E, NEW kind, NEW s \in Seq(E), Carry(E, kind, S)
  PROVE  Contents(kind, s) \in Seq(Seq(S)) /\ Picked(kind, s) \in Seq(S)
<1>1. Len(s) \in Nat /\ DOMAIN s = 1..Len(s) /\ \A k \in 1..Len(s) : s[k] \in E
  BY LenProperties
<1>2. \A e \in E : Part(kind, e) \in Seq(S)
  BY EmptySeq DEF Carry, Part
<1>3. Contents(kind, s) \in [1..Len(s) -> Seq(S)]
  BY <1>1, <1>2 DEF Contents
<1>4. Contents(kind, s) \in Seq(Seq(S))
  BY <1>1, <1>3, IsASeq
<1> QED BY <1>4, FlattenType DEF Picked

LEMMA PickedIs ==
  ASSUME NEW S, NEW E, NEW kind, Carry(E, kind, S)
  PROVE  LET g == [e \in E |-> Part(kind, e)]
         IN Maps(g, E, S) /\ \A s \in Seq(E) : Picked(kind, s) = Joined(g, s)
<1> DEFINE g == [e \in E |-> Part(kind, e)]
<1>1. \A e \in E : Part(kind, e) \in Seq(S)
  BY EmptySeq DEF Carry, Part
<1>2. Maps(g, E, S) /\ \A e \in E : g[e] = Part(kind, e)
  BY <1>1 DEF Maps
<1> HIDE DEF g
<1>3. ASSUME NEW s \in Seq(E) PROVE Picked(kind, s) = Joined(g, s)
  <2>1. \A k \in DOMAIN s : s[k] \in E
    BY LenProperties
  <2>2. Contents(kind, s) = Image(g, s)
    BY <1>2, <2>1 DEF Contents, Image
  <2> QED BY <2>2 DEF Picked, Joined
<1> QED BY <1>2, <1>3 DEF g

LEMMA PickedConcat ==
  ASSUME NEW S, NEW E, NEW kind, NEW a \in Seq(E), NEW b \in Seq(E), Carry(E, kind, S)
  PROVE  Picked(kind, a \o b) = Picked(kind, a) \o Picked(kind, b)
<1> DEFINE g == [e \in E |-> Part(kind, e)]
<1>1. Maps(g, E, S) /\ \A s \in Seq(E) : Picked(kind, s) = Joined(g, s)
  BY PickedIs
<1> HIDE DEF g
<1>2. a \o b \in Seq(E)
  BY ConcatProperties
<1>3. Joined(g, a \o b) = Joined(g, a) \o Joined(g, b)
  BY <1>1, JoinedConcat
<1> QED BY <1>1, <1>2, <1>3

LEMMA PickedNone ==
  ASSUME NEW E, NEW kind, NEW s \in Seq(E), \A e \in E : e.event # kind
  PROVE  Picked(kind, s) = <<>>
<1>1. \A k \in 1..Len(s) : s[k] \in E
  BY LenProperties
<1>2. \A k \in 1..Len(s) : Part(kind, s[k]) = <<>>
  BY <1>1 DEF Part
<1>3. /\ Len(Contents(kind, s)) = Len(s)
      /\ \A k \in 1..Len(s) : Contents(kind, s)[k] = <<>>
  BY <1>2, ContentsAt
<1>4. Contents(kind, s) \in Seq(Seq({}))
  <2>1. Carry(E, kind, {})
    BY DEF Carry
  <2> QED BY <2>1, ContentsIn
<1> QED BY <1>3, <1>4, FlattenNone DEF Picked

\* Of several streams, one after the other.
LEMMA PickedFlatten ==
  ASSUME NEW S, NEW E, NEW kind, NEW ss \in Seq(Seq(E)), NEW ps \in Seq(Seq(S)),
         Carry(E, kind, S), Len(ps) = Len(ss), \A k \in 1..Len(ss) : ps[k] = Picked(kind, ss[k])
  PROVE  Picked(kind, FlattenSeq(ss)) = FlattenSeq(ps)
<1> DEFINE g == [e \in E |-> Part(kind, e)]
<1>1. Maps(g, E, S) /\ \A s \in Seq(E) : Picked(kind, s) = Joined(g, s)
  BY PickedIs
<1> HIDE DEF g
<1>2. FlattenSeq(ss) \in Seq(E) /\ \A k \in 1..Len(ss) : ss[k] \in Seq(E)
  BY FlattenType, LenProperties
<1>3. /\ Each(g, ss) \in Seq(Seq(S)) /\ Len(Each(g, ss)) = Len(ss)
      /\ \A k \in 1..Len(ss) : Each(g, ss)[k] = Joined(g, ss[k])
      /\ Joined(g, FlattenSeq(ss)) = FlattenSeq(Each(g, ss))
  <2>1. Maps(g, E, S)
    BY <1>1
  <2> QED BY <2>1, EachIs
<1>4. Each(g, ss) = ps
  <2>1. \A k \in 1..Len(ss) : Each(g, ss)[k] = ps[k]
    BY <1>1, <1>2, <1>3
  <2> QED BY <1>3, <2>1, SeqEqual
<1> QED BY <1>1, <1>2, <1>3, <1>4

\* Read puts the deltas together, and the items, and skips what is garbled.
LEMMA ReadParts ==
  ASSUME NEW P, NEW I, NEW s \in Seq(Parts(P, I))
  PROVE  /\ Read(s) \in Accs(P, I)
         /\ Read(s).text = Picked("delta", s) /\ Read(s).items = Picked("item", s)
         /\ Read(s).output = <<>> /\ ~Read(s).completed
<1> DEFINE n == Len(s)
           E == Parts(P, I)
           Cat(x, y) == x \o y
           ds == Contents("delta", s)
           is == Contents("item", s)
           Has(a, x, y) == /\ a \in Accs(P, I) /\ a.text = x /\ a.items = y
                           /\ a.output = <<>> /\ a.completed = FALSE
<1>1. n \in Nat /\ \A k \in 1..n : s[k] \in E
  BY LenProperties
<1>2. PICK f : /\ f[0] = Nothing
               /\ \A k \in 0..n : k < n => f[k + 1] = ReadEvent(f[k], s[k + 1])
               /\ Read(s) = f[n]
  BY ReadIs
<1>3. /\ Carry(E, "delta", P) /\ Carry(E, "item", I)
      /\ \A e \in E : e.event \in {"delta", "item", "garbled"}
  BY DEF Parts, Readable, Garbled, Carry
<1> HIDE DEF E
<1>4. /\ ds \in Seq(Seq(P)) /\ Len(ds) = n
      /\ \A k \in 1..n : ds[k] = Part("delta", s[k])
  <2>1. /\ Len(ds) = n
        /\ \A k \in 1..n : ds[k] = Part("delta", s[k])
    BY ContentsAt
  <2>2. ds \in Seq(Seq(P))
    BY <1>3, ContentsIn DEF E
  <2> QED BY <2>1, <2>2
<1>5. /\ is \in Seq(Seq(I)) /\ Len(is) = n
      /\ \A k \in 1..n : is[k] = Part("item", s[k])
  <2>1. /\ Len(is) = n
        /\ \A k \in 1..n : is[k] = Part("item", s[k])
    BY ContentsAt
  <2>2. is \in Seq(Seq(I))
    BY <1>3, ContentsIn DEF E
  <2> QED BY <2>1, <2>2
<1>6. PICK d \in [0..n -> Seq(P)] : Joins(d, ds) /\ FlattenSeq(ds) = d[n]
  BY <1>4, FlattenIs
<1>7. PICK i \in [0..n -> Seq(I)] : Joins(i, is) /\ FlattenSeq(is) = i[n]
  BY <1>5, FlattenIs
<1>8. d[0] = <<>> /\ \A k \in 0..n : k < n => d[k + 1] = Cat(d[k], ds[k + 1])
  BY <1>4, <1>6 DEF Joins
<1>9. i[0] = <<>> /\ \A k \in 0..n : k < n => i[k + 1] = Cat(i[k], is[k + 1])
  BY <1>5, <1>7 DEF Joins
<1>10. /\ \A x \in Seq(P) : Cat(x, <<>>) = x
       /\ \A x \in Seq(I) : Cat(x, <<>>) = x
  BY ConcatEmptySeq
<1>11. ASSUME NEW a, NEW x \in Seq(P), NEW y \in Seq(I), Has(a, x, y), NEW e \in E
       PROVE  /\ e.event = "delta" => Has(ReadEvent(a, e), Cat(x, e.content), y)
              /\ e.event = "item" => Has(ReadEvent(a, e), x, Cat(y, e.content))
              /\ e.event = "garbled" => Has(ReadEvent(a, e), x, y)
  <2>1. CASE e.event = "delta"
    <3>1. e.content \in Seq(P) /\ Cat(x, e.content) \in Seq(P)
      BY <1>3, <2>1, ConcatProperties DEF Carry
    <3>2. ReadEvent(a, e) = [a EXCEPT !.text = Cat(x, e.content)]
      BY <1>11, <2>1 DEF ReadEvent
    <3> HIDE DEF Cat, E, ds, is, n
    <3> QED BY <1>11, <2>1, <3>1, <3>2 DEF Accs
  <2>2. CASE e.event = "item"
    <3>1. e.content \in Seq(I) /\ Cat(y, e.content) \in Seq(I)
      BY <1>3, <2>2, ConcatProperties DEF Carry
    <3>2. ReadEvent(a, e) = [a EXCEPT !.items = Cat(y, e.content)]
      BY <1>11, <2>2 DEF ReadEvent
    <3> HIDE DEF Cat, E, ds, is, n
    <3> QED BY <1>11, <2>2, <3>1, <3>2 DEF Accs
  <2>3. CASE e.event = "garbled"
    <3>1. ReadEvent(a, e) = a
      BY <2>3 DEF ReadEvent
    <3> HIDE DEF Has
    <3> QED BY <1>11, <2>3, <3>1
  <2> QED BY <1>3, <2>1, <2>2, <2>3
<1> HIDE DEF Cat, Has, ds, is, n
<1> DEFINE T == {k \in 0..n : Has(f[k], d[k], i[k])}
<1>12. 0 \in T
  <2>1. 0 \in 0..n /\ f[0] = Nothing /\ d[0] = <<>> /\ i[0] = <<>>
    BY <1>1, <1>2, <1>8, <1>9
  <2>2. Has(Nothing, <<>>, <<>>)
    BY EmptySeq DEF Has, Nothing, Accs
  <2> QED BY <2>1, <2>2, Zenon
<1>13. ASSUME NEW k \in 0..n, k \in T, k < n PROVE k + 1 \in T
  <2>1. k + 1 \in 1..n /\ k + 1 \in 0..n
    BY <1>1, <1>13
  <2> DEFINE e == s[k + 1]
  <2>2. /\ e \in E /\ e.event \in {"delta", "item", "garbled"}
        /\ Has(f[k], d[k], i[k]) /\ f[k + 1] = ReadEvent(f[k], e)
        /\ d[k] \in Seq(P) /\ i[k] \in Seq(I)
    BY <1>1, <1>2, <1>3, <1>6, <1>7, <1>13, <2>1
  <2>3. CASE e.event = "delta"
    <3>1. ds[k + 1] = e.content /\ is[k + 1] = <<>>
      BY <1>4, <1>5, <2>1, <2>3 DEF Part
    <3>2. d[k + 1] = Cat(d[k], e.content) /\ i[k + 1] = i[k]
      BY <1>8, <1>9, <1>10, <1>13, <2>2, <3>1
    <3>3. Has(ReadEvent(f[k], e), Cat(d[k], e.content), i[k])
      BY <1>11, <2>2, <2>3
    <3> QED BY <2>1, <2>2, <3>2, <3>3
  <2>4. CASE e.event = "item"
    <3>1. ds[k + 1] = <<>> /\ is[k + 1] = e.content
      BY <1>4, <1>5, <2>1, <2>4 DEF Part
    <3>2. d[k + 1] = d[k] /\ i[k + 1] = Cat(i[k], e.content)
      BY <1>8, <1>9, <1>10, <1>13, <2>2, <3>1
    <3>3. Has(ReadEvent(f[k], e), d[k], Cat(i[k], e.content))
      BY <1>11, <2>2, <2>4
    <3> QED BY <2>1, <2>2, <3>2, <3>3
  <2>5. CASE e.event = "garbled"
    <3>1. ds[k + 1] = <<>> /\ is[k + 1] = <<>>
      BY <1>4, <1>5, <2>1, <2>5 DEF Part
    <3>2. d[k + 1] = d[k] /\ i[k + 1] = i[k]
      BY <1>8, <1>9, <1>10, <1>13, <2>2, <3>1
    <3>3. Has(ReadEvent(f[k], e), d[k], i[k])
      BY <1>11, <2>2, <2>5
    <3> QED BY <2>1, <2>2, <3>2, <3>3
  <2> QED BY <2>2, <2>3, <2>4, <2>5
<1>14. n \in T
  <2> HIDE DEF T
  <2>1. n \in 0..n
    BY <1>1
  <2> QED BY <1>1, <1>12, <1>13, <2>1, Induction
<1> QED BY <1>2, <1>6, <1>7, <1>14 DEF Has, Picked, ds, is

\* What there is to say of an item: its text in pieces, and itself.
LEMMA EventsAre ==
  ASSUME NEW P, NEW I, NEW item \in I, Text(item.parts) \in Seq(P)
  PROVE  /\ Events(item) \in Seq(Readable(P, I))
         /\ Picked("delta", Events(item)) = Text(item.parts)
         /\ Picked("item", Events(item)) = <<item>>
<1> DEFINE ps == Text(item.parts)
           n == Len(ps)
           deltas == [k \in DOMAIN ps |-> Delta(ps[k])]
           done == <<ItemDone(item)>>
           E == Readable(P, I)
           D == [event : {"delta"}, content : Seq(P)]
           J == [event : {"item"}, content : Seq(I)]
<1>0. Events(item) = deltas \o done
  BY DEF Events
<1> HIDE DEF ps
<1>1. n \in Nat /\ DOMAIN ps = 1..n /\ \A k \in 1..n : ps[k] \in P
  BY LenProperties DEF ps
<1>2. deltas \in Seq(D) /\ Len(deltas) = n /\ \A k \in 1..n : deltas[k] = Delta(ps[k])
  <2>1. \A k \in 1..n : Delta(ps[k]) \in D
    BY <1>1 DEF Delta
  <2> HIDE DEF D
  <2>2. deltas \in [1..n -> D]
    BY <1>1, <2>1
  <2> QED BY <1>1, <2>2, IsASeq, LenProperties
<1>3. ItemDone(item) \in J
  BY DEF ItemDone
<1>4. done \in Seq(J)
  <2> HIDE DEF J
  <2> QED BY <1>3
<1>5. deltas \in Seq(E) /\ done \in Seq(E) /\ J \subseteq E
  <2>1. D \subseteq E /\ J \subseteq E
    BY DEF Readable
  <2> HIDE DEF D, J, deltas, done
  <2> QED BY <1>2, <1>4, <2>1, SeqMonotonic
<1>7. Carry(E, "delta", P) /\ Carry(E, "item", I)
  BY DEF Carry, Readable
<1> HIDE DEF deltas, done, E
<1>8. Events(item) \in Seq(E)
  BY <1>0, <1>5, ConcatProperties
<1>9. Picked("delta", deltas) = ps
  <2> DEFINE singles == [k \in DOMAIN ps |-> <<ps[k]>>]
  <2>2. \A k \in 1..n : Part("delta", deltas[k]) = <<ps[k]>>
    <3>1. \A x : Part("delta", Delta(x)) = <<x>>
      BY DEF Part, Delta
    <3> QED BY <1>2, <3>1
  <2>3. DOMAIN deltas = 1..n
    BY <1>2, LenProperties
  <2>4. Contents("delta", deltas) = singles
    BY <1>1, <2>2, <2>3 DEF Contents
  <2>5. ps \in Seq(P)
    BY DEF ps
  <2> QED BY <2>4, <2>5, FlattenSingles DEF Picked
<1>10. Picked("item", deltas) = <<>>
  <2>1. \A e \in D : e.event # "item"
    OBVIOUS
  <2> HIDE DEF D
  <2> QED BY <1>2, <2>1, PickedNone
<1>11. Picked("delta", done) = <<>>
  <2>1. \A e \in J : e.event # "delta"
    OBVIOUS
  <2> HIDE DEF J
  <2> QED BY <1>4, <2>1, PickedNone
<1>12. Picked("item", done) = <<item>>
  <2>1. done = <<ItemDone(item)>> /\ Len(done) = 1 /\ done[1] = ItemDone(item)
    BY DEF done
  <2>2. DOMAIN done = {1}
    BY <2>1
  <2>3. Contents("item", done) = <<Part("item", ItemDone(item))>>
    BY <2>1, <2>2 DEF Contents
  <2>4. Part("item", ItemDone(item)) = <<item>>
    BY DEF Part, ItemDone
  <2>5. <<item>> \in Seq(I)
    OBVIOUS
  <2>6. FlattenSeq(<<<<item>>>>) = <<item>>
    BY <2>5, FlattenOne
  <2> QED BY <2>3, <2>4, <2>6 DEF Picked
<1>13. \A x \in Seq(P) : x \o <<>> = x
  BY ConcatEmptySeq
<1>14. Picked("delta", deltas \o done) = ps
  <2>1. Picked("delta", deltas \o done) = Picked("delta", deltas) \o Picked("delta", done)
    BY <1>5, <1>7, PickedConcat
  <2>2. ps \in Seq(P)
    BY DEF ps
  <2> QED BY <1>9, <1>11, <1>13, <2>1, <2>2
<1>15. Picked("item", deltas \o done) = <<item>>
  <2>1. <<>> \o <<item>> = <<item>>
    BY ConcatEmptySeq
  <2>2. Picked("item", deltas \o done) = Picked("item", deltas) \o Picked("item", done)
    BY <1>5, <1>7, PickedConcat
  <2> QED BY <1>10, <1>12, <2>1, <2>2
<1> QED BY <1>0, <1>8, <1>14, <1>15 DEF E, ps

\* An item as the model says it.
Items(P, I) ==
  \A item \in I : \/ item.parts \in Seq(Seq(P)) /\ item = Message(item.parts)
                  \/ item = Call(item.id)

\* What an item contributes to the answer.
IdsOf(I) == [item \in I |-> CallIds(item)]
TextOf(I) == [item \in I |-> Text(Texts(item))]
Ids(I) == {item.id : item \in I}

LEMMA ItemsAre ==
  ASSUME NEW P, NEW I, Items(P, I)
  PROVE  /\ Maps(IdsOf(I), I, Ids(I)) /\ Maps(TextOf(I), I, P)
         /\ \A item \in I : /\ Texts(item) \in Seq(Seq(P))
                            /\ TextOf(I)[item] = Text(item.parts)
                            /\ IsMessage(item) => CallIds(item) = <<>>
<1>1. ASSUME NEW item \in I PROVE CallIds(item) \in Seq(Ids(I))
  <2>1. item.id \in Ids(I)
    BY DEF Ids
  <2> QED BY <2>1, EmptySeq DEF CallIds
<1>2. ASSUME NEW item \in I
      PROVE  /\ Texts(item) \in Seq(Seq(P)) /\ Texts(item) = item.parts
             /\ IsMessage(item) => CallIds(item) = <<>>
  <2>1. CASE item.parts \in Seq(Seq(P)) /\ item = Message(item.parts)
    <3>1. item.kind = "message"
      BY <2>1 DEF Message
    <3> QED BY <2>1, <3>1 DEF Texts, CallIds, IsMessage, IsCall
  <2>2. CASE item = Call(item.id)
    <3>1. item.kind = "call" /\ item.parts = <<>>
      BY <2>2 DEF Call
    <3> QED BY <3>1, EmptySeq DEF Texts, IsMessage
  <2> QED BY <2>1, <2>2 DEF Items
<1>3. \A item \in I : Text(Texts(item)) \in Seq(P)
  BY <1>2, FlattenType DEF Text
<1> QED BY <1>1, <1>2, <1>3 DEF IdsOf, TextOf, Maps

\* What an answer says of some items.
LEMMA ParsedIs ==
  ASSUME NEW P, NEW I, Items(P, I), NEW o \in Seq(I)
  PROVE  /\ Parsed(o).calls = Joined(IdsOf(I), o)
         /\ Text(Parsed(o).content) = Joined(TextOf(I), o)
<1>1. DOMAIN o = 1..Len(o) /\ Len(o) \in Nat /\ \A k \in 1..Len(o) : o[k] \in I
  BY LenProperties
<1>2. [k \in DOMAIN o |-> CallIds(o[k])] = Image(IdsOf(I), o)
  BY <1>1 DEF IdsOf, Image
<1> DEFINE ss == [k \in DOMAIN o |-> Texts(o[k])]
           ps == Image(TextOf(I), o)
<1>3. ss \in Seq(Seq(Seq(P))) /\ Len(ss) = Len(o) /\ \A k \in 1..Len(o) : ss[k] = Texts(o[k])
  <2>1. \A k \in 1..Len(o) : Texts(o[k]) \in Seq(Seq(P))
    BY <1>1, ItemsAre
  <2>2. ss \in [1..Len(o) -> Seq(Seq(P))]
    BY <1>1, <2>1
  <2> QED BY <1>1, <2>2, IsASeq, LenProperties
<1>4. /\ ps \in Seq(Seq(P)) /\ Len(ps) = Len(o)
      /\ \A k \in 1..Len(o) : ps[k] = TextOf(I)[o[k]]
  BY ItemsAre, ImageAt
<1>5. Parsed(o).calls = FlattenSeq(Image(IdsOf(I), o)) /\ Parsed(o).content = FlattenSeq(ss)
  BY <1>2 DEF Parsed
<1>6. \A k \in 1..Len(o) : TextOf(I)[o[k]] = FlattenSeq(Texts(o[k]))
  BY <1>1 DEF TextOf, Text
<1> HIDE DEF ss, ps
<1>7. \A k \in 1..Len(ss) : ps[k] = FlattenSeq(ss[k])
  BY <1>3, <1>4, <1>6
<1>8. FlattenSeq(FlattenSeq(ss)) = FlattenSeq(ps)
  BY <1>3, <1>4, <1>7, FlattenTwice
<1> QED BY <1>5, <1>8 DEF Joined, Text, ps

\* What a text alone says.
LEMMA ParsedText ==
  ASSUME NEW P, NEW text \in Seq(P)
  PROVE  /\ Parsed(<<Message(<<text>>)>>).calls = <<>>
         /\ Text(Parsed(<<Message(<<text>>)>>).content) = text
<1> DEFINE o == <<Message(<<text>>)>>
<1>1. DOMAIN o = {1} /\ o[1] = Message(<<text>>)
  OBVIOUS
<1>2. Texts(Message(<<text>>)) = <<text>> /\ CallIds(Message(<<text>>)) = <<>>
  BY DEF Texts, CallIds, Message, IsMessage, IsCall
<1> HIDE DEF o
<1>3. [k \in DOMAIN o |-> Texts(o[k])] = <<<<text>>>>
  BY <1>1, <1>2
<1>4. [k \in DOMAIN o |-> CallIds(o[k])] = <<<<>>>>
  BY <1>1, <1>2
<1>5. FlattenSeq(<<<<text>>>>) = <<text>>
  <2>1. <<text>> \in Seq(Seq(P))
    OBVIOUS
  <2> QED BY <2>1, FlattenOne
<1>6. FlattenSeq(<<<<>>>>) = <<>>
  <2>1. <<>> \in Seq(P)
    BY EmptySeq
  <2> QED BY <2>1, FlattenOne
<1>7. FlattenSeq(<<text>>) = text
  BY FlattenOne
<1>8. Parsed(o).calls = <<>> /\ Parsed(o).content = <<text>>
  BY <1>3, <1>4, <1>5, <1>6 DEF Parsed
<1> QED BY <1>7, <1>8 DEF Text, o

LEMMA ParsedNothing == Parsed(<<>>) = [content |-> <<>>, calls |-> <<>>] /\ Text(<<>>) = <<>>
<1>1. FlattenSeq(<<>>) = <<>>
  <2>1. <<>> \in Seq(Seq({})) /\ Len(<<>>) = 0 /\ 1..0 = {}
    BY EmptySeq
  <2> QED BY <2>1, FlattenNone
<1>2. /\ [k \in DOMAIN <<>> |-> Texts(<<>>[k])] = <<>>
      /\ [k \in DOMAIN <<>> |-> CallIds(<<>>[k])] = <<>>
  OBVIOUS
<1> QED BY <1>1, <1>2 DEF Parsed, Text

\* The events of a reply before its end.
Told(said) == FlattenSeq([k \in DOMAIN said |-> Events(said[k])])

LEMMA ToldIs ==
  ASSUME NEW P, NEW I, Items(P, I), NEW said \in Seq(I)
  PROVE  /\ Told(said) \in Seq(Readable(P, I))
         /\ Picked("delta", Told(said)) = Joined(TextOf(I), said)
         /\ Picked("item", Told(said)) = said
<1> DEFINE n == Len(said)
           E == Readable(P, I)
           parts == [k \in DOMAIN said |-> Events(said[k])]
           texts == Image(TextOf(I), said)
           items == [k \in DOMAIN said |-> <<said[k]>>]
<1>1. n \in Nat /\ DOMAIN said = 1..n /\ \A k \in 1..n : said[k] \in I
  BY LenProperties
<1>2. \A item \in I : /\ Text(item.parts) = TextOf(I)[item]
                      /\ Text(item.parts) \in Seq(P)
  BY ItemsAre DEF Maps
<1>3. ASSUME NEW item \in I
      PROVE  /\ Events(item) \in Seq(E)
             /\ Picked("delta", Events(item)) = TextOf(I)[item]
             /\ Picked("item", Events(item)) = <<item>>
  <2>1. Text(item.parts) \in Seq(P) /\ Text(item.parts) = TextOf(I)[item]
    BY <1>2
  <2> QED BY <2>1, EventsAre
<1> HIDE DEF E
<1>4. /\ parts \in Seq(Seq(E)) /\ Len(parts) = n
      /\ \A k \in 1..n : parts[k] = Events(said[k])
  <2>1. parts \in [1..n -> Seq(E)]
    BY <1>1, <1>3
  <2> QED BY <1>1, <2>1, IsASeq, LenProperties
<1>5. /\ texts \in Seq(Seq(P)) /\ Len(texts) = n
      /\ \A k \in 1..n : texts[k] = TextOf(I)[said[k]]
  BY ItemsAre, ImageAt
<1>6. /\ items \in Seq(Seq(I)) /\ Len(items) = n
      /\ \A k \in 1..n : items[k] = <<said[k]>>
  <2>1. \A k \in 1..n : <<said[k]>> \in Seq(I)
    BY <1>1
  <2>2. items \in [1..n -> Seq(I)]
    BY <1>1, <2>1
  <2> QED BY <1>1, <2>2, IsASeq, LenProperties
<1>7. FlattenSeq(items) = said
  BY FlattenSingles
<1>8. Carry(E, "delta", P) /\ Carry(E, "item", I)
  BY DEF E, Carry, Readable
<1> HIDE DEF parts, texts, items, n
<1>9. Told(said) = FlattenSeq(parts)
  BY DEF Told, parts
<1>10. FlattenSeq(parts) \in Seq(E)
  BY <1>4, FlattenType
<1>11. Picked("delta", FlattenSeq(parts)) = FlattenSeq(texts)
  <2>1. \A k \in 1..Len(parts) : texts[k] = Picked("delta", parts[k])
    BY <1>1, <1>3, <1>4, <1>5
  <2>2. Len(texts) = Len(parts) /\ parts \in Seq(Seq(E)) /\ texts \in Seq(Seq(P))
    BY <1>4, <1>5
  <2> QED BY <1>8, <2>1, <2>2, PickedFlatten
<1>12. Picked("item", FlattenSeq(parts)) = FlattenSeq(items)
  <2>1. \A k \in 1..Len(parts) : items[k] = Picked("item", parts[k])
    BY <1>1, <1>3, <1>4, <1>6
  <2>2. Len(items) = Len(parts) /\ parts \in Seq(Seq(E)) /\ items \in Seq(Seq(I))
    BY <1>4, <1>6
  <2> QED BY <1>8, <2>1, <2>2, PickedFlatten
<1> QED BY <1>7, <1>9, <1>10, <1>11, <1>12 DEF E, texts, Joined

\* What is received of a stream.
LEMMA ReceivedIs ==
  ASSUME NEW P, NEW I, NEW s \in Seq(Readable(P, I)), NEW missing
  PROVE  /\ Received(s, missing) \in Seq(Parts(P, I)) /\ Len(Received(s, missing)) = Len(s)
         /\ \A k \in 1..Len(s) :
              /\ k \in missing => Received(s, missing)[k] = Garbled
              /\ k \notin missing => Received(s, missing)[k] = s[k]
<1> DEFINE E == Readable(P, I)
           F == Parts(P, I)
           t == Received(s, missing)
<1>1. Len(s) \in Nat /\ DOMAIN s = 1..Len(s) /\ \A k \in 1..Len(s) : s[k] \in E
  BY LenProperties
<1>2. E \subseteq F /\ Garbled \in F
  BY DEF Parts
<1> HIDE DEF E, F
<1>3. t = [k \in 1..Len(s) |-> IF k \in missing THEN Garbled ELSE s[k]]
  BY <1>1 DEF Received
<1> HIDE DEF t
<1>4. \A k \in 1..Len(s) : /\ k \in missing => t[k] = Garbled
                           /\ k \notin missing => t[k] = s[k]
  BY <1>3
<1>5. \A k \in 1..Len(s) : t[k] \in F
  BY <1>1, <1>2, <1>4
<1>6. t \in [1..Len(s) -> F]
  BY <1>3, <1>5
<1>7. t \in Seq(F) /\ Len(t) = Len(s)
  BY <1>1, <1>6, IsASeq, LenProperties
<1> QED BY <1>4, <1>7 DEF t, F

\* The last event is received or not, whatever came before.
LEMMA ReceivedEnd ==
  ASSUME NEW P, NEW I, NEW s \in Seq(Readable(P, I)), NEW end, NEW missing
  PROVE  /\ Len(s) + 1 \in missing =>
              Received(s \o <<end>>, missing) = Append(Received(s, missing), Garbled)
         /\ Len(s) + 1 \notin missing =>
              Received(s \o <<end>>, missing) = Append(Received(s, missing), end)
<1> DEFINE n == Len(s)
           F == Parts(P, I) \cup {end}
           t == Received(s, missing)
           u == Received(s \o <<end>>, missing)
           last == IF n + 1 \in missing THEN Garbled ELSE end
<1>1. /\ t \in Seq(Parts(P, I)) /\ Len(t) = n
      /\ \A k \in 1..n : /\ k \in missing => t[k] = Garbled
                         /\ k \notin missing => t[k] = s[k]
  BY ReceivedIs
<1>2. last \in F /\ Parts(P, I) \subseteq F
  BY DEF Parts
<1>3. t \in Seq(F)
  <2> HIDE DEF F, t
  <2> QED BY <1>1, <1>2, SeqMonotonic
<1>4. /\ Append(t, last) \in Seq(F) /\ Len(Append(t, last)) = n + 1
      /\ \A k \in 1..n : Append(t, last)[k] = t[k]
      /\ Append(t, last)[n + 1] = last
  <2> HIDE DEF F, t, last, n
  <2>1. /\ Append(t, last) \in Seq(F) /\ Len(Append(t, last)) = Len(t) + 1
        /\ \A k \in 1..Len(t) : Append(t, last)[k] = t[k]
        /\ Append(t, last)[Len(t) + 1] = last
    BY <1>2, <1>3, AppendProperties
  <2> QED BY <1>1, <2>1
<1>5. n \in Nat
  BY LenProperties
<1>6. /\ DOMAIN (s \o <<end>>) = 1..(n + 1)
      /\ \A k \in 1..n : (s \o <<end>>)[k] = s[k]
      /\ (s \o <<end>>)[n + 1] = end
  <2> DEFINE G == Readable(P, I) \cup {end}
             a == Append(s, end)
  <2>1. s \in Seq(G) /\ end \in G
    BY SeqMonotonic
  <2> HIDE DEF G
  <2>2. s \o <<end>> = a
    BY <2>1, AppendIsConcat
  <2>3. /\ a \in Seq(G) /\ Len(a) = n + 1
        /\ \A k \in 1..n : a[k] = s[k]
        /\ a[n + 1] = end
    BY <2>1, AppendProperties
  <2> HIDE DEF a, n
  <2>4. DOMAIN a = 1..(n + 1)
    BY <2>3, LenProperties
  <2> QED BY <2>2, <2>3, <2>4
<1>7. u = [k \in 1..(n + 1) |-> IF k \in missing THEN Garbled ELSE (s \o <<end>>)[k]]
  BY <1>6 DEF Received
<1> HIDE DEF t, u, n
<1>8. \A k \in 1..(n + 1) : u[k] = IF k \in missing THEN Garbled ELSE (s \o <<end>>)[k]
  BY <1>7
<1>9. \A k \in 1..(n + 1) : k \in 1..n \/ k = n + 1
  BY <1>5
<1>10. \A k \in 1..(n + 1) : u[k] = Append(t, last)[k]
  <2> TAKE k \in 1..(n + 1)
  <2>1. CASE k \in 1..n
    <3>1. Append(t, last)[k] = t[k] /\ (s \o <<end>>)[k] = s[k]
      BY <1>4, <1>6, <2>1
    <3> QED BY <1>1, <1>8, <2>1, <3>1
  <2>2. CASE k = n + 1
    <3>1. Append(t, last)[k] = last /\ (s \o <<end>>)[k] = end
      BY <1>4, <1>6, <2>2
    <3> QED BY <1>8, <2>2, <3>1
  <2> QED BY <1>9, <2>1, <2>2
<1>11. \A k \in 1..(n + 1) : Append(t, last)[k] \in F
  BY <1>4, LenProperties
<1> HIDE DEF last, F
<1>12. u = Append(t, last)
  <2> DEFINE v == Append(t, last)
  <2>1. v \in Seq(F) /\ Len(v) = n + 1 /\ \A k \in 1..(n + 1) : u[k] = v[k] /\ v[k] \in F
    BY <1>4, <1>10, <1>11
  <2> HIDE DEF v
  <2>2. u \in [1..(n + 1) -> F]
    <3>1. DOMAIN u = 1..(n + 1)
      BY <1>7
    <3> QED BY <1>7, <2>1, <3>1
  <2>3. n + 1 \in Nat
    BY <1>5
  <2>4. u \in Seq(F) /\ Len(u) = n + 1
    BY <2>2, <2>3, IsASeq, LenProperties
  <2>5. u = v
    BY <2>1, <2>4, SeqEqual
  <2> QED BY <2>5 DEF v
<1> QED BY <1>12 DEF last, t, u, n

\* Of the events of a kind, all are received, or none.
Shown(kind, s, missing) == \A k \in 1..Len(s) : s[k].event = kind => k \notin missing
Hidden(kind, s, missing) == \A k \in 1..Len(s) : s[k].event = kind => k \in missing

\* Each of the sequences of ts is that of cs, or dropped.
LeftOf(ts, cs, S) ==
  /\ ts \in Seq(Seq(S)) /\ cs \in Seq(Seq(S)) /\ Len(ts) = Len(cs)
  /\ \A k \in 1..Len(cs) : ts[k] = <<>> \/ ts[k] = cs[k]

\* What is missing contributes nothing, what is received all that it carries.
LEMMA ReceivedParts ==
  ASSUME NEW P, NEW I, NEW s \in Seq(Readable(P, I)), NEW missing, NEW kind, NEW S,
         kind \in {"delta", "item"}, Carry(Readable(P, I), kind, S)
  PROVE  /\ LeftOf(Contents(kind, Received(s, missing)), Contents(kind, s), S)
         /\ Shown(kind, s, missing) => Picked(kind, Received(s, missing)) = Picked(kind, s)
         /\ Hidden(kind, s, missing) => Picked(kind, Received(s, missing)) = <<>>
<1> DEFINE n == Len(s)
           E == Readable(P, I)
           F == Parts(P, I)
           t == Received(s, missing)
           ts == Contents(kind, t)
           cs == Contents(kind, s)
<1>1. /\ t \in Seq(F) /\ Len(t) = n
      /\ \A k \in 1..n : /\ k \in missing => t[k] = Garbled
                         /\ k \notin missing => t[k] = s[k]
  BY ReceivedIs
<1>2. Carry(F, kind, S) /\ Part(kind, Garbled) = <<>>
  BY DEF Carry, Parts, Garbled, Part
<1> HIDE DEF t, E, F
<1>3. ts \in Seq(Seq(S)) /\ Len(ts) = n /\ \A k \in 1..n : ts[k] = Part(kind, t[k])
  <2>1. t \in Seq(F)
    BY <1>1
  <2>2. Len(ts) = Len(t) /\ \A k \in 1..Len(t) : ts[k] = Part(kind, t[k])
    BY <2>1, ContentsAt
  <2>3. ts \in Seq(Seq(S))
    BY <1>2, <2>1, ContentsIn
  <2> QED BY <1>1, <2>2, <2>3
<1>4. cs \in Seq(Seq(S)) /\ Len(cs) = n /\ \A k \in 1..n : cs[k] = Part(kind, s[k])
  <2>1. s \in Seq(E) /\ Carry(E, kind, S)
    BY DEF E
  <2>2. Len(cs) = n /\ \A k \in 1..n : cs[k] = Part(kind, s[k])
    BY <2>1, ContentsAt
  <2>3. cs \in Seq(Seq(S))
    BY <2>1, ContentsIn
  <2> QED BY <2>2, <2>3
<1> HIDE DEF ts, cs, n
<1>5. \A k \in 1..n : /\ k \in missing => ts[k] = <<>>
                      /\ k \notin missing => ts[k] = cs[k]
  BY <1>1, <1>2, <1>3, <1>4
<1>6. \A k \in 1..n : s[k].event # kind => cs[k] = <<>>
  BY <1>4 DEF Part
<1>7. ASSUME \A k \in 1..n : s[k].event = kind => k \notin missing PROVE ts = cs
  <2>1. \A k \in 1..n : ts[k] = cs[k]
    BY <1>5, <1>6, <1>7
  <2> QED BY <1>3, <1>4, <2>1, SeqEqual
<1>8. ASSUME \A k \in 1..n : s[k].event = kind => k \in missing PROVE FlattenSeq(ts) = <<>>
  <2>1. \A k \in 1..Len(ts) : ts[k] = <<>>
    BY <1>3, <1>5, <1>6, <1>8
  <2> QED BY <1>3, <2>1, FlattenNone
<1>9. LeftOf(ts, cs, S)
  BY <1>3, <1>4, <1>5 DEF LeftOf
<1> QED BY <1>7, <1>8, <1>9 DEF ts, cs, t, n, Picked, Shown, Hidden

\* What _opencode_openai_completion has when the stream of a reply is over.
LEMMA ReadReceived ==
  ASSUME NEW P, NEW I, NEW s \in Seq(Readable(P, I)), NEW o, NEW missing
  PROVE  LET acc == Read(Received(s \o <<Completed(o)>>, missing))
         IN /\ acc.text = Picked("delta", Received(s, missing))
            /\ acc.items = Picked("item", Received(s, missing))
            /\ acc.completed <=> Len(s) + 1 \notin missing
            /\ acc.completed => acc.output = o
<1> DEFINE t == Received(s, missing)
           F == Parts(P, I)
           end == Completed(o)
           u == Received(s \o <<end>>, missing)
           G == F \cup {end}
<1>1. t \in Seq(F)
  BY ReceivedIs
<1>2. /\ Read(t) \in Accs(P, I)
      /\ Read(t).text = Picked("delta", t) /\ Read(t).items = Picked("item", t)
      /\ Read(t).output = <<>> /\ ~Read(t).completed
  <2> HIDE DEF t
  <2> QED BY <1>1, ReadParts
<1>3. Garbled \in F
  BY DEF Parts
<1> HIDE DEF t, F, end
<1>4. CASE Len(s) + 1 \in missing
  <2>1. u = Append(t, Garbled)
    BY <1>4, ReceivedEnd DEF t
  <2>2. Read(Append(t, Garbled)) = ReadEvent(Read(t), Garbled)
    BY <1>1, <1>3, ReadAppend
  <2>3. ReadEvent(Read(t), Garbled) = Read(t)
    BY DEF ReadEvent, Garbled
  <2> QED BY <1>2, <1>4, <2>1, <2>2, <2>3 DEF t, end
<1>5. CASE Len(s) + 1 \notin missing
  <2>1. u = Append(t, end)
    BY <1>5, ReceivedEnd DEF t
  <2>2. t \in Seq(G) /\ end \in G
    BY <1>1, SeqMonotonic
  <2> HIDE DEF G
  <2>3. Read(Append(t, end)) = ReadEvent(Read(t), end)
    BY <2>2, ReadAppend
  <2>4. ReadEvent(Read(t), end) = [Read(t) EXCEPT !.output = o, !.completed = TRUE]
    BY DEF ReadEvent, end, Completed
  <2>5. LET acc == [Read(t) EXCEPT !.output = o, !.completed = TRUE]
        IN /\ acc.text = Read(t).text /\ acc.items = Read(t).items
           /\ acc.output = o /\ acc.completed = TRUE
    BY <1>2 DEF Accs
  <2> QED BY <1>2, <1>5, <2>1, <2>3, <2>4, <2>5 DEF t, end
<1> QED BY <1>4, <1>5


\* What is read of a reply is what was said of it, or a part of that.
LEMMA ToldReceived ==
  ASSUME NEW P, NEW I, Items(P, I), NEW said \in Seq(I), NEW missing
  PROVE  LET t == Received(Told(said), missing)
             text == Picked("delta", t)
             items == Picked("item", t)
         IN /\ text \in Seq(P) /\ items \in Seq(I)
            /\ Shown("item", Told(said), missing) => items = said
            /\ Hidden("item", Told(said), missing) => items = <<>>
            /\ Shown("delta", Told(said), missing) => text = Joined(TextOf(I), said)
            /\ Within(text, Joined(TextOf(I), said))
            /\ Within(Joined(TextOf(I), items), Joined(TextOf(I), said))
            /\ Within(Joined(IdsOf(I), items), Joined(IdsOf(I), said))
<1> DEFINE s == Told(said)
           t == Received(s, missing)
           E == Readable(P, I)
<1>1. /\ s \in Seq(E) /\ Picked("delta", s) = Joined(TextOf(I), said)
      /\ Picked("item", s) = said
  BY ToldIs
<1>2. Carry(E, "delta", P) /\ Carry(E, "item", I)
  BY DEF Carry, Readable
<1> HIDE DEF s, t
<1>3. /\ LeftOf(Contents("delta", t), Contents("delta", s), P)
      /\ Shown("delta", s, missing) => Picked("delta", t) = Picked("delta", s)
      /\ Hidden("delta", s, missing) => Picked("delta", t) = <<>>
  <2> DEFINE kind == "delta"
  <2>1. kind \in {"delta", "item"} /\ s \in Seq(Readable(P, I)) /\ Carry(Readable(P, I), kind, P)
    BY <1>1, <1>2
  <2> HIDE DEF kind
  <2>2. /\ LeftOf(Contents(kind, t), Contents(kind, s), P)
        /\ Shown(kind, s, missing) => Picked(kind, t) = Picked(kind, s)
        /\ Hidden(kind, s, missing) => Picked(kind, t) = <<>>
    BY <2>1, ReceivedParts DEF t
  <2> QED BY <2>2 DEF kind
<1>4. /\ LeftOf(Contents("item", t), Contents("item", s), I)
      /\ Shown("item", s, missing) => Picked("item", t) = Picked("item", s)
      /\ Hidden("item", s, missing) => Picked("item", t) = <<>>
  <2> DEFINE kind == "item"
  <2>1. kind \in {"delta", "item"} /\ s \in Seq(Readable(P, I)) /\ Carry(Readable(P, I), kind, I)
    BY <1>1, <1>2
  <2> HIDE DEF kind
  <2>2. /\ LeftOf(Contents(kind, t), Contents(kind, s), I)
        /\ Shown(kind, s, missing) => Picked(kind, t) = Picked(kind, s)
        /\ Hidden(kind, s, missing) => Picked(kind, t) = <<>>
    BY <2>1, ReceivedParts DEF t
  <2> QED BY <2>2 DEF kind
<1>5. Picked("delta", t) \in Seq(P) /\ Picked("item", t) \in Seq(I)
  BY <1>3, <1>4, FlattenType DEF Picked, LeftOf
<1>6. Within(Picked("delta", t), Picked("delta", s))
  BY <1>3, WithinFlatten DEF Picked, LeftOf
<1>7. ASSUME NEW S, NEW g, Maps(g, I, S)
      PROVE  Within(Joined(g, Picked("item", t)), Joined(g, Picked("item", s)))
  BY <1>4, <1>7, WithinJoined DEF Picked, LeftOf
<1>8. Maps(IdsOf(I), I, Ids(I)) /\ Maps(TextOf(I), I, P)
  BY ItemsAre
<1>9. /\ Within(Joined(TextOf(I), Picked("item", t)), Joined(TextOf(I), said))
      /\ Within(Joined(IdsOf(I), Picked("item", t)), Joined(IdsOf(I), said))
  BY <1>1, <1>7, <1>8
<1> QED BY <1>1, <1>3, <1>4, <1>5, <1>6, <1>9 DEF s, t

\* Of nothing, nothing is left.
LEMMA WithinNothing ==
  ASSUME NEW S, NEW s \in Seq(S), Within(s, <<>>)
  PROVE  s = <<>>
<1>1. PICK f \in [DOMAIN s -> DOMAIN <<>>] : TRUE
  BY DEF Within
<1>2. DOMAIN <<>> = {}
  OBVIOUS
<1>3. DOMAIN s = {}
  BY <1>1, <1>2
<1>4. Len(s) \in Nat /\ DOMAIN s = 1..Len(s)
  BY LenProperties
<1>5. Len(s) = 0
  BY <1>3, <1>4
<1> QED BY <1>5, EmptySeq

\* A reply of messages makes no call.
LEMMA MessagesCallNothing ==
  ASSUME NEW P, NEW I, Items(P, I), NEW said \in Seq(I),
         \A k \in DOMAIN said : IsMessage(said[k])
  PROVE  Joined(IdsOf(I), said) = <<>>
<1>1. /\ Image(IdsOf(I), said) \in Seq(Seq(Ids(I))) /\ Len(Image(IdsOf(I), said)) = Len(said)
      /\ \A k \in 1..Len(said) : Image(IdsOf(I), said)[k] = IdsOf(I)[said[k]]
  BY ItemsAre, ImageAt
<1>2. ASSUME NEW k \in 1..Len(said) PROVE Image(IdsOf(I), said)[k] = <<>>
  <2>1. said[k] \in I /\ IsMessage(said[k])
    BY LenProperties
  <2>2. CallIds(said[k]) = <<>>
    BY <2>1, ItemsAre
  <2> QED BY <1>1, <2>1, <2>2 DEF IdsOf
<1>3. FlattenSeq(Image(IdsOf(I), said)) = <<>>
  BY <1>1, <1>2, FlattenNone
<1> QED BY <1>3 DEF Joined

\* What chat() makes of what is read, whatever is missing.
LEMMA ReplyComesBack ==
  ASSUME NEW P, NEW I, Items(P, I), NEW said \in Seq(I), NEW o \in {said, <<>>}, NEW missing,
         NEW acc, acc = Read(Received(Told(said) \o <<Completed(o)>>, missing)), acc.completed
  PROVE  LET got == Parsed(Output(acc))
             all == Parsed(said)
             s == Told(said)
         IN /\ (Shown("item", s, missing) \/ (Hidden("item", s, missing) /\ o = said)) => got = all
            /\ /\ Hidden("item", s, missing) /\ Shown("delta", s, missing)
               /\ \A k \in DOMAIN said : IsMessage(said[k])
               => got.calls = all.calls /\ Text(got.content) = Text(all.content)
            /\ Within(got.calls, all.calls)
            /\ Within(Text(got.content), Text(all.content))
<1> DEFINE s == Told(said)
           text == Picked("delta", Received(s, missing))
           items == Picked("item", Received(s, missing))
           calls == Joined(IdsOf(I), said)
           words == Joined(TextOf(I), said)
           got == Parsed(Output(acc))
<1>1. s \in Seq(Readable(P, I))
  BY ToldIs
<1>2. acc.text = text /\ acc.items = items /\ acc.output = o
  BY <1>1, ReadReceived DEF s
<1> HIDE DEF s
<1>3. /\ text \in Seq(P) /\ items \in Seq(I)
      /\ Shown("item", s, missing) => items = said
      /\ Hidden("item", s, missing) => items = <<>>
      /\ Shown("delta", s, missing) => text = words
      /\ Within(text, words)
      /\ Within(Joined(TextOf(I), items), words)
      /\ Within(Joined(IdsOf(I), items), calls)
  BY ToldReceived DEF s
<1>4. Parsed(said).calls = calls /\ Text(Parsed(said).content) = words
  BY ParsedIs
<1>5. calls \in Seq(Ids(I)) /\ words \in Seq(P)
  BY ItemsAre, JoinedType
<1>6. said = <<>> => words = <<>> /\ calls = <<>>
  BY ItemsAre, JoinedNothing
<1>7. (\A k \in DOMAIN said : IsMessage(said[k])) => calls = <<>>
  BY MessagesCallNothing
<1> HIDE DEF text, items, calls, words
<1>8. CASE items # <<>>
  <2>1. Output(acc) = items
    BY <1>2, <1>8 DEF Output
  <2>2. /\ Parsed(items).calls = Joined(IdsOf(I), items)
        /\ Text(Parsed(items).content) = Joined(TextOf(I), items)
    BY <1>3, ParsedIs
  <2> QED BY <1>3, <1>4, <1>8, <2>1, <2>2 DEF s
<1>9. CASE items = <<>> /\ o = said /\ (said # <<>> \/ text = <<>>)
  <2>1. Output(acc) = said
    BY <1>2, <1>9 DEF Output
  <2>2. Within(calls, calls) /\ Within(words, words)
    BY <1>5, WithinItself
  <2> QED BY <1>4, <2>1, <2>2
<1>10. CASE items = <<>> /\ o = <<>> /\ text = <<>>
  <2>1. Output(acc) = <<>>
    BY <1>2, <1>10 DEF Output
  <2>2. got.calls = <<>> /\ Text(got.content) = <<>>
    BY <2>1, ParsedNothing
  <2>3. Within(<<>>, calls) /\ Within(<<>>, words)
    BY <1>5, NothingWithin
  <2>4. Shown("item", s, missing) \/ o = said => said = <<>>
    BY <1>3, <1>10
  <2>5. said = <<>> => got = Parsed(said)
    BY <2>1
  <2> QED BY <1>3, <1>4, <1>7, <1>10, <2>2, <2>3, <2>4, <2>5 DEF s
<1>11. CASE items = <<>> /\ o = <<>> /\ text # <<>>
  <2>1. Output(acc) = <<Message(<<text>>)>>
    BY <1>2, <1>11 DEF Output
  <2>2. got.calls = <<>> /\ Text(got.content) = text
    BY <1>3, <2>1, ParsedText
  <2>3. Within(<<>>, calls)
    BY <1>5, NothingWithin
  <2>4. said # <<>>
    BY <1>3, <1>6, <1>11, WithinNothing
  <2>5. ~Shown("item", s, missing) /\ o # said
    BY <1>3, <1>11, <2>4
  <2> QED BY <1>3, <1>4, <1>7, <2>2, <2>3, <2>5 DEF s
<1> QED BY <1>8, <1>9, <1>10, <1>11

(***************************************************************************)
(* The login                                                               *)
(***************************************************************************)

\* The expiry in the file is late by the way of the answer that brought it.
FileHonest == file.access # 0 => file.expires <= validTo[file.access] + delay[file.access]

\* The expiry that the file gave token t was far enough from time at, or t
\* had just come.
Lasting(t, at) ==
  \/ at + Margin < validTo[t] + delay[t]
  \/ at + Lifetime <= validTo[t] + delay[t]

\* A granted token was made when the wait for it began; the expiry of a token
\* that is under way to the API was checked, or just computed.
TokenLasts(s) ==
  /\ sess[s].phase = "granted" =>
       validTo[sess[s].token] = sess[s].since + Lifetime /\ delay[sess[s].token] = 0
  /\ sess[s].phase = "request" => Lasting(sess[s].token, sess[s].since)

Timely ==
  /\ FileHonest
  /\ \A s \in Sessions : TokenLasts(s)
  /\ RefusedOnlyIfLate

\* A granted refresh token is known to its session alone, and unused.
Secret ==
  \A s \in Sessions : sess[s].phase = "granted" =>
    /\ sess[s].token \in live
    /\ \A u \in Sessions :
         /\ Refreshing(u) => sess[u].data.refresh # sess[s].token
         /\ sess[u].phase = "granted" /\ u # s => sess[u].token # sess[s].token
    /\ file.refresh # sess[s].token

\* Unless an edit crossed a refresh, whoever refreshes has read the newest
\* records of the others.
Unraced ==
  ~raced => /\ file.other = others
            /\ \A s \in Sessions : Refreshing(s) => sess[s].data.other = others

Cells == [phase : Phases, data : Files, token : Issued \cup {0}, since : 0..now]

USE AuthAssumption

(***************************************************************************)
(* The pieces of a step                                                    *)
(***************************************************************************)

\* A new token is the next number, and changes no other.
LEMMA NewToken ==
  ASSUME AuthTypeOK, validTo' = Append(validTo, now + Lifetime)
  PROVE  /\ validTo' \in Seq(Nat)
         /\ Len(validTo) \in Nat
         /\ Len(validTo') = Len(validTo) + 1
         /\ validTo'[Len(validTo')] = now + Lifetime
         /\ Issued' = Issued \cup {Len(validTo')}
         /\ Len(validTo') \notin Issued /\ Len(validTo') # 0
         /\ \A k \in Issued : validTo'[k] = validTo[k]
<1>1. now + Lifetime \in Nat /\ validTo \in Seq(Nat)
  BY DEF AuthTypeOK
<1>2. Len(validTo) \in Nat
  BY <1>1, LenProperties
<1>3. /\ validTo' \in Seq(Nat)
      /\ Len(validTo') = Len(validTo) + 1
      /\ \A i \in 1..Len(validTo) : validTo'[i] = validTo[i]
      /\ validTo'[Len(validTo) + 1] = now + Lifetime
  BY <1>1, AppendProperties
<1> QED BY <1>2, <1>3 DEF Issued

\* A new token has not been on its way yet.
LEMMA NewDelay ==
  ASSUME AuthTypeOK, validTo' = Append(validTo, now + Lifetime), delay' = Append(delay, 0)
  PROVE  /\ delay' \in Seq(Nat)
         /\ Len(delay') = Len(validTo')
         /\ delay'[Len(validTo')] = 0
         /\ \A k \in Issued : delay'[k] = delay[k]
<1>1. delay \in Seq(Nat) /\ Len(delay) = Len(validTo) /\ 0 \in Nat
  BY DEF AuthTypeOK
<1>2. /\ delay' \in Seq(Nat)
      /\ Len(delay') = Len(delay) + 1
      /\ \A i \in 1..Len(delay) : delay'[i] = delay[i]
      /\ delay'[Len(delay) + 1] = 0
  BY <1>1, AppendProperties
<1>3. Len(validTo') = Len(validTo) + 1
  BY NewToken
<1> QED BY <1>1, <1>2, <1>3 DEF Issued

\* The answer with a token comes in.
LEMMA SetDelay ==
  ASSUME AuthTypeOK, NEW t \in Issued, NEW d \in Nat, delay' = [delay EXCEPT ![t] = d]
  PROVE  /\ delay' \in Seq(Nat) /\ Len(delay') = Len(validTo)
         /\ delay'[t] = d
         /\ \A k \in Issued : k # t => delay'[k] = delay[k]
<1>1. delay \in Seq(Nat) /\ Len(delay) = Len(validTo) /\ t \in 1..Len(delay)
  BY DEF AuthTypeOK, Issued
<1>2. /\ delay' \in Seq(Nat) /\ Len(delay') = Len(delay)
      /\ \A j \in 1..Len(delay) : delay'[j] = IF j = t THEN d ELSE delay[j]
  BY <1>1, ExceptSeq
<1> QED BY <1>1, <1>2 DEF Issued

\* Every token has a time, and a delay.
LEMMA TokenTime ==
  ASSUME AuthTypeOK, NEW k \in Issued
  PROVE  validTo[k] \in Nat /\ delay[k] \in Nat
<1>1. /\ validTo \in Seq(Nat) /\ k \in 1..Len(validTo)
      /\ delay \in Seq(Nat) /\ k \in 1..Len(delay)
  BY DEF AuthTypeOK, Issued
<1> QED BY <1>1, ElementOfSeq

\* What a session that takes a step looks like afterwards.
LEMMA Others ==
  ASSUME AuthTypeOK, NEW s \in Sessions, NEW cell, sess' = [sess EXCEPT ![s] = cell]
  PROVE  /\ sess'[s] = cell
         /\ \A u \in Sessions \ {s} : sess'[u] = sess[u]
BY DEF AuthTypeOK

\* Types only grow: what was a file or a session's cell stays one.
LEMMA Grown ==
  ASSUME AuthTypeOK, validTo' \in Seq(Nat), Issued \subseteq Issued',
         now' \in Nat, now <= now', others' \in Nat, others <= others'
  PROVE  Files \subseteq Files' /\ Cells \subseteq Cells'
<1>1. 0..others \subseteq 0..others' /\ 0..now \subseteq 0..now'
  BY DEF AuthTypeOK
<1>2. Files \subseteq Files'
  BY <1>1 DEF Files
<1> QED BY <1>1, <1>2 DEF Cells

(***************************************************************************)
(* Types                                                                   *)
(***************************************************************************)

\* A login that is being renewed has a token for that, a request its own.
Complete(c) ==
  /\ c.phase \in {"refresh", "granted"} => c.data.refresh # 0
  /\ c.phase \in {"granted", "request"} => c.token # 0

Basics ==
  /\ now \in Nat /\ others \in Nat
  /\ validTo \in Seq(Nat)
  /\ live \subseteq Issued
  /\ file \in Files /\ (file.access # 0 => file.refresh # 0)
  /\ delay \in Seq(Nat) /\ Len(delay) = Len(validTo) /\ refused \subseteq Nat
  /\ lost \in BOOLEAN /\ raced \in BOOLEAN

LEMMA TypesAre ==
  AuthTypeOK <=> /\ Basics
                 /\ sess \in [Sessions -> Cells]
                 /\ \A s \in Sessions : Complete(sess[s])
BY DEF AuthTypeOK, Basics, Cells, Complete, Refreshing

LEMMA TypesAfter ==
  (AuthTypeOK <=> /\ Basics
                  /\ sess \in [Sessions -> Cells]
                  /\ \A s \in Sessions : Complete(sess[s]))'
BY TypesAre, PTL

\* A step that changes no session, or that of s.
LEMMA SameTypes ==
  ASSUME AuthTypeOK, Basics', Issued \subseteq Issued', now <= now', others <= others',
         sess' = sess
  PROVE  AuthTypeOK'
<1>1. Cells \subseteq Cells'
  BY Grown DEF Basics
<1>2. sess \in [Sessions -> Cells] /\ \A s \in Sessions : Complete(sess[s])
  BY TypesAre
<1>3. sess' \in [Sessions -> Cells'] /\ \A s \in Sessions : Complete(sess'[s])
  BY <1>1, <1>2
<1> QED BY <1>3, TypesAfter

LEMMA CellTypes ==
  ASSUME AuthTypeOK, Basics', Issued \subseteq Issued', now' = now, others' = others,
         NEW s \in Sessions, NEW cell \in Cells', Complete(cell),
         sess' = [sess EXCEPT ![s] = cell]
  PROVE  AuthTypeOK'
<1>1. Cells \subseteq Cells'
  BY Grown DEF Basics
<1>2. sess \in [Sessions -> Cells] /\ \A u \in Sessions : Complete(sess[u])
  BY TypesAre
<1>3. sess' \in [Sessions -> Cells'] /\ \A u \in Sessions : Complete(sess'[u])
  BY <1>1, <1>2
<1> QED BY <1>3, TypesAfter

LEMMA InitTypes == AuthInit => AuthTypeOK
<1> SUFFICES ASSUME AuthInit PROVE AuthTypeOK
  OBVIOUS
<1>1. Basics
  <2>1. PICK e \in {0, Lifetime} :
           \/ file = NoFile /\ validTo = <<>> /\ live = {} /\ delay = <<>>
           \/ /\ file = [access |-> 1, refresh |-> 1, expires |-> e, other |-> 0]
              /\ validTo = <<e>> /\ live = {1} /\ delay = <<0>>
    BY DEF AuthInit
  <2>2. /\ now = 0 /\ others = 0 /\ e \in Nat
        /\ refused = {} /\ lost = FALSE /\ raced = FALSE
    BY DEF AuthInit
  <2>3. CASE file = NoFile /\ validTo = <<>> /\ live = {} /\ delay = <<>>
    <3>1. /\ validTo \in Seq(Nat) /\ live \subseteq Issued
          /\ delay \in Seq(Nat) /\ Len(delay) = Len(validTo)
      BY <2>3, EmptySeq
    <3>2. file \in Files /\ file.access = 0
      BY <2>2, <2>3 DEF NoFile, Files
    <3> QED BY <2>2, <3>1, <3>2 DEF Basics
  <2>4. CASE /\ file = [access |-> 1, refresh |-> 1, expires |-> e, other |-> 0]
             /\ validTo = <<e>> /\ live = {1} /\ delay = <<0>>
    <3>1. /\ validTo \in Seq(Nat) /\ Issued = 1..1
          /\ delay \in Seq(Nat) /\ Len(delay) = Len(validTo)
      BY <2>2, <2>4 DEF Issued
    <3>2. file \in Files /\ file.refresh = 1
      BY <2>2, <2>4, <3>1 DEF Files
    <3>3. live \subseteq Issued /\ (file.access # 0 => file.refresh # 0)
      BY <2>4, <3>1, <3>2
    <3> QED BY <2>2, <3>1, <3>2, <3>3 DEF Basics
  <2> QED BY <2>1, <2>3, <2>4
<1>2. Idle \in Cells /\ Complete(Idle)
  BY DEF AuthInit, Idle, NoFile, Cells, Files, Phases, Complete
<1> QED BY <1>1, <1>2, TypesAre DEF AuthInit

LEMMA TypeStep == AuthTypeOK /\ [AuthNext]_authVars => AuthTypeOK'
<1> SUFFICES ASSUME AuthTypeOK, [AuthNext]_authVars PROVE AuthTypeOK'
  OBVIOUS
<1>0. Basics /\ sess \in [Sessions -> Cells] /\ \A s \in Sessions : Complete(sess[s])
  BY TypesAre
<1>1. ASSUME UNCHANGED <<now, file, validTo, delay, live, others, raced>>,
             refused' \subseteq Nat, lost' \in BOOLEAN
      PROVE  /\ Basics' /\ Cells' = Cells /\ Issued' = Issued
             /\ Issued \subseteq Issued'
  BY <1>0, <1>1 DEF Basics, Cells, Files, Issued
<1>2. ASSUME NEW s \in Sessions, Leave(s),
             UNCHANGED <<now, file, validTo, delay, live, others, raced>>,
             refused' \subseteq Nat, lost' \in BOOLEAN
      PROVE  AuthTypeOK'
  <2>1. Idle \in Cells /\ Complete(Idle)
    BY <1>0 DEF Basics, Idle, NoFile, Cells, Files, Phases, Complete
  <2> QED BY <1>1, <1>2, <2>1, CellTypes DEF Leave
<1>3. ASSUME NEW s \in Sessions, Load(s) PROVE AuthTypeOK'
  <2>1. /\ UNCHANGED <<now, file, validTo, delay, live, others, raced>>
        /\ refused' \subseteq Nat /\ lost' \in BOOLEAN
    BY <1>0, <1>3 DEF Load, Basics, history
  <2>2. /\ file \in Files /\ file.access \in Issued \cup {0}
        /\ file.access # 0 /\ file.refresh # 0
    BY <1>0, <1>3 DEF Load, Basics, Files
  <2>3. CASE Goto(s, "request", NoFile, file.access)
    <3> DEFINE cell == [phase |-> "request", data |-> NoFile,
                        token |-> file.access, since |-> now]
    <3>1. cell \in Cells /\ Complete(cell)
      BY <2>2, <1>0 DEF Cells, Phases, Files, NoFile, Basics, Complete
    <3> QED BY <1>1, <2>1, <2>3, <3>1, CellTypes DEF Goto
  <2>4. CASE Reread(s)
    <3> DEFINE cell == [Idle EXCEPT !.phase = "refresh", !.data = file]
    <3>0. Idle \in Cells
      BY <1>0 DEF Basics, Idle, NoFile, Cells, Files, Phases
    <3>1. cell \in Cells /\ Complete(cell)
      BY <2>2, <3>0 DEF Cells, Phases, Complete
    <3> QED BY <1>1, <2>1, <2>4, <3>1, CellTypes DEF Reread
  <2> QED BY <1>3, <2>3, <2>4 DEF Load
<1>4. ASSUME NEW s \in Sessions, Grant(s) PROVE AuthTypeOK'
  <2>1. /\ validTo' = Append(validTo, now + Lifetime)
        /\ live' = (live \ {sess[s].data.refresh}) \cup {Len(validTo')}
        /\ delay' = Append(delay, 0)
        /\ UNCHANGED <<now, file, others, refused, lost, raced>>
        /\ Refreshing(s)
    BY <1>4 DEF Grant, history, Refreshing
  <2>2. /\ validTo' \in Seq(Nat)
        /\ Issued' = Issued \cup {Len(validTo')} /\ Len(validTo') # 0
        /\ delay' \in Seq(Nat) /\ Len(delay') = Len(validTo')
    BY <2>1, NewToken, NewDelay
  <2>3. Files \subseteq Files' /\ Cells \subseteq Cells'
    BY <1>0, <2>1, <2>2, Grown DEF Basics
  <2>4. Basics'
    BY <1>0, <2>1, <2>2, <2>3 DEF Basics
  <2> DEFINE cell == [phase |-> "granted", data |-> sess[s].data,
                      token |-> Len(validTo'), since |-> now]
  <2>5. cell \in Cells' /\ Complete(cell)
    <3>1. sess[s].data \in Files' /\ sess[s].data.refresh # 0
      BY <1>0, <2>1, <2>3 DEF Cells, Complete, Refreshing
    <3> QED BY <1>0, <3>1, <2>1, <2>2 DEF Cells, Phases, Basics, Complete
  <2> QED BY <2>1, <2>2, <2>4, <2>5, <1>4, CellTypes DEF Grant, Goto
<1>5. ASSUME NEW s \in Sessions, Persist(s) PROVE AuthTypeOK'
  <2>1. /\ file' = Updated(s)
        /\ delay' = [delay EXCEPT ![sess[s].token] = now - sess[s].since]
        /\ UNCHANGED <<now, validTo, live, others, refused, lost, raced>>
        /\ sess[s].phase = "granted"
    BY <1>5 DEF Persist, history
  <2>2. /\ sess[s].token \in Issued /\ sess[s].token # 0
        /\ sess[s].data \in Files
        /\ now - sess[s].since \in Nat
    BY <1>0, <2>1 DEF Cells, Complete, Basics
  <2>3. Updated(s) \in Files /\ Updated(s).refresh # 0
    <3>1. now + Lifetime \in Nat
      BY <1>0 DEF Basics
    <3>2. Updated(s) \in Files
      BY <2>2, <3>1 DEF Updated, Files
    <3> QED BY <2>2, <3>2 DEF Updated, Files
  <2>4. Files' = Files /\ Cells' = Cells /\ Issued' = Issued
    BY <2>1 DEF Files, Cells, Issued
  <2>5. Basics'
    <3>1. delay' \in Seq(Nat) /\ Len(delay') = Len(validTo)
      BY <2>1, <2>2, SetDelay
    <3> QED BY <1>0, <2>1, <2>3, <2>4, <3>1 DEF Basics
  <2> DEFINE cell == [phase |-> "request", data |-> NoFile,
                      token |-> sess[s].token, since |-> now]
  <2>6. cell \in Cells /\ Complete(cell)
    BY <2>2, <1>0 DEF Cells, Phases, Files, NoFile, Basics, Complete
  <2> QED BY <2>1, <2>4, <2>5, <2>6, <1>5, CellTypes DEF Persist, Goto
<1>6. ASSUME NEW s \in Sessions, Deny(s) \/ Fail(s) \/ Serve(s) \/ Refuse(s)
      PROVE  AuthTypeOK'
  <2>1. Leave(s) /\ UNCHANGED <<now, file, validTo, delay, live, others, raced>>
    BY <1>6 DEF Deny, Fail, Serve, Refuse, history
  <2>2. refused' \subseteq Nat /\ lost' \in BOOLEAN
    <3>1. LosesTokens(s) \in BOOLEAN
      BY DEF LosesTokens
    <3>2. refused \subseteq Nat /\ lost \in BOOLEAN
      BY <1>0 DEF Basics
    <3>3. CASE Refuse(s)
      <4>1. /\ sess[s].token \in Issued /\ sess[s].since \in 0..now /\ now \in Nat
            /\ lost' = lost
        BY <1>0, <3>3 DEF Refuse, Cells, Complete, Basics
      <4>2. delay[sess[s].token] \in Nat
        BY <4>1, TokenTime
      <4> HIDE DEF Issued
      <4>3. now - sess[s].since + delay[sess[s].token] \in Nat
        BY <4>1, <4>2
      <4> QED BY <3>2, <3>3, <4>1, <4>3 DEF Refuse
    <3> QED BY <1>6, <3>1, <3>2, <3>3 DEF Deny, Fail, Serve, history
  <2> QED BY <1>2, <2>1, <2>2
<1>7. CASE Crash
  <2>1. /\ UNCHANGED <<now, file, validTo, delay, live, refused, others, raced>>
        /\ lost' \in BOOLEAN /\ refused' \subseteq Nat
        /\ sess' = [s \in Sessions |-> Idle]
    BY <1>0, <1>7 DEF Crash, Basics
  <2>2. Idle \in Cells /\ Complete(Idle)
    BY <1>0 DEF Basics, Idle, NoFile, Cells, Files, Phases, Complete
  <2>3. Basics' /\ Cells' = Cells
    BY <1>1, <2>1
  <2> QED BY <2>1, <2>2, <2>3, TypesAfter
<1>8. CASE Connect
  <2>1. /\ validTo' = Append(validTo, now + Lifetime)
        /\ live' = live \cup {Len(validTo')}
        /\ file' = [file EXCEPT !.access = Len(validTo'), !.refresh = Len(validTo'),
                                !.expires = now + Lifetime]
        /\ lost' = FALSE
        /\ delay' = Append(delay, 0)
        /\ UNCHANGED <<now, sess, refused, others, raced>>
    BY <1>8 DEF Connect
  <2>2. /\ validTo' \in Seq(Nat)
        /\ Issued' = Issued \cup {Len(validTo')} /\ Len(validTo') # 0
        /\ delay' \in Seq(Nat) /\ Len(delay') = Len(validTo')
    BY <2>1, NewToken, NewDelay
  <2>3. file' \in Files' /\ file'.refresh # 0
    <3>1. /\ now + Lifetime \in Nat /\ Len(validTo') \in Issued'
          /\ file \in Files /\ others' = others
      BY <1>0, <2>1, <2>2 DEF Basics
    <3>2. file' \in Files'
      BY <3>1, <2>1 DEF Files
    <3> QED BY <3>1, <3>2, <2>1, <2>2 DEF Files
  <2>4. Basics'
    BY <1>0, <2>1, <2>2, <2>3 DEF Basics
  <2> QED BY <1>0, <2>1, <2>2, <2>4, SameTypes DEF Basics
<1>9. CASE EditOther
  <2>1. /\ others' = others + 1
        /\ file' = [file EXCEPT !.other = others']
        /\ raced' \in BOOLEAN
        /\ UNCHANGED <<now, validTo, delay, live, sess, refused, lost>>
    BY <1>9 DEF EditOther
  <2>2. Issued' = Issued
    BY <2>1 DEF Issued
  <2>3. file' \in Files' /\ (file'.access # 0 => file'.refresh # 0)
    <3>1. /\ others' \in 0..others' /\ file \in Files
          /\ file.access # 0 => file.refresh # 0
      BY <1>0, <2>1 DEF Basics
    <3>2. file' \in Files'
      BY <3>1, <2>1, <2>2 DEF Files
    <3> QED BY <3>1, <3>2, <2>1 DEF Files
  <2>4. Basics' /\ others <= others' /\ now <= now'
    BY <1>0, <2>1, <2>2, <2>3 DEF Basics
  <2> QED BY <2>1, <2>2, <2>4, SameTypes
<1>10. CASE Tick
  <2>1. now' = now + 1 /\ UNCHANGED <<file, validTo, live, sess, history>>
    BY <1>10 DEF Tick
  <2>2. Files' = Files /\ Issued' = Issued
    BY <2>1 DEF Files, Issued, history
  <2>3. Basics' /\ others <= others' /\ now <= now'
    BY <1>0, <2>1, <2>2 DEF Basics, history
  <2> QED BY <2>1, <2>2, <2>3, SameTypes
<1>11. CASE UNCHANGED authVars
  <2>1. /\ Basics' /\ Issued' = Issued /\ sess' = sess /\ now <= now'
        /\ others <= others'
    BY <1>0, <1>11 DEF authVars, history, Basics, Files, Issued
  <2> QED BY <2>1, SameTypes
<1> QED BY <1>3, <1>4, <1>5, <1>6, <1>7, <1>8, <1>9, <1>10, <1>11
     DEF AuthNext, World, AuthStep

(***************************************************************************)
(* Time                                                                    *)
(***************************************************************************)

LEMMA InitTimely == AuthInit => Timely
<1> SUFFICES ASSUME AuthInit PROVE Timely
  OBVIOUS
<1>1. FileHonest
  <2>1. PICK e \in {0, Lifetime} :
           \/ file = NoFile
           \/ /\ file = [access |-> 1, refresh |-> 1, expires |-> e, other |-> 0]
              /\ validTo = <<e>> /\ delay = <<0>>
    BY DEF AuthInit
  <2>2. CASE file = NoFile
    BY <2>2 DEF NoFile, FileHonest
  <2>3. CASE /\ file = [access |-> 1, refresh |-> 1, expires |-> e, other |-> 0]
             /\ validTo = <<e>> /\ delay = <<0>>
    <3>1. /\ file.access = 1 /\ file.expires = e /\ validTo[1] = e /\ delay[1] = 0
          /\ e \in Nat
      BY <2>3
    <3> QED BY <3>1 DEF FileHonest
  <2> QED BY <2>1, <2>2, <2>3
<1>2. (\A s \in Sessions : sess[s].phase = "idle") /\ refused = {}
  BY DEF AuthInit, Idle
<1> QED BY <1>1, <1>2 DEF Timely, TokenLasts, RefusedOnlyIfLate

\* A session that does not move, while the times of the tokens stay.
LEMMA Lasts ==
  ASSUME AuthTypeOK, NEW u \in Sessions, TokenLasts(u), sess'[u] = sess[u],
         \A k \in Issued : validTo'[k] = validTo[k] /\ delay'[k] = delay[k]
  PROVE  TokenLasts(u)'
<1>1. sess[u].phase \in {"granted", "request"} =>
        /\ validTo'[sess[u].token] = validTo[sess[u].token]
        /\ delay'[sess[u].token] = delay[sess[u].token]
  BY DEF AuthTypeOK
<1> QED BY <1>1 DEF TokenLasts, Lasting

LEMMA StaysHonest ==
  ASSUME AuthTypeOK, FileHonest, file'.access = file.access, file'.expires = file.expires,
         \A k \in Issued : validTo'[k] = validTo[k] /\ delay'[k] = delay[k]
  PROVE  FileHonest'
<1>1. file.access # 0 => /\ validTo'[file.access] = validTo[file.access]
                         /\ delay'[file.access] = delay[file.access]
  BY DEF AuthTypeOK, Files
<1> QED BY <1>1 DEF FileHonest

LEMMA TimelyStep == AuthTypeOK /\ Secret /\ Timely /\ [AuthNext]_authVars => Timely'
<1> SUFFICES ASSUME AuthTypeOK, Secret, Timely, [AuthNext]_authVars PROVE Timely'
  OBVIOUS
<1>0. /\ FileHonest /\ now \in Nat /\ RefusedOnlyIfLate
      /\ \A s \in Sessions : TokenLasts(s)
  BY DEF Timely, AuthTypeOK
<1>1. ASSUME NEW s \in Sessions, NEW cell, sess' = [sess EXCEPT ![s] = cell],
             \A k \in Issued : validTo'[k] = validTo[k] /\ delay'[k] = delay[k],
             FileHonest', RefusedOnlyIfLate',
             sess'[s] = cell => TokenLasts(s)'
      PROVE  Timely'
  <2>1. sess'[s] = cell /\ \A u \in Sessions \ {s} : sess'[u] = sess[u]
    BY <1>1, Others
  <2>2. \A u \in Sessions \ {s} : TokenLasts(u)'
    BY <1>0, <1>1, <2>1, Lasts
  <2> QED BY <1>0, <1>1, <2>1, <2>2 DEF Timely
<1>2. ASSUME NEW s \in Sessions, Leave(s), UNCHANGED <<file, validTo, delay>>,
             RefusedOnlyIfLate'
      PROVE  Timely'
  <2>1. FileHonest'
    BY <1>0, <1>2 DEF FileHonest
  <2>2. sess'[s] = Idle => TokenLasts(s)'
    BY DEF TokenLasts, Idle
  <2> QED BY <1>1, <1>2, <2>1, <2>2 DEF Leave
<1>3. ASSUME NEW s \in Sessions, Load(s) PROVE Timely'
  <2>1. UNCHANGED <<now, file, validTo, delay, refused>> /\ file.access # 0
    BY <1>3 DEF Load, history
  <2>2. FileHonest' /\ RefusedOnlyIfLate'
    BY <1>0, <2>1 DEF FileHonest, RefusedOnlyIfLate
  <2>3. CASE Fresh /\ Goto(s, "request", NoFile, file.access)
    <3> DEFINE cell == [phase |-> "request", data |-> NoFile,
                        token |-> file.access, since |-> now]
    <3>1. file.access \in Issued /\ file.expires \in Nat
      BY <2>1 DEF AuthTypeOK, Files
    <3>2. validTo[file.access] \in Nat /\ delay[file.access] \in Nat
      BY <3>1, TokenTime
    <3>3. now + Margin < validTo[file.access] + delay[file.access]
      BY <1>0, <2>1, <2>3, <3>1, <3>2 DEF FileHonest, Fresh
    <3>4. sess'[s] = cell => TokenLasts(s)'
      BY <1>0, <2>1, <3>3 DEF TokenLasts, Lasting
    <3> QED BY <1>1, <2>1, <2>2, <2>3, <3>4 DEF Goto
  <2>4. CASE Reread(s)
    <3>1. sess'[s] = [Idle EXCEPT !.phase = "refresh", !.data = file] => TokenLasts(s)'
      BY DEF TokenLasts, Idle
    <3> QED BY <1>1, <2>1, <2>2, <2>4, <3>1 DEF Reread
  <2> QED BY <1>3, <2>3, <2>4 DEF Load
<1>4. ASSUME NEW s \in Sessions, Grant(s) PROVE Timely'
  <2> DEFINE cell == [phase |-> "granted", data |-> sess[s].data,
                      token |-> Len(validTo'), since |-> now]
  <2>1. /\ validTo' = Append(validTo, now + Lifetime) /\ delay' = Append(delay, 0)
        /\ UNCHANGED <<now, file, refused>>
        /\ sess' = [sess EXCEPT ![s] = cell]
    BY <1>4 DEF Grant, Goto, history
  <2>2. /\ validTo'[Len(validTo')] = now + Lifetime /\ delay'[Len(validTo')] = 0
        /\ \A k \in Issued : validTo'[k] = validTo[k] /\ delay'[k] = delay[k]
    BY <2>1, NewToken, NewDelay
  <2>3. FileHonest' /\ RefusedOnlyIfLate'
    <3>1. FileHonest'
      BY <1>0, <2>1, <2>2, StaysHonest
    <3> QED BY <1>0, <2>1, <3>1 DEF RefusedOnlyIfLate
  <2>4. sess'[s] = cell => TokenLasts(s)'
    <3>1. SUFFICES ASSUME sess'[s] = cell PROVE TokenLasts(s)'
      OBVIOUS
    <3> DEFINE n == Len(validTo')
    <3>2. /\ sess'[s].phase = "granted" /\ sess'[s].token = n /\ sess'[s].since = now
          /\ validTo'[n] = now + Lifetime /\ delay'[n] = 0
      BY <2>2, <3>1
    <3> HIDE DEF n
    <3> QED BY <3>2 DEF TokenLasts
  <2> QED BY <1>1, <2>1, <2>2, <2>3, <2>4
<1>5. ASSUME NEW s \in Sessions, Persist(s) PROVE Timely'
  <2> DEFINE cell == [phase |-> "request", data |-> NoFile,
                      token |-> sess[s].token, since |-> now]
             t == sess[s].token
  <2>1. /\ UNCHANGED <<now, validTo, refused>>
        /\ file' = Updated(s)
        /\ delay' = [delay EXCEPT ![t] = now - sess[s].since]
        /\ sess' = [sess EXCEPT ![s] = cell]
        /\ sess[s].phase = "granted"
    BY <1>5 DEF Persist, Goto, history
  <2>2. /\ sess[s].since \in Nat /\ now - sess[s].since \in Nat /\ t \in Issued
        /\ validTo[t] = sess[s].since + Lifetime /\ delay[t] = 0
    BY <1>0, <2>1 DEF AuthTypeOK, TokenLasts
  <2>3. file'.access = t /\ file'.expires = now + Lifetime
    <3>1. sess[s].data \in Files
      BY DEF AuthTypeOK
    <3> QED BY <2>1, <3>1 DEF Updated, Files
  <2>4. delay'[t] = now - sess[s].since /\ \A k \in Issued : k # t => delay'[k] = delay[k]
    BY <2>1, <2>2, SetDelay
  <2>5. now + Lifetime = validTo'[t] + delay'[t]
    BY <1>0, <2>1, <2>2, <2>4
  <2>6. FileHonest'
    BY <1>0, <2>3, <2>5 DEF FileHonest
  <2>7. sess'[s] = cell /\ \A u \in Sessions \ {s} : sess'[u] = sess[u]
    BY <2>1, Others
  <2>8. TokenLasts(s)'
    BY <1>0, <2>5, <2>7 DEF TokenLasts, Lasting
  <2>9. ASSUME NEW u \in Sessions \ {s} PROVE TokenLasts(u)'
    <3>1. sess[u].phase \in {"granted", "request"} => sess[u].token \in Issued
      BY DEF AuthTypeOK
    <3>2. CASE sess[u].phase = "granted"
      <4>1. sess[u].token # t
        BY <2>1, <3>2 DEF Secret
      <4> QED BY <1>0, <2>1, <2>4, <2>7, <3>1, <3>2, <4>1 DEF TokenLasts
    <3>3. CASE sess[u].phase = "request"
      <4>1. /\ validTo[sess[u].token] \in Nat /\ delay[sess[u].token] \in Nat
            /\ sess[u].since \in Nat
        BY <1>0, <3>1, <3>3, TokenTime DEF AuthTypeOK
      <4>2. delay'[sess[u].token] \in Nat /\ delay[sess[u].token] <= delay'[sess[u].token]
        BY <2>2, <2>4, <3>1, <3>3, <4>1
      <4>3. Lasting(sess[u].token, sess[u].since)
        BY <1>0, <3>3 DEF TokenLasts
      <4>4. Lasting(sess[u].token, sess[u].since)'
        BY <2>1, <2>7, <4>1, <4>2, <4>3 DEF Lasting
      <4> QED BY <2>7, <3>3, <4>4 DEF TokenLasts
    <3>4. CASE sess[u].phase \notin {"granted", "request"}
      BY <2>7, <3>4 DEF TokenLasts
    <3> QED BY <3>2, <3>3, <3>4
  <2> QED BY <1>0, <2>1, <2>6, <2>8, <2>9 DEF Timely, RefusedOnlyIfLate
<1>6. ASSUME NEW s \in Sessions, Deny(s) \/ Fail(s) \/ Serve(s) PROVE Timely'
  <2>1. Leave(s) /\ UNCHANGED <<file, validTo, delay, refused>>
    BY <1>6 DEF Deny, Fail, Serve, history
  <2> QED BY <1>0, <1>2, <2>1 DEF RefusedOnlyIfLate
<1>7. ASSUME NEW s \in Sessions, Refuse(s) PROVE Timely'
  <2> DEFINE t == sess[s].token
             way == now - sess[s].since + delay[t]
  <2>1. /\ sess[s].phase = "request" /\ ~(now < validTo[t])
        /\ Leave(s) /\ UNCHANGED <<file, validTo, delay>>
        /\ refused' = refused \cup {way}
    BY <1>7 DEF Refuse, InTime
  <2>2. sess[s].since \in Nat /\ t \in Issued /\ Lasting(t, sess[s].since)
    BY <1>0, <2>1 DEF AuthTypeOK, TokenLasts
  <2>3. validTo[t] \in Nat /\ delay[t] \in Nat
    BY <2>2, TokenTime
  <2>4. way > Margin \/ way >= Lifetime
    BY <1>0, <2>1, <2>2, <2>3 DEF Lasting
  <2> HIDE DEF way
  <2>5. RefusedOnlyIfLate'
    BY <1>0, <2>1, <2>4 DEF RefusedOnlyIfLate
  <2> QED BY <1>2, <2>1, <2>5
<1>8. CASE Crash
  <2>1. UNCHANGED <<file, validTo, delay, refused>> /\ sess' = [s \in Sessions |-> Idle]
    BY <1>8 DEF Crash
  <2> QED BY <1>0, <2>1 DEF Timely, FileHonest, TokenLasts, Idle, RefusedOnlyIfLate
<1>9. CASE Connect
  <2>1. /\ validTo' = Append(validTo, now + Lifetime) /\ delay' = Append(delay, 0)
        /\ file' = [file EXCEPT !.access = Len(validTo'), !.refresh = Len(validTo'),
                                !.expires = now + Lifetime]
        /\ UNCHANGED <<now, sess, refused>>
    BY <1>9 DEF Connect
  <2>2. /\ validTo'[Len(validTo')] = now + Lifetime /\ delay'[Len(validTo')] = 0
        /\ \A k \in Issued : validTo'[k] = validTo[k] /\ delay'[k] = delay[k]
    BY <2>1, NewToken, NewDelay
  <2>3. file'.access = Len(validTo') /\ file'.expires = now + Lifetime
    <3>1. file \in Files
      BY DEF AuthTypeOK
    <3> QED BY <2>1, <3>1 DEF Files
  <2>4. FileHonest'
    BY <1>0, <2>2, <2>3 DEF FileHonest
  <2>5. \A u \in Sessions : TokenLasts(u)'
    BY <1>0, <2>1, <2>2, Lasts
  <2> QED BY <1>0, <2>1, <2>4, <2>5 DEF Timely, RefusedOnlyIfLate
<1>10. CASE EditOther
  <2>1. /\ file' = [file EXCEPT !.other = others'] /\ file \in Files
        /\ UNCHANGED <<now, validTo, delay, sess, refused>>
    BY <1>10 DEF EditOther, AuthTypeOK
  <2>2. file'.access = file.access /\ file'.expires = file.expires
    BY <2>1 DEF Files
  <2>3. FileHonest' /\ \A u \in Sessions : TokenLasts(u)'
    BY <1>0, <2>1, <2>2, StaysHonest, Lasts
  <2> QED BY <1>0, <2>1, <2>3 DEF Timely, RefusedOnlyIfLate
<1>11. CASE Tick \/ UNCHANGED authVars
  <2>1. UNCHANGED <<file, validTo, delay, sess, refused>>
    BY <1>11 DEF Tick, authVars, history
  <2> QED BY <1>0, <2>1 DEF Timely, FileHonest, TokenLasts, Lasting, RefusedOnlyIfLate
<1> QED BY <1>3, <1>4, <1>5, <1>6, <1>7, <1>8, <1>9, <1>10, <1>11
     DEF AuthNext, World, AuthStep

(***************************************************************************)
(* The login                                                               *)
(***************************************************************************)

Login == Secret /\ Unraced /\ StaysLoggedIn

LEMMA InitLogin == AuthInit => Login
<1> SUFFICES ASSUME AuthInit PROVE Login
  OBVIOUS
<1>1. \A s \in Sessions : sess[s].phase = "idle"
  BY DEF AuthInit, Idle
<1>2. file.refresh \in live \cup {0} /\ file.other = 0
  <2>1. PICK e \in {0, Lifetime} :
           \/ file = NoFile
           \/ /\ file = [access |-> 1, refresh |-> 1, expires |-> e, other |-> 0]
              /\ live = {1}
    BY DEF AuthInit
  <2> QED BY <2>1 DEF NoFile
<1>3. others = 0
  BY DEF AuthInit
<1> QED BY <1>1, <1>2, <1>3 DEF Login, Secret, Unraced, StaysLoggedIn, Refreshing

\* A session that stops waiting, or waits for the API, with the file as it was.
LEMMA QuietLogin ==
  ASSUME AuthTypeOK, Login, NEW s \in Sessions,
         sess'[s].phase \in {"idle", "request"},
         \A u \in Sessions \ {s} : sess'[u] = sess[u],
         UNCHANGED <<file, live, others, raced>>,
         lost' = (lost \/ LosesTokens(s))
  PROVE  Login'
<1>1. Secret'
  BY DEF Login, Secret, Refreshing
<1>2. Unraced'
  BY DEF Login, Unraced, Refreshing
<1>3. StaysLoggedIn'
  BY DEF Login, StaysLoggedIn, LosesTokens
<1> QED BY <1>1, <1>2, <1>3 DEF Login

LEMMA LoginStep == AuthTypeOK /\ Login /\ [AuthNext]_authVars => Login'
<1> SUFFICES ASSUME AuthTypeOK, Login, [AuthNext]_authVars PROVE Login'
  OBVIOUS
<1>0. /\ file.refresh \in Issued \cup {0} /\ file \in Files
      /\ live \subseteq Issued
      /\ \A s \in Sessions : /\ sess[s].token \in Issued \cup {0}
                             /\ sess[s].data \in Files
                             /\ sess[s].data.refresh \in Issued \cup {0}
  BY DEF AuthTypeOK, Files
<1>1. ASSUME NEW s \in Sessions, Load(s) PROVE Login'
  <2>1. UNCHANGED <<file, live, others, raced, lost>> /\ sess[s].phase = "idle"
    BY <1>1 DEF Load, history
  <2>2. CASE Goto(s, "request", NoFile, file.access)
    <3>1. lost' = (lost \/ LosesTokens(s))
      BY <2>1 DEF LosesTokens, AuthTypeOK
    <3> DEFINE cell == [phase |-> "request", data |-> NoFile,
                        token |-> file.access, since |-> now]
    <3>2. sess'[s] = cell /\ \A u \in Sessions \ {s} : sess'[u] = sess[u]
      BY <2>2, Others DEF Goto
    <3>3. sess'[s].phase = "request"
      BY <3>2
    <3> QED BY <2>1, <3>1, <3>2, <3>3, QuietLogin
  <2>3. CASE Reread(s)
    <3> DEFINE cell == [Idle EXCEPT !.phase = "refresh", !.data = file]
    <3>1. cell.phase = "refresh" /\ cell.data = file
      BY DEF Idle
    <3>2. sess'[s] = cell /\ \A u \in Sessions \ {s} : sess'[u] = sess[u]
      BY <2>3, Others DEF Reread
    <3> HIDE DEF cell
    <3>3. Secret'
      BY <2>1, <3>1, <3>2 DEF Login, Secret, Refreshing
    <3>4. Unraced'
      BY <2>1, <3>1, <3>2 DEF Login, Unraced, Refreshing
    <3>5. StaysLoggedIn'
      BY <2>1, <3>1, <3>2 DEF Login, StaysLoggedIn, LosesTokens
    <3> QED BY <3>3, <3>4, <3>5 DEF Login
  <2> QED BY <1>1, <2>2, <2>3 DEF Load
<1>2. ASSUME NEW s \in Sessions, Grant(s) PROVE Login'
  <2> DEFINE cell == [phase |-> "granted", data |-> sess[s].data,
                      token |-> Len(validTo'), since |-> now]
  <2>1. /\ validTo' = Append(validTo, now + Lifetime)
        /\ live' = (live \ {sess[s].data.refresh}) \cup {Len(validTo')}
        /\ UNCHANGED <<file, others, raced, lost>>
        /\ sess' = [sess EXCEPT ![s] = cell]
        /\ sess[s].phase = "refresh"
    BY <1>2 DEF Grant, Goto, history
  <2> DEFINE n == Len(validTo')
  <2>2. n \notin Issued \cup {0}
    BY <2>1, NewToken
  <2>3. /\ sess'[s].phase = "granted" /\ sess'[s].data = sess[s].data
        /\ sess'[s].token = n
        /\ \A u \in Sessions \ {s} : sess'[u] = sess[u]
    <3>1. sess'[s] = cell /\ \A u \in Sessions \ {s} : sess'[u] = sess[u]
      BY <2>1, Others
    <3> QED BY <3>1
  <2>4. live' = (live \ {sess[s].data.refresh}) \cup {n}
    BY <2>1
  <2> HIDE DEF n, cell
  <2>5. Secret'
    BY <1>0, <2>1, <2>2, <2>3, <2>4 DEF Login, Secret, Refreshing
  <2>6. Unraced'
    BY <2>1, <2>3 DEF Login, Unraced, Refreshing
  <2>7. StaysLoggedIn'
    BY <2>1, <2>3, <2>4 DEF Login, StaysLoggedIn, LosesTokens
  <2> QED BY <2>5, <2>6, <2>7 DEF Login
<1>3. ASSUME NEW s \in Sessions, Persist(s) PROVE Login'
  <2>1. /\ UNCHANGED <<live, others, raced, lost>>
        /\ file' = Updated(s)
        /\ sess' = [sess EXCEPT ![s] = [phase |-> "request", data |-> NoFile,
                                        token |-> sess[s].token, since |-> now]]
        /\ sess[s].phase = "granted"
    BY <1>3 DEF Persist, Goto, history
  <2>2. /\ sess'[s].phase = "request"
        /\ \A u \in Sessions \ {s} : sess'[u] = sess[u]
    <3> DEFINE cell == [phase |-> "request", data |-> NoFile,
                        token |-> sess[s].token, since |-> now]
    <3>1. sess'[s] = cell /\ \A u \in Sessions \ {s} : sess'[u] = sess[u]
      BY <2>1, Others
    <3> QED BY <3>1
  <2>3. file'.refresh = sess[s].token /\ file'.other = sess[s].data.other
    BY <1>0, <2>1 DEF Updated, Files
  <2>4. Secret'
    BY <2>1, <2>2, <2>3 DEF Login, Secret, Refreshing
  <2>5. Unraced'
    BY <2>1, <2>2, <2>3 DEF Login, Unraced, Refreshing
  <2>6. StaysLoggedIn'
    BY <2>1, <2>3 DEF Login, Secret, StaysLoggedIn
  <2> QED BY <2>4, <2>5, <2>6 DEF Login
<1>4. ASSUME NEW s \in Sessions, Deny(s) \/ Fail(s) \/ Serve(s) \/ Refuse(s)
      PROVE  Login'
  <2>1. /\ UNCHANGED <<file, live, others, raced>>
        /\ sess'[s].phase = "idle"
        /\ \A u \in Sessions \ {s} : sess'[u] = sess[u]
    <3>1. Leave(s) /\ UNCHANGED <<file, live, others, raced>>
      BY <1>4 DEF Deny, Fail, Serve, Refuse, history
    <3>2. sess'[s] = Idle /\ \A u \in Sessions \ {s} : sess'[u] = sess[u]
      BY <3>1, Others DEF Leave
    <3> QED BY <3>1, <3>2 DEF Idle
  <2>2. lost' = (lost \/ LosesTokens(s))
    <3>1. CASE Fail(s)
      BY <3>1 DEF Fail
    <3>2. CASE Deny(s) \/ Serve(s) \/ Refuse(s)
      <4>1. lost' = lost /\ ~LosesTokens(s) /\ lost \in BOOLEAN
        BY <3>2 DEF Deny, Serve, Refuse, history, LosesTokens, AuthTypeOK
      <4> QED BY <4>1
    <3> QED BY <1>4, <3>1, <3>2
  <2> QED BY <2>1, <2>2, QuietLogin
<1>5. CASE Crash
  <2>1. /\ UNCHANGED <<file, live, others, raced>>
        /\ \A s \in Sessions : sess'[s].phase = "idle"
    BY <1>5 DEF Crash, Idle
  <2>2. lost' = (lost \/ \E s \in Sessions : LosesTokens(s))
    BY <1>5 DEF Crash
  <2>3. StaysLoggedIn'
    BY <2>1, <2>2 DEF Login, StaysLoggedIn
  <2> QED BY <2>1, <2>3 DEF Login, Secret, Unraced, Refreshing
<1>6. CASE Connect
  <2> DEFINE n == Len(validTo')
  <2>1. /\ validTo' = Append(validTo, now + Lifetime)
        /\ live' = live \cup {n}
        /\ file' = [file EXCEPT !.access = n, !.refresh = n, !.expires = now + Lifetime]
        /\ UNCHANGED <<sess, others, raced>>
    BY <1>6 DEF Connect
  <2>2. n \notin Issued \cup {0}
    BY <2>1, NewToken
  <2> HIDE DEF n
  <2>3. file'.refresh = n /\ file'.other = file.other
    BY <1>0, <2>1 DEF Files
  <2>4. Secret'
    BY <1>0, <2>1, <2>2, <2>3 DEF Login, Secret, Refreshing
  <2>5. Unraced' /\ StaysLoggedIn'
    BY <2>1, <2>3 DEF Login, Unraced, Refreshing, StaysLoggedIn
  <2> QED BY <2>4, <2>5 DEF Login
<1>7. CASE EditOther
  <2>1. /\ file' = [file EXCEPT !.other = others']
        /\ raced' = \E s \in Sessions : Refreshing(s)
        /\ UNCHANGED <<live, sess, lost>>
    BY <1>7 DEF EditOther
  <2>2. file'.refresh = file.refresh /\ file'.other = others'
    BY <1>0, <2>1 DEF Files
  <2>3. Secret' /\ StaysLoggedIn'
    BY <2>1, <2>2 DEF Login, Secret, Refreshing, StaysLoggedIn, LosesTokens
  <2>4. Unraced'
    BY <2>1, <2>2 DEF Unraced, Refreshing
  <2> QED BY <2>3, <2>4 DEF Login
<1>8. CASE Tick \/ UNCHANGED authVars
  <2>1. UNCHANGED <<file, live, sess, others, raced, lost>>
    BY <1>8 DEF Tick, authVars, history
  <2> QED BY <2>1 DEF Login, Secret, Unraced, Refreshing, StaysLoggedIn, LosesTokens
<1> QED BY <1>1, <1>2, <1>3, <1>4, <1>5, <1>6, <1>7, <1>8
     DEF AuthNext, World, AuthStep

\* The refresh token in auth.json is good unless the answer with its successor
\* was lost, whatever sessions refresh at the same time; and what opencode
\* wrote of the other providers is kept unless it crossed a refresh.
THEOREM LoginIsKept == AuthSpec => []LoginKept
<1>1. AuthTypeOK /\ Login => LoginKept
  BY DEF Login, Unraced, OthersKept, LoginKept
<1> QED BY InitTypes, TypeStep, InitLogin, LoginStep, <1>1, PTL DEF AuthSpec

\* However long requests and answers take, whoever refreshes or logs in
\* meanwhile: a request gets to the server with an expired token only if it
\* and the answer with the token took longer than the margin, or than a token
\* lives.
THEOREM RefusalsAreLate == AuthSpec => []RefusedOnlyIfLate
<1>1. Timely => RefusedOnlyIfLate
  BY DEF Timely
<1>2. Login => Secret
  BY DEF Login
<1> QED BY InitTypes, TypeStep, InitLogin, LoginStep, InitTimely, TimelyStep, <1>1, <1>2, PTL
     DEF AuthSpec

(***************************************************************************)
(* The sessions of Transport                                               *)
(***************************************************************************)

\* The sessions that stream answers are sessions of the login.
LEMMA TransportLogsIn == Spec => AuthSpec
<1>1. Init => AuthInit
  BY DEF Init
<1>2. [Next]_vars => [AuthNext]_authVars
  BY DEF Next, Ask, Wait, Answer, Done, vars, AuthNext
<1> QED BY <1>1, <1>2, PTL DEF Spec, AuthSpec

\* However the answers are streamed, only late requests come with an expired
\* token.
THEOREM RequestsAreRefusedLate == Spec => []RefusedOnlyIfLate
BY TransportLogsIn, RefusalsAreLate

\* However the answers are streamed, auth.json keeps the login.
THEOREM SessionsKeepLogin == Spec => []LoginKept
BY TransportLogsIn, LoginIsKept

(***************************************************************************)
(* The answers of Transport                                                *)
(***************************************************************************)

\* What the model may say is made of items.
LEMMA RepliesAreItems ==
  ASSUME NEW said \in Replies
  PROVE  LET I == ToSet(said) IN said \in Seq(I) /\ Items(Pieces, I)
BY RepliesAssumption DEF Items

\* The events of a stream are what is told, and its end.
LEMMA StreamIs ==
  ASSUME NEW said \in Replies, NEW output \in BOOLEAN
  PROVE  LET s == Told(said)
             stream == StreamOf(said, output)
         IN /\ s \in Seq(Readable(Pieces, ToSet(said)))
            /\ DOMAIN stream = 1..(Len(s) + 1)
            /\ \A k \in 1..Len(s) : stream[k] = s[k]
            /\ stream[Len(s) + 1].event = "completed"
<1> DEFINE s == Told(said)
           E == Readable(Pieces, ToSet(said))
           end == Completed(IF output THEN said ELSE <<>>)
           a == Append(s, end)
           G == E \cup {end}
<1>1. StreamOf(said, output) = s \o <<end>>
  BY DEF StreamOf, Told
<1>2. s \in Seq(E)
  BY RepliesAreItems, ToldIs
<1>3. end.event = "completed"
  BY DEF Completed
<1> HIDE DEF s, E, end
<1>4. s \in Seq(G) /\ end \in G
  BY <1>2, SeqMonotonic
<1> HIDE DEF G
<1>5. s \o <<end>> = a
  BY <1>4, AppendIsConcat
<1>6. /\ a \in Seq(G) /\ Len(a) = Len(s) + 1
      /\ \A k \in 1..Len(s) : a[k] = s[k]
      /\ a[Len(s) + 1] = end
  BY <1>4, AppendProperties
<1> HIDE DEF a
<1>7. DOMAIN a = 1..(Len(s) + 1)
  BY <1>6, LenProperties
<1> QED BY <1>1, <1>2, <1>3, <1>5, <1>6, <1>7 DEF s, E

\* A stream is of a reply.
LEMMA StreamsOfReplies ==
  ASSUME NEW a \in Streams
  PROVE  a.said \in Replies /\ a.output \in BOOLEAN
<1>1. PICK said \in Replies :
        a \in [said : {said}, output : BOOLEAN, missing : SUBSET DOMAIN StreamOf(said, TRUE)]
  BY DEF Streams
<1> QED BY <1>1

\* What a stream shows, event by event.
LEMMA ShownIs ==
  ASSUME NEW a \in Streams
  PROVE  LET s == Told(a.said)
         IN /\ ShowsItems(a) => \/ Shown("item", s, a.missing)
                                \/ Hidden("item", s, a.missing) /\ a.output
            /\ ShowsText(a) => /\ Hidden("item", s, a.missing) /\ Shown("delta", s, a.missing)
                               /\ \A k \in DOMAIN a.said : IsMessage(a.said[k])
<1> DEFINE s == Told(a.said)
           stream == StreamOf(a.said, a.output)
<1>1. a.said \in Replies /\ a.output \in BOOLEAN
  BY StreamsOfReplies
<1>2. /\ s \in Seq(Readable(Pieces, ToSet(a.said))) /\ DOMAIN stream = 1..(Len(s) + 1)
      /\ \A k \in 1..Len(s) : stream[k] = s[k]
  BY <1>1, StreamIs
<1> HIDE DEF s
<1>3. Len(s) \in Nat
  BY <1>2, LenProperties
<1>4. ASSUME NEW kind PROVE At(a, kind) = {k \in DOMAIN stream : stream[k].event = kind}
  BY DEF At
<1> HIDE DEF stream
<1>5. ASSUME NEW kind, NEW k \in 1..Len(s), s[k].event = kind PROVE k \in At(a, kind)
  <2>1. k \in DOMAIN stream /\ stream[k] = s[k]
    BY <1>2, <1>3
  <2> QED BY <1>4, <1>5, <2>1
<1>6. ASSUME NEW kind, At(a, kind) \cap a.missing = {} PROVE Shown(kind, s, a.missing)
  BY <1>5, <1>6 DEF Shown
<1>7. ASSUME NEW kind, At(a, kind) \subseteq a.missing PROVE Hidden(kind, s, a.missing)
  BY <1>5, <1>7 DEF Hidden
<1> QED BY <1>6, <1>7 DEF ShowsItems, ShowsText, s

\* What can come back is what was said, or part of it.
LEMMA AnswersAreSaid ==
  ASSUME NEW x \in Answers \cup {Empty}
  PROVE  LET said == Parsed(x.said)
         IN /\ x.items => x.got = said
            /\ x.text => x.got.calls = said.calls /\ Text(x.got.content) = Text(said.content)
            /\ Within(x.got.calls, said.calls)
            /\ Within(Text(x.got.content), Text(said.content))
<1>1. CASE x = Empty
  <2>1. x.said = <<>> /\ x.got = Parsed(<<>>)
    BY <1>1 DEF Empty
  <2>2. Parsed(<<>>).calls = <<>> /\ Text(Parsed(<<>>).content) = <<>>
    BY ParsedNothing
  <2>3. <<>> \in Seq({})
    BY EmptySeq
  <2>4. Within(<<>>, <<>>)
    BY <2>3, WithinItself
  <2> QED BY <2>1, <2>2, <2>4
<1>2. CASE x # Empty
  <2> DEFINE accOf(a) == Read(Received(StreamOf(a.said, a.output), a.missing))
  <2>1. PICK a \in Streams : /\ accOf(a).completed
                             /\ x = [said |-> a.said, items |-> ShowsItems(a),
                                     text |-> ShowsText(a), got |-> Parsed(Output(accOf(a)))]
    BY <1>2 DEF Answers, Ended
  <2>2. a.said \in Replies /\ a.output \in BOOLEAN
    BY StreamsOfReplies
  <2> DEFINE said == a.said
             o == IF a.output THEN said ELSE <<>>
             missing == a.missing
             acc == accOf(a)
             I == ToSet(said)
             got == Parsed(Output(acc))
             all == Parsed(said)
             s == Told(said)
  <2>3. said \in Seq(I) /\ Items(Pieces, I)
    BY <2>2, RepliesAreItems
  <2>4. acc = Read(Received(s \o <<Completed(o)>>, missing)) /\ acc.completed
    BY <2>1 DEF StreamOf, Told
  <2>5. /\ ShowsItems(a) => \/ Shown("item", s, missing)
                            \/ Hidden("item", s, missing) /\ a.output
        /\ ShowsText(a) => /\ Hidden("item", s, missing) /\ Shown("delta", s, missing)
                           /\ \A k \in DOMAIN said : IsMessage(said[k])
    BY ShownIs
  <2>6. /\ x.said = said /\ x.got = got
        /\ x.items => ShowsItems(a)
        /\ x.text => ShowsText(a)
    BY <2>1
  <2>7. o \in {said, <<>>} /\ (a.output => o = said)
    BY <2>2
  <2> HIDE DEF said, o, missing, acc, accOf, I, s
  <2>8. /\ (Shown("item", s, missing) \/ (Hidden("item", s, missing) /\ o = said)) => got = all
        /\ /\ Hidden("item", s, missing) /\ Shown("delta", s, missing)
           /\ \A k \in DOMAIN said : IsMessage(said[k])
           => got.calls = all.calls /\ Text(got.content) = Text(all.content)
        /\ Within(got.calls, all.calls)
        /\ Within(Text(got.content), Text(all.content))
    BY <2>3, <2>4, <2>7, ReplyComesBack DEF s
  <2> HIDE DEF got
  <2>9. x.items => got = all
    <3>1. x.items => Shown("item", s, missing) \/ (Hidden("item", s, missing) /\ a.output)
      BY <2>5, <2>6
    <3>2. a.output => o = said
      BY <2>7
    <3>3. (Shown("item", s, missing) \/ (Hidden("item", s, missing) /\ o = said)) => got = all
      BY <2>8
    <3> HIDE DEF all
    <3> QED BY <3>1, <3>2, <3>3
  <2>10. x.text => got.calls = all.calls /\ Text(got.content) = Text(all.content)
    BY <2>5, <2>6, <2>8
  <2>11. /\ Within(got.calls, all.calls)
         /\ Within(Text(got.content), Text(all.content))
    BY <2>8
  <2>12. x.got = got /\ Parsed(x.said) = all
    BY <2>6
  <2> HIDE DEF all
  <2> QED BY <2>9, <2>10, <2>11, <2>12
<1> QED BY <1>1, <1>2

\* Whatever the model says, and however many events of the stream are not sent
\* or cannot be read: an answer is all that was said if the stream shows all of
\* it, and otherwise a part of it, in order and nothing twice.  (Nothing more
\* is promised: which events come is the server's affair, and what is lost is
\* lost without an error.)
THEOREM AnswersAreWhatWasSaid == Spec => []AnswerIsWhatWasSaid
<1>1. Empty \in Answers \cup {Empty}
  OBVIOUS
<1>2. Init => answer \in Answers \cup {Empty}
  BY <1>1 DEF Init
<1>3. answer \in Answers \cup {Empty} /\ [Next]_vars => (answer \in Answers \cup {Empty})'
  BY <1>1 DEF Next, Ask, Wait, Answer, Done, vars
<1>4. answer \in Answers \cup {Empty} => AnswerIsWhatWasSaid
  BY AnswersAreSaid DEF AnswerIsWhatWasSaid
<1> QED BY <1>2, <1>3, <1>4, PTL DEF Spec
=============================================================================

-------------------------- MODULE Sessions_proofs --------------------------
(***************************************************************************)
(* Proofs about Sessions, for every set of facts and dates, every number   *)
(* of calls, and every response, footer and length of a chunk.             *)
(***************************************************************************)
EXTENDS Sessions, SequenceTheorems, FiniteSetTheorems, WellFoundedInduction, TLAPS

(***************************************************************************)
(* Sequences put together                                                  *)
(***************************************************************************)

\* Least numbers stand in for induction.
LEMMA Least ==
  ASSUME NEW T, T \subseteq Nat, T # {}
  PROVE  \E m \in T : \A k \in T : m <= k
<1> DEFINE R == OpToRel(<, Nat)
<1>1. IsWellFoundedOn(R, Nat)
  BY NatLessThanWellFounded
<1>2. \A x, y \in Nat : x < y => <<x, y>> \in R
  BY DEF OpToRel
<1> HIDE DEF R
<1>3. \E m \in T : \A k \in T : ~(<<k, m>> \in R)
  BY <1>1, WFMin
<1>4. \A x, y \in Nat : ~(x < y) => y <= x
  OBVIOUS
<1> QED BY <1>2, <1>3, <1>4

LEMMA Largest ==
  ASSUME NEW a \in Nat, NEW b \in Nat, NEW T, T \subseteq a..b, T # {}
  PROVE  \E m \in T : \A k \in T : k <= m
<1> DEFINE D == {b - k : k \in T}
<1>1. D \subseteq Nat /\ D # {}
  <2>1. \A k \in a..b : b - k \in Nat
    OBVIOUS
  <2> QED BY <2>1
<1>2. PICK d \in D : \A e \in D : d <= e
  <2> HIDE DEF D
  <2> QED BY <1>1, Least
<1>3. PICK m \in T : d = b - m
  OBVIOUS
<1>4. ASSUME NEW k \in T PROVE k <= m
  <2>1. b - m <= b - k
    BY <1>2, <1>3
  <2> QED BY <2>1
<1> QED BY <1>4

LEMMA Induction ==
  ASSUME NEW n \in Nat, NEW T, 0 \in T, \A k \in 0..n : k \in T /\ k < n => k + 1 \in T
  PROVE  0..n \subseteq T
<1> DEFINE D == (0..n) \ T
<1> SUFFICES ASSUME D # {} PROVE FALSE
  OBVIOUS
<1>1. PICK m \in D : \A k \in D : m <= k
  <2>1. D \subseteq Nat
    OBVIOUS
  <2> HIDE DEF D
  <2> QED BY <2>1, Least
<1>2. m \in 0..n /\ m # 0
  OBVIOUS
<1>3. m - 1 \in 0..n /\ m - 1 < n /\ (m - 1) + 1 = m /\ ~(m <= m - 1)
  BY <1>2
<1>4. m - 1 \in T
  BY <1>1, <1>3
<1>5. m \in T
  BY <1>3, <1>4
<1> QED BY <1>5

LEMMA Associative ==
  ASSUME NEW S
  PROVE  \A x, y, z \in Seq(S) : (x \o y) \o z = x \o (y \o z)
BY ConcatAssociative

\* f holds what the first elements of ss make together.
Joins(f, ss) ==
  f[0] = <<>> /\ \A k \in 0..Len(ss) : k < Len(ss) => f[k + 1] = f[k] \o ss[k + 1]

LEMMA JoinsExist ==
  ASSUME NEW S, NEW ss \in Seq(Seq(S))
  PROVE  \E f \in [0..Len(ss) -> Seq(S)] : Joins(f, ss)
<1> DEFINE n == Len(ss)
           X == Seq(S)
           Cat(x, y) == x \o y
           Solves(g, k) == g[0] = <<>> /\ \A i \in 0..n : i < k => g[i + 1] = Cat(g[i], ss[i + 1])
           T == {k \in 0..n : \E g \in [0..n -> X] : Solves(g, k)}
<1>1. n \in Nat /\ (\A i \in 1..n : ss[i] \in X) /\ (\A x, y \in X : Cat(x, y) \in X) /\ <<>> \in X
  BY LenProperties, ConcatProperties, EmptySeq
<1> HIDE DEF Cat, X
<1>2. 0 \in T
  <2> DEFINE g == [i \in 0..n |-> <<>>]
  <2> HIDE DEF n
  <2>1. g \in [0..n -> X] /\ 0 \in 0..n /\ g[0] = <<>> /\ \A i \in 0..n : ~(i < 0)
    BY <1>1
  <2> HIDE DEF g
  <2> QED BY <2>1
<1>3. ASSUME NEW k \in 0..n, k \in T, k < n PROVE k + 1 \in T
  <2> HIDE DEF n
  <2>1. PICK g \in [0..n -> X] : Solves(g, k)
    BY <1>3
  <2>2. k + 1 \in 1..n /\ k + 1 \in 0..n /\ k + 1 # 0
    BY <1>1, <1>3
  <2> DEFINE h == [g EXCEPT ![k + 1] = Cat(g[k], ss[k + 1])]
  <2>3. /\ h \in [0..n -> X] /\ h[k + 1] = Cat(g[k], ss[k + 1])
        /\ \A i \in 0..n : i # k + 1 => h[i] = g[i]
    BY <1>1, <2>1, <2>2
  <2> HIDE DEF h
  <2>4. ASSUME NEW i \in 0..n, i < k + 1 PROVE h[i + 1] = Cat(h[i], ss[i + 1])
    <3>1. i # k + 1 /\ i + 1 \in 0..n /\ (i # k => i < k /\ i + 1 # k + 1)
      BY <1>1, <2>2, <2>4
    <3> QED BY <2>1, <2>3, <2>4, <3>1
  <2>5. h[0] = <<>>
    BY <1>1, <2>1, <2>2, <2>3
  <2> QED BY <2>2, <2>3, <2>4, <2>5
<1>4. n \in T
  <2> HIDE DEF T, n
  <2>1. n \in 0..n
    BY <1>1
  <2> QED BY <1>1, <1>2, <1>3, <2>1, Induction
<1> QED BY <1>4 DEF Joins, Cat, X

LEMMA FlattenIs ==
  ASSUME NEW S, NEW ss \in Seq(Seq(S))
  PROVE  \E f \in [0..Len(ss) -> Seq(S)] : Joins(f, ss) /\ FlattenSeq(ss) = f[Len(ss)]
<1> DEFINE n == Len(ss)
           Cat(x, y) == x \o y
<1>1. n \in Nat /\ (\A i \in 1..n : ss[i] \in Seq(S))
  BY LenProperties
<1>2. PICK f \in [0..n -> Seq(S)] : Joins(f, ss)
  BY JoinsExist
<1>3. f[0] = <<>> /\ \A k \in 0..n : k < n => f[k + 1] = Cat(f[k], ss[k + 1])
  BY <1>2 DEF Joins
<1>4. \A x \in Seq(S) : Cat(<<>>, x) = x
  BY ConcatEmptySeq
<1>5. CASE n = 0
  BY <1>2, <1>3, <1>5, EmptySeq DEF FlattenSeq
<1>6. CASE n # 0
  <2> DEFINE Step(g, i) == IF i = 1 THEN ss[i] ELSE Cat(g[i - 1], ss[i])
             F == CHOOSE g : g = [i \in 1..n |-> Step(g, i)]
             g == [i \in 1..n |-> f[i]]
  <2>1. FlattenSeq(ss) = F[n]
    BY <1>6 DEF FlattenSeq
  <2> HIDE DEF n, Cat
  <2>2. ASSUME NEW i \in 1..n PROVE g[i] = Step(g, i)
    <3>1. i - 1 \in 0..n /\ i - 1 < n /\ (i - 1) + 1 = i /\ (i # 1 => i - 1 \in 1..n)
      BY <1>1
    <3>2. f[i] = Cat(f[i - 1], ss[i])
      BY <1>3, <3>1
    <3> QED BY <1>1, <1>3, <1>4, <3>1, <3>2
  <2>3. g = [i \in 1..n |-> Step(g, i)]
    <3> HIDE DEF Step
    <3> QED BY <2>2
  <2>4. F = [i \in 1..n |-> Step(F, i)]
    <3> HIDE DEF Step, g
    <3> QED BY <2>3
  <2> HIDE DEF F, g
  <2> DEFINE U == {k \in 0..n : k # 0 => F[k] = f[k]}
  <2>5. 0 \in U
    BY <1>1
  <2>6. ASSUME NEW k \in 0..n, k \in U, k < n PROVE k + 1 \in U
    <3>1. /\ k + 1 \in 1..n /\ k + 1 \in 0..n /\ k + 1 - 1 = k
          /\ (k = 0 <=> k + 1 = 1)
      BY <1>1, <2>6
    <3>2. F[k + 1] = Step(F, k + 1)
      <4> HIDE DEF Step
      <4> QED BY <2>4, <3>1
    <3>3. CASE k = 0
      <4>1. F[k + 1] = ss[k + 1] /\ f[k + 1] = Cat(<<>>, ss[k + 1])
        BY <1>3, <2>6, <3>1, <3>2, <3>3
      <4> QED BY <1>1, <1>4, <3>1, <4>1
    <3>4. CASE k # 0
      <4>1. F[k + 1] = Cat(F[k], ss[k + 1]) /\ F[k] = f[k]
        BY <2>6, <3>1, <3>2, <3>4
      <4> QED BY <1>3, <2>6, <3>1, <4>1
    <3> QED BY <3>3, <3>4
  <2>7. n \in U
    <3> HIDE DEF U
    <3>1. n \in 0..n
      BY <1>1
    <3> QED BY <1>1, <2>5, <2>6, <3>1, Induction
  <2> QED BY <1>2, <1>6, <2>1, <2>7 DEF n
<1> QED BY <1>5, <1>6

LEMMA FlattenType ==
  ASSUME NEW S, NEW ss \in Seq(Seq(S))
  PROVE  FlattenSeq(ss) \in Seq(S)
<1>1. PICK f \in [0..Len(ss) -> Seq(S)] : FlattenSeq(ss) = f[Len(ss)]
  BY FlattenIs
<1>2. Len(ss) \in 0..Len(ss)
  BY LenProperties
<1> QED BY <1>1, <1>2

LEMMA FlattenConcat ==
  ASSUME NEW S, NEW a \in Seq(Seq(S)), NEW b \in Seq(Seq(S))
  PROVE  FlattenSeq(a \o b) = FlattenSeq(a) \o FlattenSeq(b)
<1> DEFINE m == Len(a)
           n == Len(b)
           ab == a \o b
           Cat(x, y) == x \o y
<1>1. PICK f \in [0..m -> Seq(S)] : Joins(f, a) /\ FlattenSeq(a) = f[m]
  BY FlattenIs
<1>2. PICK g \in [0..n -> Seq(S)] : Joins(g, b) /\ FlattenSeq(b) = g[n]
  BY FlattenIs
<1>3. /\ ab \in Seq(Seq(S)) /\ Len(ab) = m + n /\ m \in Nat /\ n \in Nat
      /\ \A i \in 1..(m + n) : ab[i] = IF i <= m THEN a[i] ELSE b[i - m]
      /\ \A i \in 1..n : b[i] \in Seq(S)
  BY ConcatProperties, LenProperties
<1> HIDE DEF ab
<1>4. PICK h \in [0..(m + n) -> Seq(S)] : Joins(h, ab) /\ FlattenSeq(ab) = h[m + n]
  BY <1>3, FlattenIs
<1>5. f[0] = <<>> /\ \A k \in 0..m : k < m => f[k + 1] = Cat(f[k], a[k + 1])
  BY <1>1 DEF Joins
<1>6. g[0] = <<>> /\ \A k \in 0..n : k < n => g[k + 1] = Cat(g[k], b[k + 1])
  BY <1>2 DEF Joins
<1>7. h[0] = <<>> /\ \A k \in 0..(m + n) : k < m + n => h[k + 1] = Cat(h[k], ab[k + 1])
  BY <1>3, <1>4 DEF Joins
<1>8. /\ \A x \in Seq(S) : Cat(x, <<>>) = x
      /\ \A x, y, z \in Seq(S) : Cat(Cat(x, y), z) = Cat(x, Cat(y, z))
  BY ConcatEmptySeq, ConcatAssociative
<1> HIDE DEF m, n, Cat
<1>9. h[m] = f[m]
  <2> DEFINE T == {k \in 0..m : h[k] = f[k]}
  <2>1. 0 \in T
    BY <1>3, <1>5, <1>7
  <2>2. ASSUME NEW k \in 0..m, k \in T, k < m PROVE k + 1 \in T
    <3>1. /\ k + 1 \in 0..m /\ k \in 0..(m + n) /\ k < m + n
          /\ k + 1 \in 1..(m + n) /\ k + 1 <= m
      BY <1>3, <2>2
    <3>2. ab[k + 1] = a[k + 1]
      BY <1>3, <3>1
    <3> QED BY <1>5, <1>7, <2>2, <3>1, <3>2
  <2> HIDE DEF T
  <2>3. m \in T
    <3>1. m \in 0..m
      BY <1>3
    <3> QED BY <1>3, <2>1, <2>2, <3>1, Induction
  <2> QED BY <2>3 DEF T
<1>10. h[m + n] = Cat(f[m], g[n])
  <2> DEFINE T == {k \in 0..n : h[m + k] = Cat(f[m], g[k])}
  <2>1. f[m] \in Seq(S)
    BY <1>1, <1>3
  <2>2. 0 \in T
    <3>1. m + 0 = m /\ 0 \in 0..n
      BY <1>3
    <3> QED BY <1>6, <1>8, <1>9, <2>1, <3>1
  <2>3. ASSUME NEW k \in 0..n, k \in T, k < n PROVE k + 1 \in T
    <3>1. /\ k + 1 \in 0..n /\ k + 1 \in 1..n
          /\ m + k \in 0..(m + n) /\ m + k < m + n /\ m + (k + 1) = (m + k) + 1
          /\ (m + k) + 1 \in 1..(m + n) /\ ~((m + k) + 1 <= m) /\ ((m + k) + 1) - m = k + 1
      <4>1. \A x, y \in Nat : \A z \in 0..y : z < y =>
              /\ z + 1 \in 0..y /\ z + 1 \in 1..y
              /\ x + z \in 0..(x + y) /\ x + z < x + y /\ x + (z + 1) = (x + z) + 1
              /\ (x + z) + 1 \in 1..(x + y) /\ ~((x + z) + 1 <= x) /\ ((x + z) + 1) - x = z + 1
        OBVIOUS
      <4> QED BY <1>3, <2>3, <4>1
    <3>2. ab[(m + k) + 1] = b[k + 1]
      <4>1. \A i \in 1..(m + n) : ~(i <= m) => ab[i] = b[i - m]
        BY <1>3
      <4> QED BY <3>1, <4>1
    <3>3. h[(m + k) + 1] = Cat(Cat(f[m], g[k]), b[k + 1])
      BY <1>7, <2>3, <3>1, <3>2
    <3>4. g[k + 1] = Cat(g[k], b[k + 1]) /\ g[k] \in Seq(S) /\ b[k + 1] \in Seq(S)
      BY <1>2, <1>3, <1>6, <2>3, <3>1
    <3> QED BY <1>8, <2>1, <3>1, <3>3, <3>4
  <2> HIDE DEF T
  <2>4. n \in T
    <3>1. n \in 0..n
      BY <1>3
    <3> QED BY <1>3, <2>2, <2>3, <3>1, Induction
  <2> QED BY <2>4 DEF T
<1> QED BY <1>1, <1>2, <1>4, <1>10 DEF ab, Cat

LEMMA FlattenOne ==
  ASSUME NEW S, NEW s \in Seq(S)
  PROVE  FlattenSeq(<<s>>) = s
<1>1. <<s>> \in Seq(Seq(S)) /\ Len(<<s>>) = 1 /\ <<s>>[1] = s
  OBVIOUS
<1> DEFINE ss == <<s>>
<1> HIDE DEF ss
<1>2. PICK f \in [0..1 -> Seq(S)] : Joins(f, ss) /\ FlattenSeq(ss) = f[1]
  BY <1>1, FlattenIs DEF ss
<1>3. f[0] = <<>> /\ f[0 + 1] = f[0] \o ss[0 + 1]
  <2>1. 0 \in 0..1 /\ 0 < 1
    OBVIOUS
  <2> QED BY <1>1, <1>2, <2>1, Zenon DEF Joins, ss
<1>4. f[1] = <<>> \o s
  <2>1. 0 + 1 = 1
    OBVIOUS
  <2> QED BY <1>1, <1>3, <2>1, Zenon DEF ss
<1> QED BY <1>2, <1>4, ConcatEmptySeq, Zenon DEF ss

LEMMA FlattenNone ==
  ASSUME NEW S, NEW ss \in Seq(Seq(S)), \A i \in 1..Len(ss) : ss[i] = <<>>
  PROVE  FlattenSeq(ss) = <<>>
<1> DEFINE n == Len(ss)
           Cat(x, y) == x \o y
<1>1. PICK f \in [0..n -> Seq(S)] : Joins(f, ss) /\ FlattenSeq(ss) = f[n]
  BY FlattenIs
<1>2. n \in Nat
  BY LenProperties
<1>3. f[0] = <<>> /\ \A k \in 0..n : k < n => f[k + 1] = Cat(f[k], ss[k + 1])
  BY <1>1 DEF Joins
<1>4. Cat(<<>>, <<>>) = <<>>
  OBVIOUS
<1> HIDE DEF n, Cat
<1> DEFINE T == {k \in 0..n : f[k] = <<>>}
<1>5. 0 \in T
  BY <1>2, <1>3
<1>6. ASSUME NEW k \in 0..n, k \in T, k < n PROVE k + 1 \in T
  <2>1. k + 1 \in 1..n /\ k + 1 \in 0..n
    BY <1>2, <1>6
  <2>2. ss[k + 1] = <<>>
    BY <2>1 DEF n
  <2> QED BY <1>3, <1>4, <1>6, <2>1, <2>2
<1> HIDE DEF T
<1>7. n \in T
  <2>1. n \in 0..n
    BY <1>2
  <2> QED BY <1>2, <1>5, <1>6, <2>1, Induction
<1> QED BY <1>1, <1>7 DEF T

(***************************************************************************)
(* Texts without their newlines                                            *)
(***************************************************************************)

\* Of each character what Inked keeps.
Marks(t) == [k \in DOMAIN t |-> IF NewLine(t[k]) THEN <<>> ELSE <<t[k]>>]

LEMMA MarksAre ==
  ASSUME NEW C, NEW t \in Seq(C)
  PROVE  /\ Marks(t) \in Seq(Seq(C)) /\ Len(Marks(t)) = Len(t)
         /\ \A k \in 1..Len(t) :
              Marks(t)[k] = IF NewLine(t[k]) THEN <<>> ELSE <<t[k]>>
         /\ Inked(t) = FlattenSeq(Marks(t)) /\ Inked(t) \in Seq(C)
<1>1. Len(t) \in Nat /\ DOMAIN t = 1..Len(t) /\ \A k \in 1..Len(t) : t[k] \in C
  BY LenProperties
<1>2. ASSUME NEW k \in 1..Len(t)
      PROVE  (IF NewLine(t[k]) THEN <<>> ELSE <<t[k]>>) \in Seq(C)
  <2>1. <<>> \in Seq(C) /\ \A c \in C : <<c>> \in Seq(C)
    BY EmptySeq
  <2> QED BY <1>1, <2>1
<1> DEFINE mark(k) == IF NewLine(t[k]) THEN <<>> ELSE <<t[k]>>
<1>3. Marks(t) = [k \in 1..Len(t) |-> mark(k)]
  BY <1>1 DEF Marks
<1>4. Marks(t) \in Seq(Seq(C)) /\ Len(Marks(t)) = Len(t)
  <2>1. \A k \in 1..Len(t) : mark(k) \in Seq(C)
    BY <1>2
  <2> HIDE DEF mark
  <2>2. Marks(t) \in [1..Len(t) -> Seq(C)]
    BY <1>3, <2>1
  <2> QED BY <1>1, <2>2, LenProperties, IsASeq
<1>5. \A k \in 1..Len(t) : Marks(t)[k] = mark(k)
  <2> HIDE DEF mark
  <2> QED BY <1>3
<1> QED BY <1>4, <1>5, FlattenType DEF Inked, Marks

LEMMA InkedConcat ==
  ASSUME NEW C, NEW a \in Seq(C), NEW b \in Seq(C)
  PROVE  Inked(a \o b) = Inked(a) \o Inked(b)
<1> DEFINE m == Len(a)
           n == Len(b)
           ab == a \o b
           joined == Marks(a) \o Marks(b)
<1>1. /\ m \in Nat /\ n \in Nat /\ ab \in Seq(C) /\ Len(ab) = m + n
      /\ \A k \in 1..(m + n) : ab[k] = IF k <= m THEN a[k] ELSE b[k - m]
  BY LenProperties, ConcatProperties
<1> HIDE DEF ab
<1>2. /\ Marks(a) \in Seq(Seq(C)) /\ Len(Marks(a)) = m
      /\ \A k \in 1..m : Marks(a)[k] = IF NewLine(a[k]) THEN <<>> ELSE <<a[k]>>
  BY MarksAre
<1>3. /\ Marks(b) \in Seq(Seq(C)) /\ Len(Marks(b)) = n
      /\ \A k \in 1..n : Marks(b)[k] = IF NewLine(b[k]) THEN <<>> ELSE <<b[k]>>
  BY MarksAre
<1>4. /\ Marks(ab) \in Seq(Seq(C)) /\ Len(Marks(ab)) = m + n
      /\ \A k \in 1..(m + n) : Marks(ab)[k] = IF NewLine(ab[k]) THEN <<>> ELSE <<ab[k]>>
  BY <1>1, MarksAre
<1>5. /\ joined \in Seq(Seq(C)) /\ Len(joined) = m + n
      /\ \A k \in 1..(m + n) : joined[k] = IF k <= m THEN Marks(a)[k] ELSE Marks(b)[k - m]
  <2> DEFINE x == Marks(a)
             y == Marks(b)
  <2>1. x \in Seq(Seq(C)) /\ y \in Seq(Seq(C)) /\ Len(x) = m /\ Len(y) = n
    BY <1>2, <1>3
  <2> HIDE DEF x, y, m, n
  <2>2. /\ x \o y \in Seq(Seq(C)) /\ Len(x \o y) = m + n
        /\ \A k \in 1..(m + n) : (x \o y)[k] = IF k <= m THEN x[k] ELSE y[k - m]
    BY <2>1, ConcatProperties
  <2> QED BY <2>2 DEF x, y
<1> HIDE DEF m, n, joined
<1>6. \A k \in 1..(m + n) : Marks(ab)[k] = joined[k]
  <2> TAKE k \in 1..(m + n)
  <2>1. k <= m => k \in 1..m
    BY <1>1
  <2>2. ~(k <= m) => k - m \in 1..n
    BY <1>1
  <2> QED BY <1>1, <1>2, <1>3, <1>4, <1>5, <2>1, <2>2
<1>7. Marks(ab) = joined
  BY <1>4, <1>5, <1>6, SeqEqual
<1>8. FlattenSeq(joined) = FlattenSeq(Marks(a)) \o FlattenSeq(Marks(b))
  BY <1>2, <1>3, FlattenConcat DEF joined
<1>9. /\ Inked(a) = FlattenSeq(Marks(a)) /\ Inked(b) = FlattenSeq(Marks(b))
      /\ Inked(ab) = FlattenSeq(Marks(ab))
  BY <1>1, MarksAre
<1> QED BY <1>7, <1>8, <1>9, Zenon DEF ab

LEMMA InkedBlank ==
  ASSUME NEW C, NEW t \in Seq(C), \A k \in 1..Len(t) : NewLine(t[k])
  PROVE  Inked(t) = <<>>
BY MarksAre, FlattenNone

USE FactsAssumption, HeartbeatAssumption, CallersAssumption

(***************************************************************************)
(* The knowledge graph                                                     *)
(***************************************************************************)

Row == [fact : Triples, end : Days \cup {Open}]

\* What a call may be doing when the table has n rows.
CallsOver(n) ==
  {Quiet}
    \cup [act : {"insert"}, fact : Triples, row : {0}, day : {Open}]
    \cup [act : {"found"}, fact : Triples, row : 1..n, day : {Open}]
    \cup [act : {"update"}, fact : Triples, row : 1..n, day : Days]

FactTypes ==
  /\ rows \in Seq(Row)
  /\ call \in [Callers -> CallsOver(Len(rows))]
  /\ ended \in [Callers -> SUBSET (1..Len(rows))]
  /\ overlap \subseteq Triples
  /\ calls \in 0..MaxCalls

Inserts(c) == IF call[c].act = "insert" THEN 1 ELSE 0

\* Every row had a call of its own, and so will those that are on their way.
RowsPaid == Len(rows) + Inserts(Turn) + Inserts(Beat) <= calls

Missed(c, f) == call[c].act = "insert" /\ call[c].fact = f

\* Of a fact that was never missed by two adds at a time there is one active
\* row, or one add that is about to write it, or neither.
Sole(f) ==
  f \notin overlap =>
    /\ \A i, k \in Matches(f) : i = k
    /\ \A c \in Callers : Missed(c, f) =>
         /\ Matches(f) = {}
         /\ \A d \in Callers \ {c} : ~Missed(d, f)

FactsInv ==
  FactTypes /\ RowsPaid /\ AnswersAreActive /\ \A f \in Triples : Sole(f)

LEMMA TwoCallers == Turn \in Callers /\ Beat \in Callers /\ Turn # Beat
BY DEF Turn, Beat

LEMMA CallIs ==
  ASSUME FactTypes, NEW c \in Callers
  PROVE  /\ Len(rows) \in Nat /\ DOMAIN rows = 1..Len(rows)
         /\ \/ call[c] = Quiet
            \/ /\ call[c].act = "insert" /\ call[c].fact \in Triples
               /\ call[c].row = 0 /\ call[c].day = Open
            \/ /\ call[c].act = "found" /\ call[c].fact \in Triples
               /\ call[c].row \in 1..Len(rows) /\ call[c].day = Open
            \/ /\ call[c].act = "update" /\ call[c].fact \in Triples
               /\ call[c].row \in 1..Len(rows) /\ call[c].day \in Days
<1>1. Len(rows) \in Nat /\ DOMAIN rows = 1..Len(rows)
  BY LenProperties DEF FactTypes
<1>2. call[c] \in CallsOver(Len(rows))
  BY DEF FactTypes
<1> QED BY <1>1, <1>2 DEF CallsOver

LEMMA RowsAre ==
  ASSUME FactTypes, NEW i \in DOMAIN rows
  PROVE  rows[i] \in Row
BY LenProperties DEF FactTypes

LEMMA InitFacts == FactsInit => FactsInv
<1> SUFFICES ASSUME FactsInit PROVE FactsInv
  OBVIOUS
<1>1. rows \in Seq(Row) /\ Len(rows) = 0 /\ DOMAIN rows = {}
  <2>1. rows = <<>>
    BY DEF FactsInit
  <2>2. rows \in Seq(Row) /\ Len(rows) = 0
    BY <2>1, EmptySeq
  <2> QED BY <2>2, LenProperties
<1>2. FactTypes
  BY <1>1 DEF FactsInit, FactTypes, CallsOver
<1>3. RowsPaid /\ AnswersAreActive
  BY <1>1, TwoCallers DEF FactsInit, RowsPaid, Inserts, AnswersAreActive, Quiet
<1>4. ASSUME NEW f \in Triples PROVE Sole(f)
  BY <1>1 DEF FactsInit, Sole, Matches, Missed, Quiet
<1> QED BY <1>2, <1>3, <1>4 DEF FactsInv

\* The SELECT of a call.
LEMMA BeginStep ==
  ASSUME FactsInv, NEW c \in Callers, NEW next \in CallsOver(Len(rows)),
         Begin(c, next), overlap' \in SUBSET Triples,
         next.row # 0 => /\ rows[next.row].fact = next.fact
                         /\ rows[next.row].end = Open
  PROVE  FactTypes' /\ RowsPaid' /\ AnswersAreActive'
<1>1. /\ call[c] = Quiet /\ calls < MaxCalls /\ calls' = calls + 1 /\ rows' = rows
      /\ call' = [call EXCEPT ![c] = next]
      /\ ended' = [ended EXCEPT ![c] = {}]
  BY DEF Begin
<1>2. Len(rows) \in Nat
  BY CallIs DEF FactsInv
<1>3. FactTypes'
  BY <1>1 DEF FactsInv, FactTypes
<1>4. RowsPaid'
  <2>1. /\ Inserts(Turn) \in {0, 1} /\ Inserts(Beat) \in {0, 1} /\ Inserts(c) = 0
        /\ Inserts(Turn)' \in {0, 1} /\ Inserts(Beat)' \in {0, 1}
    BY <1>1 DEF Inserts, Quiet
  <2>2. \A d \in Callers \ {c} : Inserts(d)' = Inserts(d)
    BY <1>1 DEF FactsInv, FactTypes, Inserts
  <2>3. Inserts(Turn)' + Inserts(Beat)' <= Inserts(Turn) + Inserts(Beat) + 1
    BY <2>1, <2>2, TwoCallers
  <2>4. \A n, m \in Nat : \A a, b, x, y \in {0, 1} :
          n + a + b <= m /\ x + y <= a + b + 1 => n + x + y <= m + 1
    OBVIOUS
  <2>5. Len(rows) + Inserts(Turn) + Inserts(Beat) <= calls /\ calls \in Nat
    BY DEF FactsInv, RowsPaid, FactTypes
  <2> QED BY <1>1, <1>2, <2>1, <2>3, <2>4, <2>5 DEF RowsPaid
<1>5. AnswersAreActive'
  BY <1>1 DEF FactsInv, FactTypes, AnswersAreActive
<1> QED BY <1>3, <1>4, <1>5

LEMMA AddStep ==
  ASSUME FactsInv, NEW c \in Callers, NEW f \in Triples, Add(c, f)
  PROVE  FactsInv'
<1>1. rows' = rows /\ \A g \in Triples : Matches(g)' = Matches(g)
  BY DEF Add, Begin, Matches
<1>2. CASE Matches(f) = {}
  <2> DEFINE next == [act |-> "insert", fact |-> f, row |-> 0, day |-> Open]
  <2>1. /\ Begin(c, next) /\ next \in CallsOver(Len(rows)) /\ next.row = 0
        /\ overlap' = IF \E d \in Callers : Missed(d, f)
                      THEN overlap \cup {f} ELSE overlap
    BY <1>2 DEF Add, CallsOver, Missed
  <2>2. overlap' \in SUBSET Triples
    BY <2>1 DEF FactsInv, FactTypes
  <2>3. FactTypes' /\ RowsPaid' /\ AnswersAreActive'
    BY <2>1, <2>2, BeginStep
  <2>4. /\ call[c] = Quiet /\ call' = [call EXCEPT ![c] = next]
        /\ call'[c] = next /\ \A d \in Callers \ {c} : call'[d] = call[d]
    BY <2>1 DEF Begin, FactsInv, FactTypes
  <2>5. ASSUME NEW g \in Triples PROVE Sole(g)'
    <3>1. CASE g = f
      BY <1>1, <1>2, <2>1, <2>4, <3>1 DEF FactsInv, Sole, Missed
    <3>2. CASE g # f
      <4>1. \A d \in Callers : Missed(d, g)' = Missed(d, g)
        BY <2>4, <3>2 DEF Missed, Quiet
      <4> QED BY <1>1, <2>1, <3>2, <4>1 DEF FactsInv, Sole
    <3> QED BY <3>1, <3>2
  <2> QED BY <2>3, <2>5 DEF FactsInv
<1>3. CASE Matches(f) # {}
  <2> DEFINE i == CHOOSE i \in Matches(f) : TRUE
             next == [act |-> "found", fact |-> f, row |-> i, day |-> Open]
  <2>1. i \in Matches(f)
    BY <1>3
  <2>2. i \in 1..Len(rows) /\ rows[i].fact = f /\ rows[i].end = Open
    BY <2>1, CallIs DEF Matches, FactsInv
  <2>3. Begin(c, [act |-> "found", fact |-> f, day |-> Open, row |-> i]) /\ overlap' = overlap
    BY <1>3 DEF Add
  <2> HIDE DEF i
  <2>4. /\ Begin(c, next) /\ overlap' = overlap
        /\ next \in CallsOver(Len(rows)) /\ next.row = i /\ next.fact = f
    BY <2>2, <2>3 DEF CallsOver
  <2>5. FactTypes' /\ RowsPaid' /\ AnswersAreActive'
    <3>1. overlap' \in SUBSET Triples
      BY <2>4 DEF FactsInv, FactTypes
    <3> HIDE DEF next
    <3> QED BY <2>2, <2>4, <3>1, BeginStep
  <2>6. \A g \in Triples, d \in Callers : Missed(d, g)' = Missed(d, g)
    BY <2>4 DEF Begin, Missed, Quiet, FactsInv, FactTypes
  <2> QED BY <1>1, <2>4, <2>5, <2>6 DEF FactsInv, Sole
<1> QED BY <1>2, <1>3

LEMMA InvalidateStep ==
  ASSUME FactsInv, NEW c \in Callers, NEW f \in Triples, NEW day \in Days,
         Invalidate(c, f, day)
  PROVE  FactsInv'
<1>1. PICK i \in Matches(f) :
        Begin(c, [act |-> "update", fact |-> f, row |-> i, day |-> day])
  BY DEF Invalidate
<1> DEFINE next == [act |-> "update", fact |-> f, row |-> i, day |-> day]
<1>2. i \in 1..Len(rows) /\ rows[i].fact = f /\ rows[i].end = Open
  BY CallIs DEF Matches, FactsInv
<1>3. /\ Begin(c, next) /\ overlap' = overlap /\ rows' = rows
      /\ next \in CallsOver(Len(rows)) /\ next.row = i /\ next.fact = f
  BY <1>1, <1>2 DEF Invalidate, Begin, CallsOver
<1>4. FactTypes' /\ RowsPaid' /\ AnswersAreActive'
  <2>1. overlap' \in SUBSET Triples
    BY <1>3 DEF FactsInv, FactTypes
  <2> HIDE DEF next
  <2> QED BY <1>2, <1>3, <2>1, BeginStep
<1>5. \A g \in Triples, d \in Callers : Missed(d, g)' = Missed(d, g)
  BY <1>3 DEF Begin, Missed, Quiet, FactsInv, FactTypes
<1>6. \A g \in Triples : Matches(g)' = Matches(g)
  BY <1>3 DEF Matches
<1> QED BY <1>3, <1>4, <1>5, <1>6 DEF FactsInv, Sole

\* Calls that end without having written, one of them or, in a restart, all.
LEMMA QuietStep ==
  ASSUME FactsInv, UNCHANGED <<rows, overlap, calls>>,
         call' \in [Callers -> CallsOver(Len(rows))],
         ended' \in [Callers -> SUBSET (1..Len(rows))],
         \A d \in Callers : \/ call'[d] = Quiet
                            \/ call'[d] = call[d] /\ ended'[d] = ended[d]
  PROVE  FactsInv'
<1>1. FactTypes'
  BY DEF FactsInv, FactTypes
<1>2. RowsPaid'
  <2>1. \A d \in Callers : Inserts(d)' \in {0, Inserts(d)}
    BY DEF Inserts, Quiet
  <2>2. Inserts(Turn) \in {0, 1} /\ Inserts(Beat) \in {0, 1}
    BY DEF Inserts
  <2>3. Len(rows) \in Nat /\ calls \in Nat
    BY TwoCallers, CallIs DEF FactsInv, FactTypes
  <2>4. \A n, m \in Nat : \A a, b \in {0, 1} : \A x \in {0, a}, y \in {0, b} :
          n + a + b <= m => n + x + y <= m
    OBVIOUS
  <2> QED BY <2>1, <2>2, <2>3, <2>4, TwoCallers DEF FactsInv, RowsPaid
<1>3. AnswersAreActive'
  BY DEF FactsInv, AnswersAreActive, Quiet
<1>4. \A g \in Triples, d \in Callers : Missed(d, g)' => Missed(d, g)
  BY DEF Missed, Quiet
<1>5. \A g \in Triples : Matches(g)' = Matches(g)
  BY DEF Matches
<1> QED BY <1>1, <1>2, <1>3, <1>4, <1>5 DEF FactsInv, Sole

LEMMA FailStep ==
  ASSUME FactsInv, NEW c \in Callers, CallFails(c)
  PROVE  FactsInv'
<1>1. /\ UNCHANGED <<rows, overlap, calls>>
      /\ call' = [call EXCEPT ![c] = Quiet]
      /\ ended' = [ended EXCEPT ![c] = {}]
  BY DEF CallFails
<1>2. call \in [Callers -> CallsOver(Len(rows))] /\ Quiet \in CallsOver(Len(rows))
  BY DEF FactsInv, FactTypes, CallsOver
<1>3. ended \in [Callers -> SUBSET (1..Len(rows))]
  BY DEF FactsInv, FactTypes
<1> QED BY <1>1, <1>2, <1>3, QuietStep

LEMMA RestartStep ==
  ASSUME FactsInv, Restart
  PROVE  FactsInv'
<1>1. Quiet \in CallsOver(Len(rows))
  BY DEF CallsOver
<1> QED BY <1>1, QuietStep DEF Restart

\* The commit of a call: the table has one row more, or one that has ended.
LEMMA CommitTable ==
  ASSUME FactsInv, NEW c \in Callers, Commit(c)
  PROVE  /\ rows' \in Seq(Row) /\ Len(rows') \in Nat
         /\ CASE call[c].act = "insert" ->
                   /\ Len(rows') = Len(rows) + 1
                   /\ \A i \in 1..Len(rows) : rows'[i] = rows[i]
                   /\ rows'[Len(rows')] = [fact |-> call[c].fact, end |-> Open]
              [] call[c].act = "update" ->
                   /\ Len(rows') = Len(rows)
                   /\ \A i \in 1..Len(rows) : i # call[c].row => rows'[i] = rows[i]
                   /\ rows'[call[c].row].fact = rows[call[c].row].fact
                   /\ rows'[call[c].row].end = call[c].day
              [] OTHER -> rows' = rows
<1>1. rows \in Seq(Row) /\ Len(rows) \in Nat /\ call[c] # Quiet
  BY CallIs DEF FactsInv, FactTypes, Commit
<1>2. CASE call[c].act = "insert"
  <2> DEFINE row == [fact |-> call[c].fact, end |-> Open]
  <2>1. row \in Row
    BY <1>1, <1>2, CallIs DEF FactsInv, Row, Quiet
  <2>2. rows' = Append(rows, row)
    BY <1>2 DEF Commit
  <2> HIDE DEF row
  <2>3. /\ rows' \in Seq(Row) /\ Len(rows') = Len(rows) + 1
        /\ \A i \in 1..Len(rows) : rows'[i] = rows[i]
        /\ rows'[Len(rows) + 1] = row
    BY <1>1, <2>1, <2>2, AppendProperties
  <2>4. Len(rows') \in Nat /\ rows'[Len(rows')] = row
    BY <1>1, <2>3
  <2> QED BY <1>2, <2>3, <2>4 DEF row
<1>3. CASE call[c].act = "update"
  <2> DEFINE r == call[c].row
             row == [rows[r] EXCEPT !.end = call[c].day]
  <2>1. r \in 1..Len(rows) /\ call[c].day \in Days
    BY <1>1, <1>3, CallIs DEF FactsInv, Quiet
  <2>2. rows[r] \in Row
    BY <1>1, <2>1, ElementOfSeq
  <2>3. row \in Row /\ row.fact = rows[r].fact /\ row.end = call[c].day
    BY <2>1, <2>2 DEF Row
  <2>4. rows' = [rows EXCEPT ![r] = row]
    BY <1>3 DEF Commit
  <2> HIDE DEF row, r
  <2>5. /\ rows' \in Seq(Row) /\ Len(rows') = Len(rows)
        /\ \A i \in 1..Len(rows) : rows'[i] = IF i = r THEN row ELSE rows[i]
    BY <1>1, <2>1, <2>3, <2>4, ExceptSeq
  <2> QED BY <1>1, <1>3, <2>1, <2>3, <2>5 DEF r
<1>4. CASE call[c].act \notin {"insert", "update"}
  <2>1. rows' = rows
    BY <1>4 DEF Commit
  <2> QED BY <1>1, <1>4, <2>1
<1> QED BY <1>2, <1>3, <1>4

\* Of the rows of g none becomes active, but the one an insert of g writes.
LEMMA CommitMatches ==
  ASSUME FactsInv, NEW c \in Callers, Commit(c), NEW g \in Triples
  PROVE  IF Missed(c, g) THEN Matches(g)' = Matches(g) \cup {Len(rows')}
                         ELSE Matches(g)' \subseteq Matches(g)
<1> DEFINE n == Len(rows)
<1>1. /\ n \in Nat /\ DOMAIN rows = 1..n
      /\ rows' \in Seq(Row) /\ Len(rows') \in Nat /\ DOMAIN rows' = 1..Len(rows')
  BY CallIs, CommitTable, LenProperties DEF FactsInv
<1>2. CASE call[c].act = "insert"
  <2>1. /\ Len(rows') = n + 1 /\ \A i \in 1..n : rows'[i] = rows[i]
        /\ rows'[Len(rows')] = [fact |-> call[c].fact, end |-> Open]
    BY <1>2, CommitTable
  <2> HIDE DEF n
  <2>2. \A i \in 1..(n + 1) : i \in 1..n \/ i = n + 1
    BY <1>1
  <2>3. 1..n \subseteq 1..(n + 1) /\ n + 1 \in 1..(n + 1)
    BY <1>1
  <2> QED BY <1>1, <1>2, <2>1, <2>2, <2>3 DEF Matches, Missed
<1>3. CASE call[c].act = "update"
  <2>1. /\ Len(rows') = n
        /\ \A i \in 1..n : i # call[c].row => rows'[i] = rows[i]
        /\ rows'[call[c].row].end = call[c].day
    BY <1>3, CommitTable
  <2>2. call[c].day # Open
    BY <1>3, CallIs DEF FactsInv, Quiet, Open
  <2> HIDE DEF n
  <2> QED BY <1>1, <1>3, <2>1, <2>2 DEF Matches, Missed
<1>4. CASE call[c].act \notin {"insert", "update"}
  BY <1>4, CommitTable DEF Matches, Missed
<1> QED BY <1>2, <1>3, <1>4

LEMMA CommitStep ==
  ASSUME FactsInv, NEW c \in Callers, Commit(c)
  PROVE  FactsInv'
<1> DEFINE n == Len(rows)
           m == Len(rows')
<1>1. /\ n \in Nat /\ m \in Nat /\ DOMAIN rows = 1..n
      /\ rows' \in Seq(Row)
      /\ call[c] # Quiet /\ overlap' = overlap /\ calls' = calls
      /\ call' = [call EXCEPT ![c] = Quiet]
      /\ call'[c] = Quiet /\ \A d \in Callers \ {c} : call'[d] = call[d]
  BY CallIs, CommitTable DEF FactsInv, FactTypes, Commit
<1>2. m = n + Inserts(c)
  BY <1>1, CommitTable DEF Inserts
<1>3. 1..n \subseteq 1..m /\ CallsOver(n) \subseteq CallsOver(m)
  <2>1. 1..n \subseteq 1..m
    <3>1. Inserts(c) \in {0, 1}
      BY DEF Inserts
    <3> HIDE DEF n, m
    <3> QED BY <1>1, <1>2, <3>1
  <2> HIDE DEF n, m
  <2> QED BY <2>1 DEF CallsOver
<1>4. FactTypes'
  <2>1. call' \in [Callers -> CallsOver(m)]
    <3>1. Quiet \in CallsOver(m)
      BY DEF CallsOver
    <3> QED BY <1>1, <1>3, <3>1 DEF FactsInv, FactTypes
  <2>2. call[c].act = "update" => call[c].row \in 1..n
    BY <1>1, CallIs DEF FactsInv
  <2>3. ended' \in [Callers -> SUBSET (1..m)]
    BY <1>1, <1>3, <2>2 DEF Commit, FactsInv, FactTypes
  <2> QED BY <1>1, <2>1, <2>3 DEF FactsInv, FactTypes
<1>5. RowsPaid'
  <2>1. /\ Inserts(c)' = 0 /\ \A d \in Callers \ {c} : Inserts(d)' = Inserts(d)
    BY <1>1 DEF Inserts, Quiet
  <2>2. Inserts(Turn) \in {0, 1} /\ Inserts(Beat) \in {0, 1}
    BY DEF Inserts
  <2>3. n + Inserts(Turn) + Inserts(Beat) <= calls /\ c \in {Turn, Beat}
    BY DEF FactsInv, RowsPaid
  <2>4. m + Inserts(Turn)' + Inserts(Beat)' <= calls
    <3> HIDE DEF n, m
    <3>1. calls \in Nat
      BY DEF FactsInv, FactTypes
    <3>2. \A k, l \in Nat : \A a, b \in {0, 1} : k + a + b <= l =>
            /\ (k + a) + 0 + b <= l
            /\ (k + b) + a + 0 <= l
      OBVIOUS
    <3>3. CASE c = Turn
      BY <1>1, <1>2, <2>1, <2>2, <2>3, <3>1, <3>2, <3>3, TwoCallers
    <3>4. CASE c = Beat
      BY <1>1, <1>2, <2>1, <2>2, <2>3, <3>1, <3>2, <3>4, TwoCallers
    <3> QED BY <2>3, <3>3, <3>4
  <2> QED BY <1>1, <2>4 DEF RowsPaid
<1>6. AnswersAreActive'
  <2> SUFFICES ASSUME NEW d \in Callers, call'[d].row # 0
               PROVE  /\ rows'[call'[d].row].fact = call'[d].fact
                      /\ rows'[call'[d].row].end = Open \/ call'[d].row \in ended'[d]
    BY DEF AnswersAreActive
  <2> DEFINE r == call[d].row
  <2>1. d # c /\ call'[d] = call[d] /\ call[d] # Quiet
    BY <1>1 DEF Quiet
  <2>2. /\ rows[r].fact = call[d].fact
        /\ rows[r].end = Open \/ r \in ended[d]
    BY <2>1 DEF FactsInv, AnswersAreActive
  <2>3. r \in 1..n
    BY <2>1, CallIs DEF FactsInv
  <2>4. ended'[d] = IF call[c].act = "update" THEN ended[d] \cup {call[c].row} ELSE ended[d]
    BY <2>1 DEF Commit
  <2>5. /\ rows'[r].fact = rows[r].fact
        /\ rows'[r].end = rows[r].end \/ (call[c].act = "update" /\ r = call[c].row)
    <3>1. CASE call[c].act = "insert"
      BY <3>1, <2>3, CommitTable
    <3>2. CASE call[c].act = "update"
      BY <3>2, <2>3, CommitTable
    <3>3. CASE call[c].act \notin {"insert", "update"}
      BY <3>3, CommitTable
    <3> QED BY <3>1, <3>2, <3>3
  <2> QED BY <2>1, <2>2, <2>4, <2>5
<1>7. ASSUME NEW g \in Triples PROVE Sole(g)'
  <2> SUFFICES ASSUME g \notin overlap
               PROVE  /\ \A i, k \in Matches(g)' : i = k
                      /\ \A d \in Callers : Missed(d, g)' =>
                           /\ Matches(g)' = {}
                           /\ \A e \in Callers \ {d} : ~Missed(e, g)'
    BY <1>1 DEF Sole
  <2>1. /\ \A i, k \in Matches(g) : i = k
        /\ \A d \in Callers : Missed(d, g) =>
             /\ Matches(g) = {}
             /\ \A e \in Callers \ {d} : ~Missed(e, g)
    BY DEF FactsInv, Sole
  <2>2. /\ ~Missed(c, g)'
        /\ \A d \in Callers \ {c} : Missed(d, g)' = Missed(d, g)
    BY <1>1 DEF Missed, Quiet
  <2>3. CASE Missed(c, g)
    <3>1. Matches(g)' = {Len(rows')}
      BY <2>1, <2>3, CommitMatches
    <3> QED BY <2>1, <2>2, <2>3, <3>1
  <2>4. CASE ~Missed(c, g)
    <3>1. Matches(g)' \subseteq Matches(g)
      BY <2>4, CommitMatches
    <3> QED BY <2>1, <2>2, <3>1
  <2> QED BY <2>3, <2>4
<1> QED BY <1>4, <1>5, <1>6, <1>7 DEF FactsInv

LEMMA FactsStep == FactsInv /\ [Next]_vars => FactsInv'
<1> SUFFICES ASSUME FactsInv, [Next]_vars PROVE FactsInv'
  OBVIOUS
<1>1. CASE Heartbeats \/ UNCHANGED vars
  <2>1. UNCHANGED factVars
    BY <1>1 DEF Heartbeats, vars
  <2>2. UNCHANGED <<rows, call, ended, overlap, calls>>
    BY <2>1 DEF factVars
  <2>3. FactTypes' /\ RowsPaid' /\ AnswersAreActive'
    BY <2>2 DEF FactsInv, FactTypes, RowsPaid, Inserts, AnswersAreActive
  <2>4. \A f \in Triples : Sole(f)'
    BY <2>2 DEF FactsInv, Sole, Matches, Missed
  <2> QED BY <2>3, <2>4 DEF FactsInv
<1>2. ASSUME NEW c \in Callers, Works(c) PROVE FactsInv'
  BY <1>2, AddStep, InvalidateStep, FailStep, CommitStep DEF Works, FactStep
<1> QED BY <1>1, <1>2, RestartStep DEF Next

\* What the knowledge graph answers is true, and its facts are there once
\* unless two sessions missed them at the same time.
THEOREM GraphIsConsistent == Spec => []FactsConsistent
<1>1. Init => FactsInv
  BY InitFacts DEF Init
<1>2. FactsInv => FactsConsistent
  <2> SUFFICES ASSUME FactsInv PROVE FactsConsistent
    OBVIOUS
  <2>1. Len(rows) \in Nat /\ DOMAIN rows = 1..Len(rows)
    BY TwoCallers, CallIs DEF FactsInv
  <2>2. Len(rows) <= calls
    <3>1. Inserts(Turn) \in {0, 1} /\ Inserts(Beat) \in {0, 1} /\ calls \in Nat
      BY DEF Inserts, FactsInv, FactTypes
    <3>2. \A n, m \in Nat : \A a, b \in {0, 1} : n + a + b <= m => n <= m
      OBVIOUS
    <3> QED BY <2>1, <3>1, <3>2 DEF FactsInv, RowsPaid
  <2>3. \A i \in DOMAIN rows : rows[i].fact \in Triples /\ rows[i].end \in Days \cup {Open}
    BY RowsAre DEF FactsInv, Row
  <2>4. \A c \in Callers :
          /\ call[c].act \in {"none", "insert", "found", "update"}
          /\ call[c].row \in 0..Len(rows) /\ call[c].day \in Days \cup {Open}
          /\ ended[c] \subseteq DOMAIN rows
    BY <2>1, CallIs DEF FactsInv, FactTypes, Quiet
  <2>5. FactsTypeOK
    BY <2>2, <2>3, <2>4 DEF FactsInv, FactTypes, FactsTypeOK
  <2>6. ASSUME NEW f \in Triples, f \notin overlap PROVE ~Ambiguous(f)
    <3>1. \A i, k \in Matches(f) : i = k
      BY <2>6 DEF FactsInv, Sole
    <3>2. CASE Matches(f) = {}
      BY <3>2, FS_EmptySet DEF Ambiguous
    <3>3. CASE Matches(f) # {}
      <4>1. PICK i \in Matches(f) : Matches(f) = {i}
        BY <3>1, <3>3
      <4>2. Cardinality(Matches(f)) = 1
        BY <4>1, FS_Singleton
      <4> QED BY <4>2 DEF Ambiguous
    <3> QED BY <3>2, <3>3
  <2> QED BY <2>5, <2>6 DEF FactsInv, FactsConsistent, DuplicatesNeedOverlap
<1> QED BY <1>1, <1>2, FactsStep, PTL DEF Spec

(***************************************************************************)
(* The chunks of a message                                                 *)
(***************************************************************************)

\* One step of Chunked, and the positions it goes on from.
From(t, f, i) ==
  IF i > Len(t) THEN <<>>
  ELSE IF Len(t) - i < MaxLen THEN <<SubSeq(t, i, Len(t))>>
  ELSE LET end == i + Cut(t, i) IN <<SubSeq(t, i, end - 1)>> \o f[SkipLines(t, end)]

LEMMA ChunkedIs ==
  ASSUME NEW t
  PROVE  Chunked(t) = (CHOOSE f : f = [i \in 1..(Len(t) + 1) |-> From(t, f, i)])[1]
BY DEF Chunked, From

LEMMA CutIs ==
  ASSUME NEW t, NEW i \in Nat
  PROVE  Cut(t, i) \in 1..MaxLen
<1> DEFINE breaks == {p \in (i + 1)..(i + MaxLen - 1) : NewLine(t[p])}
<1>1. CASE breaks = {}
  BY <1>1 DEF Cut
<1>2. CASE breaks # {}
  <2>1. \E p \in breaks : \A q \in breaks : q <= p
    <3>1. breaks \subseteq (i + 1)..(i + MaxLen - 1) /\ i + 1 \in Nat /\ i + MaxLen - 1 \in Nat
      OBVIOUS
    <3> HIDE DEF breaks
    <3> QED BY <3>1, <1>2, Largest
  <2> DEFINE p == CHOOSE p \in breaks : \A q \in breaks : q <= p
  <2>2. p \in breaks
    BY <2>1
  <2>3. Cut(t, i) = p - i
    BY <1>2 DEF Cut
  <2>4. p \in (i + 1)..(i + MaxLen - 1)
    BY <2>2
  <2> HIDE DEF p
  <2> QED BY <2>3, <2>4
<1> QED BY <1>1, <1>2

LEMMA SkipLinesIs ==
  ASSUME NEW t, Len(t) \in Nat, NEW i \in 1..(Len(t) + 1)
  PROVE  /\ SkipLines(t, i) \in i..(Len(t) + 1)
         /\ \A k \in i..(SkipLines(t, i) - 1) : NewLine(t[k])
<1> DEFINE n == Len(t) + 1
           Stop(j) == j = n \/ ~NewLine(t[j])
           J == {j \in i..n : Stop(j)}
<1>1. n \in J /\ J \subseteq Nat
  OBVIOUS
<1>2. PICK j \in J : \A k \in J : j <= k
  <2> HIDE DEF J
  <2> QED BY <1>1, Least
<1>3. \A k \in i..(j - 1) : NewLine(t[k])
  <2> SUFFICES ASSUME NEW k \in i..(j - 1) PROVE NewLine(t[k])
    OBVIOUS
  <2>1. k \in i..n /\ ~(j <= k) /\ k # n
    OBVIOUS
  <2> QED BY <1>2, <2>1
<1>4. j \in i..n /\ (j <= Len(t) => ~NewLine(t[j]))
  OBVIOUS
<1>5. \E x \in i..n : /\ \A k \in i..(x - 1) : NewLine(t[k])
                      /\ x <= Len(t) => ~NewLine(t[x])
  BY <1>3, <1>4
<1> QED BY <1>5 DEF SkipLines

\* Chunked goes forward: a step only asks for positions beyond its own.
LEMMA FromIs ==
  ASSUME NEW C, NEW t \in Seq(C), NEW i \in 1..(Len(t) + 1), NEW f,
         \A k \in (i + 1)..(Len(t) + 1) : f[k] \in Seq(Seq(C))
  PROVE  /\ From(t, f, i) \in Seq(Seq(C))
         /\ i <= Len(t) => From(t, f, i) # <<>>
         /\ \A g : (\A k \in (i + 1)..(Len(t) + 1) : g[k] = f[k])
                     => From(t, g, i) = From(t, f, i)
<1> DEFINE n == Len(t)
           end == i + Cut(t, i)
<1>1. n \in Nat /\ i \in Nat /\ Cut(t, i) \in 1..MaxLen
  BY LenProperties, CutIs
<1>2. CASE i > n
  BY <1>1, <1>2, EmptySeq DEF From
<1>3. CASE i <= n /\ n - i < MaxLen
  <2>1. SubSeq(t, i, n) \in Seq(C)
    BY <1>1, <1>3, SubSeqProperties
  <2> QED BY <1>1, <1>3, <2>1 DEF From
<1>4. CASE i <= n /\ ~(n - i < MaxLen)
  <2>1. end \in (i + 1)..n
    BY <1>1, <1>4
  <2>2. SubSeq(t, i, end - 1) \in Seq(C)
    BY <1>1, <2>1, SubSeqProperties
  <2>3. SkipLines(t, end) \in end..(n + 1)
    <3>1. end \in 1..(Len(t) + 1) /\ Len(t) \in Nat
      BY <1>1, <2>1
    <3> HIDE DEF end
    <3> QED BY <3>1, SkipLinesIs
  <2>4. SkipLines(t, end) \in (i + 1)..(n + 1)
    BY <1>1, <2>1, <2>3
  <2>5. f[SkipLines(t, end)] \in Seq(Seq(C))
    BY <2>4
  <2>6. /\ From(t, f, i) = <<SubSeq(t, i, end - 1)>> \o f[SkipLines(t, end)]
        /\ \A g : From(t, g, i) = <<SubSeq(t, i, end - 1)>> \o g[SkipLines(t, end)]
    <3>1. ~(i > Len(t)) /\ ~(Len(t) - i < MaxLen)
      BY <1>1, <1>4
    <3> QED BY <3>1, Zenon DEF From
  <2> HIDE DEF end, n
  <2>7. /\ <<SubSeq(t, i, end - 1)>> \in Seq(Seq(C))
        /\ Len(<<SubSeq(t, i, end - 1)>>) = 1
    BY <2>2
  <2>8. /\ From(t, f, i) \in Seq(Seq(C))
        /\ Len(From(t, f, i)) = 1 + Len(f[SkipLines(t, end)])
    BY <2>5, <2>6, <2>7, ConcatProperties
  <2>9. From(t, f, i) # <<>>
    <3>1. Len(f[SkipLines(t, end)]) \in Nat
      BY <2>5, LenProperties
    <3> QED BY <2>8, <3>1, EmptySeq
  <2> QED BY <2>4, <2>6, <2>8, <2>9 DEF n
<1> QED BY <1>1, <1>2, <1>3, <1>4

\* The recursion has a solution.
LEMMA ChunksExist ==
  ASSUME NEW C, NEW t \in Seq(C)
  PROVE  \E f : f = [i \in 1..(Len(t) + 1) |-> From(t, f, i)]
<1> DEFINE N == Len(t) + 1
           X == Seq(Seq(C))
           Solves(g, k) == \A i \in k..N : g[i] = From(t, g, i)
           T == {k \in 1..(N + 1) : \E g \in [1..N -> X] : Solves(g, k)}
<1>1. N \in Nat /\ N >= 1
  BY LenProperties
<1>2. N + 1 \in T
  <2> DEFINE g == [i \in 1..N |-> <<>>]
  <2>1. g \in [1..N -> X] /\ N + 1 \in 1..(N + 1)
    BY <1>1, EmptySeq
  <2>2. Solves(g, N + 1)
    <3>1. (N + 1)..N = {}
      BY <1>1
    <3> HIDE DEF N, g
    <3> QED BY <3>1
  <2> HIDE DEF N, g, X, Solves
  <2> QED BY <2>1, <2>2
<1>3. ASSUME NEW k \in 1..N, k + 1 \in T PROVE k \in T
  <2>1. PICK g \in [1..N -> X] : Solves(g, k + 1)
    BY <1>3
  <2> DEFINE h == [g EXCEPT ![k] = From(t, g, k)]
  <2>2. From(t, g, k) \in X
    BY <2>1, FromIs
  <2>3. /\ h \in [1..N -> X] /\ h[k] = From(t, g, k)
        /\ \A i \in (k + 1)..N : h[i] = g[i]
    BY <1>1, <2>1, <2>2
  <2> HIDE DEF h
  <2>4. ASSUME NEW i \in k..N PROVE h[i] = From(t, h, i)
    <3>1. i \in 1..(Len(t) + 1) /\ \A j \in (i + 1)..N : j \in (k + 1)..N /\ j \in 1..N
      BY <1>1
    <3>2. From(t, h, i) = From(t, g, i)
      <4>1. \A j \in (i + 1)..(Len(t) + 1) : h[j] = g[j] /\ g[j] \in Seq(Seq(C))
        BY <2>1, <2>3, <3>1
      <4> QED BY <3>1, <4>1, FromIs
    <3>3. CASE i = k
      BY <2>3, <3>2, <3>3
    <3>4. CASE i # k
      <4>1. i \in (k + 1)..N
        BY <1>1, <3>4
      <4> QED BY <2>1, <2>3, <3>2, <4>1
    <3> QED BY <3>3, <3>4
  <2>5. Solves(h, k) /\ k \in 1..(N + 1)
    BY <1>1, <2>4
  <2> QED BY <2>3, <2>5
<1>4. PICK m \in T : \A k \in T : m <= k
  <2>1. T \subseteq 1..(N + 1) /\ 1..(N + 1) \subseteq Nat
    <3> HIDE DEF N, X, Solves
    <3> QED BY <1>1
  <2> HIDE DEF T
  <2>2. T \subseteq Nat /\ T # {}
    BY <1>2, <2>1
  <2> QED BY <2>2, Least
<1>5. m = 1
  <2> SUFFICES ASSUME m # 1 PROVE FALSE
    OBVIOUS
  <2>1. m - 1 \in 1..N /\ (m - 1) + 1 = m /\ ~(m <= m - 1)
    BY <1>1
  <2> HIDE DEF T
  <2>2. m - 1 \in T
    BY <1>3, <2>1
  <2> QED BY <1>4, <2>1, <2>2
<1>6. PICK g \in [1..N -> X] : Solves(g, 1)
  BY <1>5
<1>7. g = [i \in 1..N |-> From(t, g, i)]
  BY <1>6
<1> QED BY <1>7

\* The chunks of t from position i on: they fit, and have all of its ink.
Makes(C, t, i, cs) ==
  /\ cs \in Seq(Seq(C))
  /\ \A k \in 1..Len(cs) : Len(cs[k]) \in 1..MaxLen
  /\ Inked(FlattenSeq(cs)) = Inked(SubSeq(t, i, Len(t)))

LEMMA FromMakes ==
  ASSUME NEW C, NEW t \in Seq(C), NEW i \in 1..(Len(t) + 1), NEW f,
         \A k \in (i + 1)..(Len(t) + 1) : Makes(C, t, k, f[k])
  PROVE  Makes(C, t, i, From(t, f, i))
<1> DEFINE n == Len(t)
           end == i + Cut(t, i)
<1>1. n \in Nat /\ i \in Nat /\ Cut(t, i) \in 1..MaxLen
  BY LenProperties, CutIs
<1>2. CASE i > n
  <2>1. From(t, f, i) = <<>> /\ <<>> \in Seq(Seq(C)) /\ Len(<<>>) = 0
    BY <1>2, EmptySeq DEF From
  <2>2. FlattenSeq(<<>>) = <<>>
    BY <2>1 DEF FlattenSeq
  <2>3. SubSeq(t, i, n) = <<>>
    BY <1>1, <1>2, SubSeqEmpty
  <2> QED BY <2>1, <2>2, <2>3 DEF Makes
<1>3. CASE i <= n /\ n - i < MaxLen
  <2> DEFINE rest == SubSeq(t, i, n)
  <2>1. rest \in Seq(C) /\ Len(rest) = n - i + 1
    BY <1>1, <1>3, SubSeqProperties
  <2>2. From(t, f, i) = <<rest>>
    BY <1>1, <1>3 DEF From
  <2>3. Len(rest) \in 1..MaxLen
    BY <1>1, <1>3, <2>1
  <2> HIDE DEF rest
  <2>4. FlattenSeq(<<rest>>) = rest
    BY <2>1, FlattenOne
  <2>5. <<rest>> \in Seq(Seq(C)) /\ \A k \in 1..Len(<<rest>>) : Len(<<rest>>[k]) \in 1..MaxLen
    BY <2>1, <2>3
  <2> QED BY <2>2, <2>4, <2>5 DEF Makes, rest
<1>4. CASE i <= n /\ ~(n - i < MaxLen)
  <2> DEFINE j == SkipLines(t, end)
             head == SubSeq(t, i, end - 1)
             gap == SubSeq(t, end, j - 1)
             rest == SubSeq(t, j, n)
  <2>1. end \in (i + 1)..n
    BY <1>1, <1>4
  <2>2. j \in end..(n + 1) /\ \A k \in end..(j - 1) : NewLine(t[k])
    <3>1. end \in 1..(Len(t) + 1) /\ Len(t) \in Nat
      BY <1>1, <2>1
    <3> HIDE DEF end
    <3> QED BY <3>1, SkipLinesIs
  <2>3. From(t, f, i) = <<head>> \o f[j]
    <3>1. ~(i > Len(t)) /\ ~(Len(t) - i < MaxLen)
      BY <1>1, <1>4
    <3> QED BY <3>1, Zenon DEF From
  <2>4. head \in Seq(C) /\ Len(head) \in 1..MaxLen
    <3>1. head \in Seq(C) /\ Len(head) = end - 1 - i + 1
      BY <1>1, <2>1, SubSeqProperties
    <3>2. end - 1 - i + 1 = Cut(t, i)
      BY <1>1
    <3> QED BY <1>1, <3>1, <3>2
  <2> HIDE DEF end, j
  <2>5. /\ j \in (i + 1)..(n + 1) /\ end \in 1..(n + 1) /\ j - 1 \in (end - 1)..n
        /\ end - 1 \in (i - 1)..n /\ i \in 1..(n + 1) /\ n \in (end - 1)..n /\ n \in (j - 1)..n
        /\ (j - 1) + 1 = j /\ (end - 1) + 1 = end
    BY <1>1, <1>4, <2>1, <2>2
  <2>6. /\ gap \in Seq(C) /\ rest \in Seq(C)
        /\ \A k \in 1..Len(gap) : NewLine(gap[k])
    <3>1. /\ gap \in Seq(C) /\ Len(gap) = IF end <= j - 1 THEN (j - 1) - end + 1 ELSE 0
          /\ \A k \in 1..((j - 1) - end + 1) : gap[k] = t[end + k - 1]
      <4>1. end \in Int /\ j - 1 \in Int /\ \A k \in end..(j - 1) : t[k] \in C
        BY <1>1, <2>1, <2>5
      <4> QED BY <4>1, SubSeqProperties
    <3>2. rest \in Seq(C)
      <4>1. j \in Int /\ n \in Int /\ \A k \in j..n : t[k] \in C
        BY <1>1, <2>1, <2>5
      <4> QED BY <4>1, SubSeqProperties
    <3>3. ASSUME NEW k \in 1..Len(gap) PROVE NewLine(gap[k])
      <4>1. /\ k \in 1..((j - 1) - end + 1) /\ end + k - 1 \in end..(j - 1)
        BY <2>1, <2>5, <3>1
      <4> QED BY <2>2, <3>1, <4>1
    <3> QED BY <3>1, <3>2, <3>3
  <2>7. SubSeq(t, i, n) = head \o (gap \o rest)
    <3>1. gap \o rest = SubSeq(t, end, n)
      BY <2>5, ConcatAdjacentSubSeq
    <3>2. head \o SubSeq(t, end, n) = SubSeq(t, i, n)
      BY <2>5, ConcatAdjacentSubSeq
    <3> QED BY <3>1, <3>2
  <2> HIDE DEF head, gap, rest
  <2>8. Inked(SubSeq(t, i, n)) = Inked(head) \o Inked(rest)
    <3>1. gap \o rest \in Seq(C)
      BY <2>6, ConcatProperties
    <3>2. Inked(head \o (gap \o rest)) = Inked(head) \o Inked(gap \o rest)
      BY <2>4, <3>1, InkedConcat
    <3>3. Inked(gap \o rest) = Inked(gap) \o Inked(rest)
      BY <2>6, InkedConcat
    <3>4. Inked(gap) = <<>> /\ Inked(rest) \in Seq(C)
      BY <2>6, InkedBlank, MarksAre
    <3>5. <<>> \o Inked(rest) = Inked(rest)
      BY <3>4, ConcatEmptySeq
    <3> QED BY <2>7, <3>2, <3>3, <3>4, <3>5, Zenon
  <2>9. Makes(C, t, j, f[j])
    BY <2>5
  <2> DEFINE cs == f[j]
  <2>10. /\ cs \in Seq(Seq(C)) /\ Len(cs) \in Nat
         /\ \A k \in 1..Len(cs) : Len(cs[k]) \in 1..MaxLen
         /\ Inked(FlattenSeq(cs)) = Inked(rest)
    BY <2>9, LenProperties DEF Makes, rest
  <2> HIDE DEF cs
  <2>11. <<head>> \in Seq(Seq(C)) /\ Len(<<head>>) = 1 /\ <<head>>[1] = head
    BY <2>4
  <2>12. /\ <<head>> \o cs \in Seq(Seq(C)) /\ Len(<<head>> \o cs) = 1 + Len(cs)
         /\ \A k \in 1..(1 + Len(cs)) :
              (<<head>> \o cs)[k] = IF k <= 1 THEN <<head>>[k] ELSE cs[k - 1]
    BY <2>10, <2>11, ConcatProperties
  <2>13. \A k \in 1..Len(<<head>> \o cs) : Len((<<head>> \o cs)[k]) \in 1..MaxLen
    <3> TAKE k \in 1..Len(<<head>> \o cs)
    <3>1. k \in 1..(1 + Len(cs))
      BY <2>12
    <3>2. CASE k = 1
      BY <2>4, <2>11, <2>12, <3>1, <3>2
    <3>3. CASE k # 1
      <4>1. k - 1 \in 1..Len(cs) /\ ~(k <= 1)
        BY <2>10, <3>1, <3>3
      <4> QED BY <2>10, <2>12, <3>1, <4>1
    <3> QED BY <3>2, <3>3
  <2>14. Inked(FlattenSeq(<<head>> \o cs)) = Inked(head) \o Inked(rest)
    <3>1. FlattenSeq(<<head>> \o cs) = head \o FlattenSeq(cs)
      <4>1. FlattenSeq(<<head>> \o cs) = FlattenSeq(<<head>>) \o FlattenSeq(cs)
        BY <2>10, <2>11, FlattenConcat
      <4>2. FlattenSeq(<<head>>) = head
        BY <2>4, FlattenOne
      <4> QED BY <4>1, <4>2, Zenon
    <3>2. FlattenSeq(cs) \in Seq(C)
      BY <2>10, FlattenType
    <3>3. Inked(head \o FlattenSeq(cs)) = Inked(head) \o Inked(FlattenSeq(cs))
      BY <2>4, <3>2, InkedConcat
    <3> QED BY <2>10, <3>1, <3>3, Zenon
  <2> QED BY <2>3, <2>8, <2>12, <2>13, <2>14, Zenon DEF Makes, cs
<1> QED BY <1>1, <1>2, <1>3, <1>4

\* The chunks of a text fit, and have all of its ink; there is one, if there
\* is a text.
LEMMA ChunksMake ==
  ASSUME NEW C, NEW t \in Seq(C)
  PROVE  /\ Makes(C, t, 1, Chunked(t))
         /\ t # <<>> => Chunked(t) # <<>>
<1> DEFINE N == Len(t) + 1
           f == CHOOSE f : f = [i \in 1..N |-> From(t, f, i)]
           T == {k \in 0..N : \A i \in (N + 1 - k)..N : i >= 1 => Makes(C, t, i, f[i])}
<1>1. N \in Nat /\ N >= 1 /\ Len(t) \in Nat
  BY LenProperties
<1>2. f = [i \in 1..N |-> From(t, f, i)]
  BY ChunksExist
<1>3. Chunked(t) = f[1]
  BY ChunkedIs
<1> HIDE DEF f
<1>4. 0 \in T
  <2>1. (N + 1 - 0)..N = {} /\ 0 \in 0..N
    BY <1>1
  <2> HIDE DEF N
  <2> QED BY <2>1
<1>5. ASSUME NEW k \in 0..N, k \in T, k < N PROVE k + 1 \in T
  <2> DEFINE i == N - k
  <2>1. /\ i \in 1..N /\ k + 1 \in 0..N
        /\ \A l \in (i + 1)..N : l \in (N + 1 - k)..N /\ l >= 1
        /\ \A l \in (N + 1 - (k + 1))..N : l = i \/ l \in (i + 1)..N
    BY <1>1, <1>5
  <2> HIDE DEF i
  <2>2. \A l \in (i + 1)..N : Makes(C, t, l, f[l])
    BY <1>5, <2>1
  <2>3. f[i] = From(t, f, i)
    <3> HIDE DEF N
    <3> QED BY <1>2, <2>1
  <2>4. Makes(C, t, i, f[i])
    BY <2>1, <2>2, <2>3, FromMakes
  <2> HIDE DEF N
  <2> QED BY <2>1, <2>2, <2>4
<1>6. \A i \in 1..N : Makes(C, t, i, f[i])
  <2>1. N \in T
    <3> HIDE DEF T, N
    <3>1. N \in 0..N
      BY <1>1
    <3> QED BY <1>1, <1>4, <1>5, <3>1, Induction
  <2>2. \A i \in 1..N : i \in (N + 1 - N)..N /\ i >= 1
    BY <1>1
  <2> HIDE DEF N
  <2> QED BY <2>1, <2>2
<1>7. t # <<>> => f[1] # <<>>
  <2> SUFFICES ASSUME t # <<>> PROVE f[1] # <<>>
    OBVIOUS
  <2>1. Len(t) >= 1
    BY <1>1, EmptySeq
  <2>2. 1 \in 1..(Len(t) + 1) /\ 1 <= Len(t) /\ 1 \in 1..N
        /\ \A k \in (1 + 1)..(Len(t) + 1) : k \in 1..N
    BY <2>1, <1>1
  <2>3. \A k \in (1 + 1)..(Len(t) + 1) : f[k] \in Seq(Seq(C))
    BY <1>6, <2>2 DEF Makes
  <2>4. From(t, f, 1) # <<>>
    BY <2>2, <2>3, FromIs
  <2> HIDE DEF N
  <2> QED BY <1>2, <2>2, <2>4
<1>8. 1 \in 1..N
  BY <1>1
<1> QED BY <1>3, <1>6, <1>7, <1>8

(***************************************************************************)
(* The heartbeat                                                           *)
(***************************************************************************)

Chars == {NL} \cup UNION {ToSet(r) : r \in Responses \cup Footers}

LEMMA TextsAre ==
  ASSUME NEW r \in Responses \cup Footers
  PROVE  r \in Seq(Chars)
<1>1. r \in Seq(ToSet(r)) /\ ToSet(r) \subseteq Chars
  BY DEF Chars
<1>2. Len(r) \in Nat /\ r \in [1..Len(r) -> ToSet(r)]
  BY <1>1, LenProperties
<1> QED BY <1>1, <1>2

LEMMA FootedIs ==
  ASSUME NEW r \in Responses, NEW foot \in Footers
  PROVE  Footed(r, foot) \in Seq(Chars)
<1>1. r \in Seq(Chars) /\ foot \in Seq(Chars) /\ <<NL, NL>> \in Seq(Chars)
  BY TextsAre DEF Chars
<1>2. r \o foot \in Seq(Chars) /\ (r \o <<NL, NL>>) \o foot \in Seq(Chars)
  BY <1>1, ConcatProperties
<1> QED BY <1>2 DEF Footed

\* While a message is sent, the filter remembers it already.  Between ticks it
\* remembers what was posted last, if nothing went wrong since.
FilterInv ==
  IF tick = "send" THEN last = reply /\ (reply # posted \/ excused)
                   ELSE posted = last \/ excused

HeartInv == HeartTypeOK /\ chunks \in Seq(Seq(Chars)) /\ FilterInv

LEMMA InitHeart == HeartInit => HeartInv
BY EmptySeq DEF HeartInit, HeartInv, HeartTypeOK, FilterInv

\* The end of a tick, or of the process.
LEMMA RestStep ==
  ASSUME HeartInv, Rest, last' \in Responses \cup {<<>>},
         posted' \in Responses \cup {<<>>}, trouble' \in 0..MaxTrouble,
         posted' = last' \/ excused'
  PROVE  HeartInv'
BY EmptySeq DEF HeartInv, HeartTypeOK, FilterInv, Rest

LEMMA AnsweredStep ==
  ASSUME HeartInv, NEW r \in Responses, NEW foot \in Footers, Answered(r, foot)
  PROVE  HeartInv'
<1>1. /\ tick = "chat" /\ Remember(r) /\ UNCHANGED <<posted, trouble>>
      /\ excused' = (excused \/ (r = <<>> /\ Deliverable(r)))
  BY DEF Answered
<1>2. posted = last \/ excused
  BY <1>1 DEF HeartInv, FilterInv
<1>3. last' \in Responses \cup {<<>>}
  BY <1>1 DEF Remember, HeartInv, HeartTypeOK
<1>4. CASE Deliverable(r) /\ Footed(r, foot) # <<>>
  <2>1. /\ tick' = "send" /\ reply' = r /\ chunks' = Chunked(Footed(r, foot))
    BY <1>4 DEF Answered
  <2>2. chunks' \in Seq(Seq(Chars)) /\ chunks' # <<>>
    BY <1>4, <2>1, FootedIs, ChunksMake DEF Makes
  <2>3. last' = r /\ r # last
    BY <1>1, <1>4 DEF Remember, Deliverable
  <2>4. HeartTypeOK'
    BY <1>1, <1>3, <2>1, <2>2 DEF HeartInv, HeartTypeOK
  <2>5. FilterInv'
    BY <1>1, <1>2, <2>1, <2>3 DEF FilterInv
  <2> QED BY <2>2, <2>4, <2>5 DEF HeartInv
<1>5. CASE ~(Deliverable(r) /\ Footed(r, foot) # <<>>)
  <2>1. Rest
    BY <1>5 DEF Answered
  <2>2. CASE Deliverable(r)
    <3>1. r = <<>>
      <4>1. ASSUME r # <<>> PROVE Footed(r, foot) # <<>>
        <5>1. /\ r \in Seq(Chars) /\ foot \in Seq(Chars) /\ <<NL, NL>> \in Seq(Chars)
              /\ Len(r) \in Nat \ {0} /\ Len(foot) \in Nat /\ Len(<<NL, NL>>) \in Nat
          BY <4>1, TextsAre, EmptySeq, LenProperties DEF Chars
        <5>2. /\ Len(r \o foot) = Len(r) + Len(foot)
              /\ r \o <<NL, NL>> \in Seq(Chars)
              /\ Len(r \o <<NL, NL>>) = Len(r) + Len(<<NL, NL>>)
              /\ Len((r \o <<NL, NL>>) \o foot) = Len(r \o <<NL, NL>>) + Len(foot)
          BY <5>1, ConcatProperties
        <5>3. Len(r \o foot) # 0 /\ Len((r \o <<NL, NL>>) \o foot) # 0
          BY <5>1, <5>2
        <5> QED BY <5>3, EmptySeq DEF Footed
      <4> QED BY <1>5, <2>2, <4>1
    <3> QED BY <1>1, <1>3, <2>1, <2>2, <3>1, RestStep DEF HeartInv, HeartTypeOK
  <2>3. CASE ~Deliverable(r)
    <3>1. last' = last
      BY <1>1, <2>3 DEF Remember, Deliverable
    <3> QED BY <1>1, <1>2, <1>3, <2>1, <2>3, <3>1, RestStep DEF HeartInv, HeartTypeOK
  <2> QED BY <2>2, <2>3
<1> QED BY <1>4, <1>5

LEMMA SentStep ==
  ASSUME HeartInv, NEW taken \in BOOLEAN, ChunkSent(taken)
  PROVE  HeartInv'
<1>1. /\ tick = "send" /\ chunks # <<>> /\ last' = last
      /\ trouble' \in 0..MaxTrouble
  BY DEF ChunkSent, HeartInv, HeartTypeOK
<1>2. CASE Len(chunks) > 1
  <2>1. /\ chunks' = Tail(chunks) /\ UNCHANGED <<tick, reply, posted>>
        /\ excused' = (excused \/ ~taken)
    BY <1>2 DEF ChunkSent
  <2>2. chunks' \in Seq(Seq(Chars)) /\ chunks' # <<>>
    <3>1. Len(chunks) \in Nat /\ chunks \in Seq(Seq(Chars))
      BY LenProperties DEF HeartInv
    <3>2. Tail(chunks) \in Seq(Seq(Chars)) /\ Len(Tail(chunks)) = Len(chunks) - 1
      BY <1>1, <3>1, HeadTailProperties
    <3>3. \A n \in Nat : n > 1 => n - 1 # 0
      OBVIOUS
    <3>4. Len(<<>>) = 0
      OBVIOUS
    <3>5. chunks' # <<>>
      BY <1>2, <2>1, <3>1, <3>2, <3>3, <3>4, Zenon
    <3> QED BY <2>1, <3>2, <3>5
  <2>3. HeartTypeOK'
    BY <1>1, <2>1, <2>2 DEF HeartInv, HeartTypeOK
  <2>4. FilterInv'
    BY <1>1, <2>1 DEF HeartInv, FilterInv
  <2> QED BY <2>2, <2>3, <2>4 DEF HeartInv
<1>3. CASE ~(Len(chunks) > 1)
  <2>1. /\ Rest /\ posted' = (IF whole /\ taken THEN reply ELSE posted)
        /\ excused' = ~(whole /\ taken)
    BY <1>3 DEF ChunkSent
  <2>2. last = reply
    BY <1>1 DEF HeartInv, FilterInv
  <2>3. posted' = last' \/ excused'
    BY <1>1, <2>1, <2>2
  <2> QED BY <1>1, <2>1, <2>3, RestStep DEF HeartInv, HeartTypeOK
<1> QED BY <1>2, <1>3

LEMMA HeartStep == HeartInv /\ [Next]_vars => HeartInv'
<1> SUFFICES ASSUME HeartInv, [Next]_vars PROVE HeartInv'
  OBVIOUS
<1>1. CASE UNCHANGED heartVars
  BY <1>1 DEF heartVars, HeartInv, HeartTypeOK, FilterInv
<1>2. CASE Fire
  BY <1>2 DEF Fire, HeartInv, HeartTypeOK, FilterInv
<1>3. CASE ChatFails
  BY <1>3, RestStep DEF ChatFails, HeartInv, HeartTypeOK, FilterInv
<1>4. CASE SendRaises \/ Restarted
  <2>1. /\ Rest /\ excused' = TRUE /\ posted' = posted /\ last' \in {last, <<>>}
        /\ trouble < MaxTrouble /\ trouble' = trouble + 1
    BY <1>4 DEF SendRaises, Restarted
  <2>2. trouble' \in 0..MaxTrouble
    BY <2>1 DEF HeartInv, HeartTypeOK
  <2> QED BY <2>1, <2>2, RestStep DEF HeartInv, HeartTypeOK
<1> QED BY <1>1, <1>2, <1>3, <1>4, AnsweredStep, SentStep
        DEF Next, Heartbeats, Works, Restart, ChatEnds, Send, vars

\* The delivery filter and the room agree on what was said last, through
\* refused chunks, failed sends and restarts.
THEOREM FilterAgreesWithRoom == Spec => []FilterMatchesRoom
<1>1. Init => HeartInv
  BY InitHeart DEF Init
<1>2. HeartInv => FilterMatchesRoom
  BY DEF HeartInv, FilterInv, FilterMatchesRoom, RememberedWasPosted, NoRepeats
<1> QED BY <1>1, <1>2, HeartStep, PTL DEF Spec

\* What has been sent of the message of a tick, and what has not.
MessageInv == put \in Seq(Seq(Chars)) /\ ChunksMakeMessage

LEMMA NoMessage ==
  ASSUME put = <<>>, chunks = <<>>, body = <<>>
  PROVE  MessageInv
<1>1. put \in Seq(Seq(Chars)) /\ put \o chunks = <<>> /\ DOMAIN <<>> = {}
  BY EmptySeq
<1>2. FlattenSeq(<<>>) = <<>>
  BY EmptySeq DEF FlattenSeq
<1> QED BY <1>1, <1>2 DEF MessageInv, ChunksMakeMessage

LEMMA RestMakes == Rest => MessageInv'
<1> SUFFICES ASSUME Rest PROVE MessageInv'
  OBVIOUS
<1>1. put' = <<>> /\ chunks' = <<>> /\ body' = <<>>
  BY DEF Rest
<1>2. put' \in Seq(Seq(Chars)) /\ put' \o chunks' = <<>> /\ DOMAIN <<>> = {}
  BY <1>1, EmptySeq
<1>3. FlattenSeq(<<>>) = <<>>
  BY EmptySeq DEF FlattenSeq
<1> QED BY <1>1, <1>2, <1>3 DEF MessageInv, ChunksMakeMessage

LEMMA AnsweredMakes ==
  ASSUME HeartInv, NEW r \in Responses, NEW foot \in Footers, Answered(r, foot)
  PROVE  MessageInv'
<1>1. CASE Deliverable(r) /\ Footed(r, foot) # <<>>
  <2> DEFINE t == Footed(r, foot)
             cs == Chunked(t)
  <2>1. tick = "chat" /\ put' = put /\ chunks' = cs /\ body' = t
    BY <1>1 DEF Answered
  <2>2. put = <<>>
    BY <2>1 DEF HeartInv, HeartTypeOK
  <2>3. t \in Seq(Chars)
    BY FootedIs
  <2> HIDE DEF t
  <2>4. Makes(Chars, t, 1, cs) /\ SubSeq(t, 1, Len(t)) = t
    BY <2>3, ChunksMake, SubSeqFull
  <2> HIDE DEF cs
  <2>5. /\ cs \in Seq(Seq(Chars)) /\ DOMAIN cs = 1..Len(cs)
        /\ \A k \in 1..Len(cs) : Len(cs[k]) \in 1..MaxLen
        /\ Inked(FlattenSeq(cs)) = Inked(t)
    BY <2>4, LenProperties DEF Makes
  <2>6. put' \o chunks' = cs /\ put' \in Seq(Seq(Chars))
    BY <2>1, <2>2, <2>5, ConcatEmptySeq, EmptySeq
  <2> QED BY <2>1, <2>5, <2>6 DEF MessageInv, ChunksMakeMessage
<1>2. CASE ~(Deliverable(r) /\ Footed(r, foot) # <<>>)
  BY <1>2, RestMakes DEF Answered
<1> QED BY <1>1, <1>2

LEMMA SentMakes ==
  ASSUME HeartInv, MessageInv, NEW taken \in BOOLEAN, ChunkSent(taken)
  PROVE  MessageInv'
<1>1. CASE Len(chunks) > 1
  <2> DEFINE X == Seq(Chars)
  <2>1. /\ put' = Append(put, Head(chunks)) /\ chunks' = Tail(chunks) /\ body' = body
        /\ chunks # <<>> /\ put \in Seq(X) /\ chunks \in Seq(X)
    BY <1>1 DEF ChunkSent, HeartInv, MessageInv
  <2> HIDE DEF X
  <2>2. /\ Head(chunks) \in X /\ Tail(chunks) \in Seq(X)
        /\ chunks = <<Head(chunks)>> \o Tail(chunks)
    <3>1. Len(chunks) \in Nat /\ Len(chunks) >= 1
      BY <2>1, LenProperties, EmptySeq
    <3>2. 1 \in 1..Len(chunks) /\ Len(chunks) \in 1..Len(chunks)
      BY <3>1
    <3>3. SubSeq(chunks, 1, Len(chunks)) = <<chunks[1]>> \o SubSeq(chunks, 1 + 1, Len(chunks))
      BY <2>1, <3>2, SubSeqRecursiveFirst
    <3>4. SubSeq(chunks, 1, Len(chunks)) = chunks /\ Tail(chunks) = SubSeq(chunks, 2, Len(chunks))
      BY <2>1, SubSeqFull, TailIsSubSeq
    <3>5. Head(chunks) = chunks[1] /\ 1 + 1 = 2
      OBVIOUS
    <3> QED BY <2>1, <3>3, <3>4, <3>5, HeadTailProperties
  <2>3. put' \in Seq(X) /\ put' = put \o <<Head(chunks)>>
    BY <2>1, <2>2, AppendProperties, AppendIsConcat
  <2>4. put' \o chunks' = put \o chunks
    <3>1. <<Head(chunks)>> \in Seq(X)
      BY <2>2
    <3>2. (put \o <<Head(chunks)>>) \o Tail(chunks) = put \o (<<Head(chunks)>> \o Tail(chunks))
      <4>1. \A x, y, z \in Seq(X) : (x \o y) \o z = x \o (y \o z)
        <5> HIDE FactsAssumption, HeartbeatAssumption, CallersAssumption
        <5> QED BY Associative
      <4> QED BY <2>1, <2>2, <3>1, <4>1, Zenon
    <3> QED BY <2>1, <2>2, <2>3, <3>2, Zenon
  <2> QED BY <2>1, <2>3, <2>4 DEF MessageInv, ChunksMakeMessage, X
<1>2. CASE ~(Len(chunks) > 1)
  BY <1>2, RestMakes DEF ChunkSent
<1> QED BY <1>1, <1>2

LEMMA MessageStep == HeartInv /\ MessageInv /\ [Next]_vars => MessageInv'
<1> SUFFICES ASSUME HeartInv, MessageInv, [Next]_vars PROVE MessageInv'
  OBVIOUS
<1>1. CASE UNCHANGED <<put, chunks, body>>
  BY <1>1 DEF MessageInv, ChunksMakeMessage
<1>2. CASE Heartbeats
  <2>1. CASE Fire
    BY <1>1, <2>1 DEF Fire
  <2>2. CASE ChatFails \/ SendRaises
    BY <2>2, RestMakes DEF ChatFails, SendRaises
  <2> QED BY <1>2, <2>1, <2>2, AnsweredMakes, SentMakes DEF Heartbeats, ChatEnds, Send
<1>3. CASE Restart
  BY <1>3, RestMakes DEF Restart, Restarted
<1>4. CASE UNCHANGED vars \/ \E c \in Callers : Works(c)
  BY <1>1, <1>4 DEF Works, vars, heartVars
<1> QED BY <1>2, <1>3, <1>4 DEF Next

\* The chunks of a message fit and make it up, but for newlines at the cuts,
\* however many are sent, refused or given up.
THEOREM ChunksAreTheMessage == Spec => []ChunksMakeMessage
<1>1. Init => HeartInv /\ MessageInv
  <2>1. HeartInit => MessageInv
    BY NoMessage DEF HeartInit
  <2> QED BY <2>1, InitHeart DEF Init
<1>2. HeartInv /\ MessageInv /\ [Next]_vars => HeartInv' /\ MessageInv'
  BY HeartStep, MessageStep
<1>3. MessageInv => ChunksMakeMessage
  BY DEF MessageInv
<1> QED BY <1>1, <1>2, <1>3, PTL DEF Spec
=============================================================================

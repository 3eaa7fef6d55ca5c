------------------------- MODULE MessageQueue_proofs -------------------------
(***************************************************************************)
(* Proofs about MessageQueue for every set of kinds, every deque length    *)
(* and every number of arrivals, first for any handler, then with the      *)
(* turns of Gateway as its handler.                                        *)
(***************************************************************************)
EXTENDS Gateway, SequenceTheorems, TLAPS

(***************************************************************************)
(* The elements of a sequence, and increasing sequences                    *)
(***************************************************************************)

\* Appending adds one element and keeps an increasing sequence of smaller
\* elements increasing.
LEMMA AppendElems ==
  ASSUME NEW s \in Seq(Messages), NEW e \in Messages
  PROVE  /\ Elems(Append(s, e)) = Elems(s) \cup {e}
         /\ (Increasing(s) /\ \A x \in Elems(s) : x < e)
              => Increasing(Append(s, e))
<1> DEFINE a == Append(s, e)
<1>1. /\ a \in Seq(Messages)
      /\ Len(a) = Len(s) + 1
      /\ \A i \in 1..Len(s) : a[i] = s[i]
      /\ a[Len(s) + 1] = e
  BY AppendProperties
<1>2. DOMAIN a = 1..(Len(s) + 1) /\ DOMAIN s = 1..Len(s) /\ Len(s) \in Nat
  BY <1>1, LenProperties
<1> HIDE DEF a
<1>3. Elems(a) = Elems(s) \cup {e}
  BY <1>1, <1>2 DEF Elems
<1>4. ASSUME Increasing(s), \A x \in Elems(s) : x < e
      PROVE  Increasing(a)
  <2> SUFFICES ASSUME NEW i \in DOMAIN a, NEW j \in DOMAIN a, i < j
               PROVE  a[i] < a[j]
    BY DEF Increasing
  <2>1. i \in 1..Len(s) /\ a[i] = s[i] /\ s[i] \in Elems(s)
    BY <1>1, <1>2 DEF Elems
  <2>2. CASE j = Len(s) + 1
    BY <2>1, <2>2, <1>1, <1>4
  <2>3. CASE j \in 1..Len(s)
    BY <2>1, <2>3, <1>1, <1>2, <1>4 DEF Increasing
  <2> QED BY <2>2, <2>3, <1>2
<1> QED BY <1>3, <1>4 DEF a

\* Removing the head keeps the order and only takes the head away.
LEMMA TailElems ==
  ASSUME NEW s \in Seq(Messages), s # <<>>
  PROVE  /\ Elems(s) = {Head(s)} \cup Elems(Tail(s))
         /\ Increasing(s) => /\ Increasing(Tail(s))
                             /\ \A x \in Elems(Tail(s)) : Head(s) < x
<1> DEFINE u == Tail(s)
<1>1. /\ u \in Seq(Messages)
      /\ Len(u) = Len(s) - 1
      /\ \A i \in 1..Len(u) : u[i] = s[i + 1]
  BY HeadTailProperties
<1>2. DOMAIN u = 1..(Len(s) - 1) /\ DOMAIN s = 1..Len(s) /\ Len(s) \in Nat \ {0}
  BY <1>1, LenProperties, EmptySeq
<1>3. Head(s) = s[1]
  OBVIOUS
<1> HIDE DEF u
<1>4. Elems(s) = {s[1]} \cup Elems(u)
  <2>1. ASSUME NEW i \in 1..Len(s) PROVE s[i] \in {s[1]} \cup Elems(u)
    <3>1. CASE i = 1
      BY <3>1
    <3>2. CASE i # 1
      <4>1. i - 1 \in 1..Len(u) /\ u[i - 1] = s[i]
        BY <3>2, <1>1, <1>2
      <4> QED BY <4>1, <1>1, <1>2 DEF Elems
    <3> QED BY <3>1, <3>2
  <2>2. ASSUME NEW i \in 1..Len(u) PROVE u[i] \in Elems(s)
    <3>1. i + 1 \in 1..Len(s) /\ u[i] = s[i + 1]
      BY <1>1, <1>2
    <3> QED BY <3>1, <1>2 DEF Elems
  <2>3. s[1] \in Elems(s)
    BY <1>2 DEF Elems
  <2> QED BY <2>1, <2>2, <2>3, <1>1, <1>2 DEF Elems
<1>5. ASSUME Increasing(s)
      PROVE  Increasing(u) /\ \A x \in Elems(u) : s[1] < x
  <2>1. ASSUME NEW i \in DOMAIN u, NEW j \in DOMAIN u, i < j
        PROVE  u[i] < u[j]
    <3>1. i + 1 \in DOMAIN s /\ j + 1 \in DOMAIN s /\ i + 1 < j + 1
      BY <2>1, <1>2
    <3>2. s[i + 1] < s[j + 1]
      BY <3>1, <1>5 DEF Increasing
    <3> QED BY <3>2, <1>1, <1>2
  <2>2. ASSUME NEW i \in DOMAIN u PROVE s[1] < u[i]
    <3>1. 1 \in DOMAIN s /\ i + 1 \in DOMAIN s /\ 1 < i + 1
      BY <1>2
    <3>2. s[1] < s[i + 1]
      BY <3>1, <1>5 DEF Increasing
    <3> QED BY <3>2, <1>1, <1>2
  <2> QED BY <2>1, <2>2 DEF Increasing, Elems
<1> QED BY <1>3, <1>4, <1>5 DEF u

\* Cutting a sequence in two loses nothing and keeps the order.
LEMMA SplitElems ==
  ASSUME NEW s \in Seq(Messages), NEW n \in 1..Len(s)
  PROVE  /\ SubSeq(s, 1, n) \in Seq(Messages)
         /\ SubSeq(s, n + 1, Len(s)) \in Seq(Messages)
         /\ Elems(s) = Elems(SubSeq(s, 1, n)) \cup Elems(SubSeq(s, n + 1, Len(s)))
         /\ Increasing(s) =>
              /\ Increasing(SubSeq(s, n + 1, Len(s)))
              /\ \A x \in Elems(SubSeq(s, 1, n)),
                    y \in Elems(SubSeq(s, n + 1, Len(s))) : x < y
<1> DEFINE u == SubSeq(s, 1, n)
           v == SubSeq(s, n + 1, Len(s))
<1>1. Len(s) \in Nat /\ DOMAIN s = 1..Len(s) /\ n \in Nat /\ n <= Len(s)
      /\ \A i \in 1..Len(s) : s[i] \in Messages
  BY LenProperties, ElementOfSeq
<1>2. /\ u \in Seq(Messages)
      /\ Len(u) = n
      /\ \A i \in 1..n : u[i] = s[i]
  <2>1. /\ u \in Seq(Messages)
        /\ Len(u) = IF 1 <= n THEN n - 1 + 1 ELSE 0
        /\ \A i \in 1..(n - 1 + 1) : u[i] = s[1 + i - 1]
    <3>1. 1 \in Int /\ n \in Int /\ \A i \in 1..n : s[i] \in Messages
      BY <1>1
    <3> HIDE DEF u
    <3> QED BY <3>1, SubSeqProperties DEF u
  <2> QED BY <2>1, <1>1
<1>3. /\ v \in Seq(Messages)
      /\ Len(v) = Len(s) - n
      /\ \A i \in 1..(Len(s) - n) : v[i] = s[n + i]
  <2>1. /\ v \in Seq(Messages)
        /\ Len(v) = IF n + 1 <= Len(s) THEN Len(s) - (n + 1) + 1 ELSE 0
        /\ \A i \in 1..(Len(s) - (n + 1) + 1) : v[i] = s[n + 1 + i - 1]
    <3>1. n + 1 \in Int /\ Len(s) \in Int
          /\ \A i \in (n + 1)..Len(s) : s[i] \in Messages
      BY <1>1
    <3> HIDE DEF v
    <3> QED BY <3>1, SubSeqProperties DEF v
  <2> HIDE DEF v
  <2>2. Len(v) = Len(s) - n
    <3>1. n \in Nat /\ Len(s) \in Nat /\ n <= Len(s)
      BY <1>1
    <3>2. Len(v) = IF n + 1 <= Len(s) THEN Len(s) - (n + 1) + 1 ELSE 0
      BY <2>1
    <3>3. CASE n + 1 <= Len(s)
      BY <3>1, <3>2, <3>3
    <3>4. CASE ~(n + 1 <= Len(s))
      <4>1. Len(s) = n
        BY <3>1, <3>4
      <4> QED BY <4>1, <3>1, <3>2, <3>4
    <3> QED BY <3>3, <3>4
  <2>3. ASSUME NEW i \in 1..(Len(s) - n) PROVE v[i] = s[n + i]
    <3>1. i \in 1..(Len(s) - (n + 1) + 1) /\ n + 1 + i - 1 = n + i
      BY <1>1
    <3> QED BY <3>1, <2>1
  <2> QED BY <2>1, <2>2, <2>3
<1>4. DOMAIN u = 1..n /\ DOMAIN v = 1..(Len(s) - n)
  BY <1>2, <1>3, LenProperties
<1> HIDE DEF u, v
<1>5. Elems(s) = Elems(u) \cup Elems(v)
  <2>1. ASSUME NEW i \in 1..Len(s) PROVE s[i] \in Elems(u) \cup Elems(v)
    <3>1. CASE i <= n
      <4>1. i \in 1..n
        BY <3>1, <1>1
      <4> QED BY <4>1, <1>2, <1>4 DEF Elems
    <3>2. CASE ~(i <= n)
      <4>1. i - n \in 1..(Len(s) - n) /\ v[i - n] = s[i]
        BY <3>2, <1>1, <1>3
      <4> QED BY <4>1, <1>4 DEF Elems
    <3> QED BY <3>1, <3>2
  <2>2. ASSUME NEW i \in 1..n PROVE u[i] \in Elems(s)
    BY <1>1, <1>2 DEF Elems
  <2>3. ASSUME NEW i \in 1..(Len(s) - n) PROVE v[i] \in Elems(s)
    <3>1. n + i \in 1..Len(s) /\ v[i] = s[n + i]
      BY <1>1, <1>3
    <3> QED BY <3>1, <1>1 DEF Elems
  <2> QED BY <2>1, <2>2, <2>3, <1>1, <1>4 DEF Elems
<1>6. ASSUME Increasing(s)
      PROVE  Increasing(v) /\ \A x \in Elems(u), y \in Elems(v) : x < y
  <2>1. ASSUME NEW i \in DOMAIN v, NEW j \in DOMAIN v, i < j
        PROVE  v[i] < v[j]
    <3>1. n + i \in DOMAIN s /\ n + j \in DOMAIN s /\ n + i < n + j
      BY <2>1, <1>1, <1>4
    <3>2. s[n + i] < s[n + j]
      BY <3>1, <1>6 DEF Increasing
    <3>3. v[i] = s[n + i] /\ v[j] = s[n + j]
      BY <1>3, <1>4
    <3> QED BY <3>2, <3>3
  <2>2. ASSUME NEW i \in DOMAIN u, NEW j \in DOMAIN v
        PROVE  u[i] < v[j]
    <3>1. i \in DOMAIN s /\ n + j \in DOMAIN s /\ i < n + j
      BY <1>1, <1>4
    <3>2. s[i] < s[n + j]
      BY <3>1, <1>6 DEF Increasing
    <3> QED BY <3>2, <1>2, <1>3, <1>4
  <2> QED BY <2>1, <2>2 DEF Increasing, Elems
<1> QED BY <1>2, <1>3, <1>5, <1>6 DEF u, v

(***************************************************************************)
(* Types, and which task is where                                          *)
(***************************************************************************)

\* What the debounce handle, the lock and the interject handle say about the
\* tasks.  TypeOK and MutualExclusion are not inductive without it: that
\* HandlerEnd finds its own batch needs that nobody else can be running, and
\* that Wake clears the right handle needs that only one task sleeps.
LockInv ==
  /\ \A t \in Tasks : drain[t] = "running" <=> holder = t
  /\ \A t \in Tasks : drain[t] = "sleeping" <=> debounceTask = t
  /\ \A t \in Tasks : drain[t] = "waiting" <=> t \in Elems(waiters)
  /\ \A i, j \in DOMAIN waiters : waiters[i] = waiters[j] => i = j
  /\ \A t \in Tasks : t > Len(arrivals) => drain[t] = "none"
  /\ accepting <=> holder # NoTask
  /\ batch # <<>> => holder # NoTask
  /\ interject # <<>> => accepting

\* What a new turn does to the batch it is taken from.
LEMMA StartTurnFacts ==
  ASSUME NEW r \in Seq(Messages), handled \subseteq Messages, StartTurn(r)
  PROVE  /\ turn' \in Seq(Messages)
         /\ batch' \in Seq(Messages)
         /\ handled' \subseteq Messages
         /\ handled' = handled \cup Elems(turn')
         /\ accepting' = TRUE
         /\ interject' = <<>>
         /\ Elems(r) = Elems(turn') \cup Elems(batch')
         /\ Increasing(r) => /\ Increasing(batch')
                             /\ \A x \in Elems(turn'), y \in Elems(batch') : x < y
<1>1. PICK n \in 1..Len(r) :
        /\ turn' = SubSeq(r, 1, n)
        /\ batch' = SubSeq(r, n + 1, Len(r))
        /\ handled' = handled \cup Elems(SubSeq(r, 1, n))
        /\ accepting' = TRUE
        /\ interject' = <<>>
  BY DEF StartTurn
<1>2. /\ turn' \in Seq(Messages)
      /\ batch' \in Seq(Messages)
      /\ Elems(r) = Elems(turn') \cup Elems(batch')
      /\ Increasing(r) => /\ Increasing(batch')
                          /\ \A x \in Elems(turn'), y \in Elems(batch') : x < y
  <2> HIDE DEF Messages
  <2> QED BY <1>1, SplitElems
<1>3. Elems(turn') \subseteq Messages
  BY <1>2, LenProperties, ElementOfSeq DEF Elems
<1> QED BY <1>1, <1>2, <1>3

\* The waiters without their oldest one.
LEMMA OldestWaiter ==
  ASSUME waiters \in Seq(Tasks), waiters # <<>>,
         \A i, j \in DOMAIN waiters : waiters[i] = waiters[j] => i = j
  PROVE  /\ Head(waiters) \in Tasks
         /\ Tail(waiters) \in Seq(Tasks)
         /\ Elems(Tail(waiters)) = Elems(waiters) \ {Head(waiters)}
         /\ Head(waiters) \in Elems(waiters)
         /\ \A i, j \in DOMAIN Tail(waiters) :
              Tail(waiters)[i] = Tail(waiters)[j] => i = j
<1> DEFINE u == Tail(waiters)
<1>1. /\ Head(waiters) = waiters[1]
      /\ u \in Seq(Tasks)
      /\ Len(u) = Len(waiters) - 1
      /\ \A i \in 1..Len(u) : u[i] = waiters[i + 1]
  BY HeadTailProperties
<1>2. /\ DOMAIN u = 1..(Len(waiters) - 1)
      /\ DOMAIN waiters = 1..Len(waiters)
      /\ Len(waiters) \in Nat \ {0}
  BY <1>1, LenProperties, EmptySeq
<1>3. Elems(waiters) = {Head(waiters)} \cup Elems(u)
  BY TailElems DEF Tasks
<1> HIDE DEF u
<1>4. \A i \in DOMAIN u : u[i] # Head(waiters)
  <2> SUFFICES ASSUME NEW i \in DOMAIN u, u[i] = waiters[1] PROVE FALSE
    BY <1>1
  <2>1. 1 \in DOMAIN waiters /\ i + 1 \in DOMAIN waiters /\ i + 1 # 1
    BY <1>2
  <2>2. waiters[i + 1] = waiters[1]
    BY <1>1, <1>2
  <2> QED BY <2>1, <2>2
<1>5. ASSUME NEW i \in DOMAIN u, NEW j \in DOMAIN u, u[i] = u[j]
      PROVE  i = j
  <2>1. i + 1 \in DOMAIN waiters /\ j + 1 \in DOMAIN waiters
    BY <1>2
  <2>2. waiters[i + 1] = waiters[j + 1]
    BY <1>1, <1>2, <1>5
  <2>3. i + 1 = j + 1
    BY <2>1, <2>2
  <2> QED BY <2>3, <1>2
<1>6. Elems(u) = Elems(waiters) \ {Head(waiters)}
  BY <1>3, <1>4 DEF Elems
<1>7. Head(waiters) \in Elems(waiters) /\ Head(waiters) \in Tasks
  BY <1>1, <1>2, ElementOfSeq DEF Elems
<1> QED BY <1>1, <1>5, <1>6, <1>7 DEF u

\* The waiters with a new one.
LEMMA NewWaiter ==
  ASSUME waiters \in Seq(Tasks), NEW t \in Tasks, t \notin Elems(waiters),
         \A i, j \in DOMAIN waiters : waiters[i] = waiters[j] => i = j
  PROVE  /\ Append(waiters, t) \in Seq(Tasks)
         /\ Elems(Append(waiters, t)) = Elems(waiters) \cup {t}
         /\ \A i, j \in DOMAIN Append(waiters, t) :
              Append(waiters, t)[i] = Append(waiters, t)[j] => i = j
<1> DEFINE a == Append(waiters, t)
<1>1. /\ a \in Seq(Tasks)
      /\ Len(a) = Len(waiters) + 1
      /\ \A i \in 1..Len(waiters) : a[i] = waiters[i]
      /\ a[Len(waiters) + 1] = t
  BY AppendProperties
<1>2. /\ DOMAIN a = 1..(Len(waiters) + 1)
      /\ DOMAIN waiters = 1..Len(waiters)
      /\ Len(waiters) \in Nat
  BY <1>1, LenProperties
<1>3. Elems(a) = Elems(waiters) \cup {t}
  BY AppendElems DEF Tasks
<1> HIDE DEF a
<1>4. ASSUME NEW i \in DOMAIN a, NEW j \in DOMAIN a, a[i] = a[j], i # j
      PROVE  FALSE
  <2>1. CASE i \in DOMAIN waiters /\ j \in DOMAIN waiters
    BY <2>1, <1>1, <1>2, <1>4
  <2>2. CASE i = Len(waiters) + 1 /\ j \in DOMAIN waiters
    BY <2>2, <1>1, <1>2, <1>4 DEF Elems
  <2>3. CASE j = Len(waiters) + 1 /\ i \in DOMAIN waiters
    BY <2>3, <1>1, <1>2, <1>4 DEF Elems
  <2> QED BY <2>1, <2>2, <2>3, <1>2, <1>4
<1> QED BY <1>1, <1>3, <1>4 DEF a

\* An arrival gets the number after the last one.
LEMMA ArrivalFacts ==
  ASSUME TypeOK, NEW k \in Kinds, Len(arrivals) < MaxArrivals,
         arrivals' = Append(arrivals, k)
  PROVE  /\ arrivals' \in Seq(Kinds)
         /\ Len(arrivals) \in Nat
         /\ Len(arrivals') = Len(arrivals) + 1
         /\ Len(arrivals') <= MaxArrivals
         /\ Len(arrivals) + 1 \in Messages
         /\ Len(arrivals) + 1 \in Tasks
<1>1. /\ arrivals' \in Seq(Kinds)
      /\ Len(arrivals') = Len(arrivals) + 1
  BY AppendProperties DEF TypeOK
<1>2. Len(arrivals) \in Nat /\ MaxArrivals \in Nat
  BY LenProperties, BoundsAssumption DEF TypeOK
<1> QED BY <1>1, <1>2 DEF Messages, Tasks

\* The deque after an append, and what the append costs.
LEMMA BoundedAppendFacts ==
  ASSUME queue \in Seq(Messages), Len(queue) <= MaxQueue, NEW m \in Messages
  PROVE  /\ BoundedAppend(queue, m) \in Seq(Messages)
         /\ Len(BoundedAppend(queue, m)) <= MaxQueue
         /\ Overflow(queue) \subseteq Elems(queue)
         /\ Elems(BoundedAppend(queue, m)) \cup Overflow(queue)
              = Elems(queue) \cup {m}
         /\ (Increasing(queue) /\ \A x \in Elems(queue) : x < m) =>
              /\ Increasing(BoundedAppend(queue, m))
              /\ Overflow(queue) \cap Elems(BoundedAppend(queue, m)) = {}
<1> USE BoundsAssumption
<1>1. Elems(queue) \subseteq Messages /\ m \in Nat /\ Messages \subseteq Nat
  BY LenProperties, ElementOfSeq DEF Elems, Messages
<1>2. CASE Len(queue) < MaxQueue
  <2>1. /\ Append(queue, m) \in Seq(Messages)
        /\ Len(Append(queue, m)) = Len(queue) + 1
        /\ Len(queue) \in Nat
    BY AppendProperties, LenProperties
  <2>2. BoundedAppend(queue, m) = Append(queue, m) /\ Overflow(queue) = {}
    BY <1>2 DEF BoundedAppend, Overflow
  <2> QED BY <1>2, <2>1, <2>2, AppendElems
<1>3. CASE ~(Len(queue) < MaxQueue)
  <2>1. queue # <<>> /\ Len(queue) \in Nat
    BY <1>3, LenProperties, EmptySeq
  <2> DEFINE u == Tail(queue)
  <2>2. u \in Seq(Messages) /\ Len(u) = Len(queue) - 1 /\ Head(queue) \in Messages
    BY <2>1, HeadTailProperties
  <2>3. /\ Append(u, m) \in Seq(Messages)
        /\ Len(Append(u, m)) = Len(queue)
    <3> HIDE DEF u
    <3>1. /\ Append(u, m) \in Seq(Messages)
          /\ Len(Append(u, m)) = Len(u) + 1
      BY <2>2, AppendProperties
    <3> QED BY <3>1, <2>1, <2>2
  <2>4. BoundedAppend(queue, m) = Append(u, m) /\ Overflow(queue) = {Head(queue)}
    BY <1>3 DEF BoundedAppend, Overflow
  <2>5. /\ Elems(queue) = {Head(queue)} \cup Elems(u)
        /\ Increasing(queue) => /\ Increasing(u)
                                /\ \A x \in Elems(u) : Head(queue) < x
    BY <2>1, TailElems
  <2>6. /\ Elems(Append(u, m)) = Elems(u) \cup {m}
        /\ (Increasing(u) /\ \A x \in Elems(u) : x < m) => Increasing(Append(u, m))
    <3> HIDE DEF u
    <3> QED BY <2>2, AppendElems
  <2> HIDE DEF u
  <2>7. ASSUME Increasing(queue), \A x \in Elems(queue) : x < m
        PROVE  Head(queue) \notin Elems(Append(u, m))
    <3>1. Head(queue) # m
      <4>1. Head(queue) < m
        BY <2>5, <2>7
      <4> QED BY <4>1, <1>1
    <3>2. Head(queue) \notin Elems(u)
      <4>1. \A x \in Elems(u) : Head(queue) < x
        BY <2>5, <2>7
      <4>2. Head(queue) \in Nat
        BY <2>2, <1>1
      <4> HIDE DEF BoundedAppend
      <4>3. ~(Head(queue) < Head(queue))
        BY <4>2
      <4> QED BY <4>1, <4>3
    <3> QED BY <3>1, <3>2, <2>6
  <2> QED BY <2>2, <2>3, <2>4, <2>5, <2>6, <2>7
<1> QED BY <1>2, <1>3

Inv == TypeOK /\ LockInv

\* t takes the lock, which nobody holds, and with it a batch.
LEMMA TakeBatchInv ==
  ASSUME Inv, NEW t \in Tasks,
         TakeBatch(t),
         holder = NoTask \/ holder = t,
         UNCHANGED <<arrivals, pulled>>,
         evicted' = evicted,
         abandoned' = abandoned \cup Elems(interject),
         \/ drain[t] = "sleeping" /\ debounceTask' = NoTask /\ waiters' = waiters
         \/ drain[t] = "running" /\ UNCHANGED <<debounceTask, waiters>>
         \/ /\ waiters # <<>> /\ t = Head(waiters)
            /\ waiters' = Tail(waiters)
            /\ debounceTask' = debounceTask
  PROVE  Inv'
<1> USE DEF Inv
<1>1. /\ turn' \in Seq(Messages)
      /\ batch' \in Seq(Messages)
      /\ handled' \subseteq Messages
      /\ accepting' = TRUE
      /\ interject' = <<>>
  BY StartTurnFacts DEF TakeBatch, TypeOK
<1>2. /\ waiters' \in Seq(Tasks)
      /\ Elems(waiters') = Elems(waiters) \ {t}
      /\ \A i, j \in DOMAIN waiters' : waiters'[i] = waiters'[j] => i = j
  <2>1. CASE drain[t] \in {"sleeping", "running"} /\ waiters' = waiters
    BY <2>1 DEF TypeOK, LockInv
  <2>2. CASE waiters # <<>> /\ t = Head(waiters) /\ waiters' = Tail(waiters)
    BY <2>2, OldestWaiter DEF TypeOK, LockInv
  <2> QED BY <2>1, <2>2
<1>3. /\ holder' = t
      /\ queue' = <<>>
      /\ drain' = [drain EXCEPT ![t] = "running"]
  BY DEF TakeBatch
<1>4. Elems(interject) \subseteq Messages
  BY LenProperties, ElementOfSeq DEF Elems, TypeOK
<1>5. queue' \in Seq(Messages) /\ Len(queue') <= MaxQueue
  BY <1>3, EmptySeq, BoundsAssumption
<1>6. TypeOK'
  BY <1>1, <1>2, <1>3, <1>4, <1>5, EmptySeq DEF TypeOK, DrainStates
<1>7. \A s \in Tasks : s # NoTask
  BY DEF Tasks, Messages, NoTask
<1>8. waiters # <<>> => Head(waiters) \in Elems(waiters)
  BY OldestWaiter DEF TypeOK, LockInv
<1>9. \A s \in Tasks : drain'[s] = IF s = t THEN "running" ELSE drain[s]
  BY <1>3 DEF TypeOK
<1>10. ~(t > Len(arrivals))
  <2>1. drain[t] # "none"
    BY <1>8 DEF LockInv
  <2> QED BY <2>1 DEF LockInv
<1>11. LockInv'
  <2>1. (\A s \in Tasks : drain[s] = "running" <=> holder = s)'
    BY <1>3, <1>9, <1>7 DEF LockInv
  <2>2. (\A s \in Tasks : drain[s] = "sleeping" <=> debounceTask = s)'
    <3>1. CASE drain[t] = "sleeping" /\ debounceTask' = NoTask
      BY <3>1, <1>7, <1>9 DEF LockInv
    <3>2. CASE drain[t] \in {"running", "waiting"} /\ debounceTask' = debounceTask
      BY <3>2, <1>9 DEF LockInv
    <3> QED BY <3>1, <3>2, <1>8 DEF LockInv
  <2>3. (\A s \in Tasks : drain[s] = "waiting" <=> s \in Elems(waiters))'
    BY <1>2, <1>9 DEF LockInv
  <2>4. (\A s \in Tasks : s > Len(arrivals) => drain[s] = "none")'
    BY <1>9, <1>10 DEF LockInv
  <2> QED BY <1>1, <1>2, <1>3, <1>7, <2>1, <2>2, <2>3, <2>4 DEF LockInv
<1> QED BY <1>6, <1>11

\* A task that stops draining (or waits) with nobody left in the lock.
LEMMA LeaveInv ==
  ASSUME Inv, NEW t \in Tasks,
         holder = NoTask \/ holder = t,
         holder' = NoTask,
         batch = <<>>,
         batch' = <<>>,
         UNCHANGED <<arrivals, queue, handled, pulled, evicted>>,
         turn' \in Seq(Messages),
         accepting' = FALSE,
         interject' = <<>>,
         abandoned' = abandoned \cup Elems(interject),
         \/ /\ drain' = [drain EXCEPT ![t] = "done"]
            /\ \/ drain[t] = "sleeping" /\ debounceTask' = NoTask /\ waiters' = waiters
               \/ drain[t] = "running" /\ UNCHANGED <<debounceTask, waiters>>
               \/ /\ waiters # <<>> /\ t = Head(waiters)
                  /\ waiters' = Tail(waiters)
                  /\ debounceTask' = debounceTask
         \/ /\ drain' = [drain EXCEPT ![t] = "waiting"]
            /\ drain[t] = "running"
            /\ waiters' = Append(waiters, t)
            /\ debounceTask' = debounceTask
  PROVE  Inv'
<1> USE DEF Inv
<1>1. waiters # <<>> => Head(waiters) \in Elems(waiters)
  BY OldestWaiter DEF TypeOK, LockInv
<1>2. /\ waiters' \in Seq(Tasks)
      /\ \A i, j \in DOMAIN waiters' : waiters'[i] = waiters'[j] => i = j
      /\ \A s \in Tasks : s # t => (s \in Elems(waiters') <=> s \in Elems(waiters))
      /\ t \in Elems(waiters') <=> drain'[t] = "waiting"
  <2>1. CASE drain[t] \in {"sleeping", "running"} /\ waiters' = waiters
              /\ drain' = [drain EXCEPT ![t] = "done"]
    BY <2>1 DEF TypeOK, LockInv
  <2>2. CASE waiters # <<>> /\ t = Head(waiters) /\ waiters' = Tail(waiters)
              /\ drain' = [drain EXCEPT ![t] = "done"]
    BY <2>2, OldestWaiter DEF TypeOK, LockInv
  <2>3. CASE drain[t] = "running" /\ waiters' = Append(waiters, t)
              /\ drain' = [drain EXCEPT ![t] = "waiting"]
    <3>1. t \notin Elems(waiters) /\ drain'[t] = "waiting"
      BY <2>3 DEF TypeOK, LockInv
    <3> QED BY <2>3, <3>1, NewWaiter DEF TypeOK, LockInv
  <2> QED BY <2>1, <2>2, <2>3
<1>3. Elems(interject) \subseteq Messages
  BY LenProperties, ElementOfSeq DEF Elems, TypeOK
<1>4. TypeOK'
  BY <1>2, <1>3, EmptySeq DEF TypeOK, DrainStates
<1>5. \A s \in Tasks : s # NoTask
  BY DEF Tasks, Messages, NoTask
<1>6. /\ \A s \in Tasks : s # t => drain'[s] = drain[s]
      /\ drain'[t] \in {"done", "waiting"}
  BY DEF TypeOK
<1>7. ~(t > Len(arrivals))
  <2>1. drain[t] # "none"
    BY <1>1 DEF LockInv
  <2> QED BY <2>1 DEF LockInv
<1>8. LockInv'
  <2>1. (\A s \in Tasks : drain[s] = "running" <=> holder = s)'
    BY <1>5, <1>6 DEF LockInv
  <2>2. (\A s \in Tasks : drain[s] = "sleeping" <=> debounceTask = s)'
    <3>1. CASE drain[t] = "sleeping" /\ debounceTask' = NoTask
      BY <3>1, <1>5, <1>6 DEF LockInv
    <3>2. CASE drain[t] \in {"running", "waiting"} /\ debounceTask' = debounceTask
      BY <3>2, <1>6 DEF LockInv
    <3> QED BY <3>1, <3>2, <1>1 DEF LockInv
  <2>3. (\A s \in Tasks : drain[s] = "waiting" <=> s \in Elems(waiters))'
    BY <1>2, <1>6 DEF LockInv
  <2>4. (\A s \in Tasks : s > Len(arrivals) => drain[s] = "none")'
    BY <1>6, <1>7 DEF LockInv
  <2> QED BY <1>2, <2>1, <2>2, <2>3, <2>4 DEF LockInv
<1> QED BY <1>4, <1>8

LEMMA InitInv == Init => Inv
<1> SUFFICES ASSUME Init PROVE Inv
  OBVIOUS
<1>1. \A t \in Tasks : t # NoTask
  BY DEF Tasks, Messages, NoTask
<1>2. \A S : <<>> \in Seq(S) /\ Elems(<<>>) = {}
  BY EmptySeq DEF Elems
<1>3. TypeOK
  <2>1. Len(<<>>) <= MaxArrivals /\ Len(<<>>) <= MaxQueue
    BY EmptySeq, BoundsAssumption
  <2>2. drain \in [Tasks -> DrainStates]
    BY DEF Init, DrainStates
  <2> QED BY <1>2, <2>1, <2>2 DEF Init, TypeOK
<1>4. LockInv
  BY <1>1, <1>2, EmptySeq DEF Init, LockInv
<1> QED BY <1>3, <1>4 DEF Inv

LEMMA NextInv == Inv /\ [Next]_vars => Inv'
<1> SUFFICES ASSUME Inv, [Next]_vars PROVE Inv'
  OBVIOUS
<1>1. ASSUME NEW k \in Kinds, EnqueueInterject(k) PROVE Inv'
  <2>1. /\ arrivals' \in Seq(Kinds)
        /\ Len(arrivals) \in Nat
        /\ Len(arrivals') = Len(arrivals) + 1
        /\ Len(arrivals') <= MaxArrivals
        /\ Len(arrivals) + 1 \in Messages
    BY <1>1, ArrivalFacts DEF EnqueueInterject, Inv
  <2>2. interject' \in Seq(Messages)
    BY <1>1, <2>1, AppendProperties DEF EnqueueInterject, Inv, TypeOK
  <2>3. TypeOK'
    BY <1>1, <2>1, <2>2 DEF EnqueueInterject, Inv, TypeOK
  <2>4. \A t \in Tasks : t > Len(arrivals') => t > Len(arrivals)
    BY <2>1, BoundsAssumption DEF Tasks, Messages
  <2>5. LockInv'
    BY <1>1, <2>4 DEF EnqueueInterject, Inv, LockInv
  <2> QED BY <2>3, <2>5 DEF Inv
<1>2. ASSUME NEW k \in Kinds, EnqueueQueued(k) PROVE Inv'
  <2> DEFINE m == Len(arrivals) + 1
  <2>1. /\ arrivals' \in Seq(Kinds)
        /\ Len(arrivals) \in Nat
        /\ Len(arrivals') = m
        /\ m <= MaxArrivals
        /\ m \in Messages
        /\ m \in Tasks
    BY <1>2, ArrivalFacts DEF EnqueueQueued, Inv
  <2>2. /\ queue' \in Seq(Messages)
        /\ Len(queue') <= MaxQueue
        /\ Overflow(queue) \subseteq Elems(queue)
    BY <1>2, <2>1, BoundedAppendFacts DEF EnqueueQueued, Inv, TypeOK
  <2>3. Elems(queue) \subseteq Messages
    BY LenProperties, ElementOfSeq DEF Elems, Inv, TypeOK
  <2>4. TypeOK'
    BY <1>2, <2>1, <2>2, <2>3
       DEF EnqueueQueued, Reschedule, turnVars, lockVars, Inv, TypeOK, DrainStates
  <2>5. /\ m # NoTask
        /\ m > Len(arrivals)
        /\ \A t \in Tasks : t > m => t > Len(arrivals) /\ t # m
        /\ \A t \in Tasks : t # NoTask
    BY <2>1, BoundsAssumption DEF Tasks, Messages, NoTask
  <2>6. drain[m] = "none"
    BY <2>1, <2>5 DEF Inv, LockInv
  <2>7. /\ debounceTask' = m
        /\ \A t \in Tasks : drain'[t] = IF t = m THEN "sleeping"
                                        ELSE IF t = debounceTask THEN "cancelled"
                                        ELSE drain[t]
    BY <1>2 DEF EnqueueQueued, Reschedule
  <2>8. UNCHANGED <<lockVars, turnVars>>
    BY <1>2 DEF EnqueueQueued
  <2> HIDE DEF m
  <2>9. (\A t \in Tasks : drain[t] = "running" <=> holder = t)'
    BY <2>6, <2>7, <2>8 DEF Inv, LockInv, lockVars
  <2>10. (\A t \in Tasks : drain[t] = "sleeping" <=> debounceTask = t)'
    BY <2>7 DEF Inv, LockInv
  <2>11. (\A t \in Tasks : drain[t] = "waiting" <=> t \in Elems(waiters))'
    BY <2>6, <2>7, <2>8 DEF Inv, LockInv, lockVars
  <2>12. (\A t \in Tasks : t > Len(arrivals) => drain[t] = "none")'
    <3> SUFFICES ASSUME NEW t \in Tasks, t > m PROVE drain'[t] = "none"
      BY <2>1
    <3>1. t # m /\ drain[t] = "none"
      BY <2>5 DEF Inv, LockInv
    <3>2. t # debounceTask
      BY <3>1 DEF Inv, LockInv
    <3> QED BY <3>1, <3>2, <2>7
  <2>13. LockInv'
    BY <2>8, <2>9, <2>10, <2>11, <2>12 DEF Inv, LockInv, lockVars, turnVars
  <2> QED BY <2>4, <2>13 DEF Inv
<1>3. ASSUME NEW t \in Tasks, Wake(t) PROVE Inv'
  <2>1. /\ drain[t] = "sleeping"
        /\ debounceTask' = NoTask
        /\ UNCHANGED <<arrivals, pulled, evicted, abandoned>>
    BY <1>3 DEF Wake
  <2>2. CASE LockFree /\ TakeBatch(t) /\ UNCHANGED waiters
    <3>1. interject = <<>> /\ Elems(interject) = {}
      BY <2>2 DEF LockFree, Inv, LockInv, Elems
    <3> QED BY <2>1, <2>2, <3>1, TakeBatchInv DEF LockFree
  <2>3. CASE LockFree /\ FindNothing(t) /\ UNCHANGED waiters
    <3>1. /\ interject = <<>>
          /\ Elems(interject) = {}
          /\ batch = <<>>
          /\ accepting = FALSE
      BY <2>3 DEF LockFree, Inv, LockInv, TypeOK, Elems
    <3>2. turn \in Seq(Messages)
      BY DEF Inv, TypeOK
    <3> QED BY <2>1, <2>3, <3>1, <3>2, LeaveInv DEF LockFree, FindNothing, turnVars
  <2>4. CASE /\ waiters' = Append(waiters, t)
             /\ drain' = [drain EXCEPT ![t] = "waiting"]
             /\ UNCHANGED <<holder, queue, turnVars>>
    <3>1. t \notin Elems(waiters)
      BY <2>1 DEF Inv, LockInv
    <3>2. /\ waiters' \in Seq(Tasks)
          /\ Elems(waiters') = Elems(waiters) \cup {t}
          /\ \A i, j \in DOMAIN waiters' : waiters'[i] = waiters'[j] => i = j
      BY <2>4, <3>1, NewWaiter DEF Inv, TypeOK, LockInv
    <3>3. TypeOK'
      BY <2>1, <2>4, <3>2 DEF Inv, TypeOK, DrainStates, turnVars
    <3>4. \A s \in Tasks : drain'[s] = IF s = t THEN "waiting" ELSE drain[s]
      BY <2>4 DEF Inv, TypeOK
    <3>5. (\A s \in Tasks : drain[s] = "sleeping" <=> debounceTask = s)'
      <4>1. \A s \in Tasks : s # NoTask
        BY DEF Tasks, Messages, NoTask
      <4> QED BY <2>1, <3>4, <4>1 DEF Inv, LockInv
    <3>6. (\A s \in Tasks : s > Len(arrivals) => drain[s] = "none")'
      BY <2>1, <3>4 DEF Inv, LockInv
    <3>7. LockInv'
      BY <2>1, <2>4, <3>2, <3>4, <3>5, <3>6 DEF Inv, LockInv, turnVars
    <3> QED BY <3>3, <3>7 DEF Inv
  <2> QED BY <1>3, <2>2, <2>3, <2>4 DEF Wake, Acquire
<1>4. CASE LockHandoff
  <2> DEFINE t == Head(waiters)
  <2>1. /\ holder = NoTask
        /\ waiters # <<>>
        /\ waiters' = Tail(waiters)
        /\ UNCHANGED <<arrivals, debounceTask, pulled, evicted, abandoned>>
    BY <1>4 DEF LockHandoff
  <2>2. t \in Tasks
    BY <2>1, OldestWaiter DEF Inv, TypeOK, LockInv
  <2>3. /\ interject = <<>>
        /\ Elems(interject) = {}
        /\ batch = <<>>
        /\ accepting = FALSE
        /\ turn \in Seq(Messages)
    BY <2>1 DEF Inv, LockInv, TypeOK, Elems
  <2>4. CASE TakeBatch(t)
    BY <2>1, <2>2, <2>3, <2>4, TakeBatchInv
  <2>5. CASE FindNothing(t)
    BY <2>1, <2>2, <2>3, <2>5, LeaveInv DEF FindNothing, turnVars
  <2> QED BY <1>4, <2>4, <2>5 DEF LockHandoff
<1>5. CASE HandlerPull
  <2>1. Elems(interject) \subseteq Messages
    BY LenProperties, ElementOfSeq DEF Elems, Inv, TypeOK
  <2>2. TypeOK'
    BY <1>5, <2>1, EmptySeq DEF HandlerPull, lockVars, Inv, TypeOK
  <2>3. LockInv'
    BY <1>5 DEF HandlerPull, lockVars, Inv, LockInv
  <2> QED BY <2>2, <2>3 DEF Inv
<1>6. ASSUME NEW t \in Tasks, HandlerEnd(t) PROVE Inv'
  <2>1. /\ holder = t
        /\ drain[t] = "running"
        /\ abandoned' = abandoned \cup Elems(interject)
        /\ UNCHANGED <<arrivals, debounceTask, pulled, evicted>>
    BY <1>6 DEF HandlerEnd
  <2>2. CASE NextTurn(t)
    <3>1. /\ turn' \in Seq(Messages)
          /\ batch' \in Seq(Messages)
          /\ handled' \subseteq Messages
          /\ accepting' = TRUE
          /\ interject' = <<>>
      BY <2>2, StartTurnFacts DEF NextTurn, Inv, TypeOK
    <3>2. Elems(interject) \subseteq Messages
      BY LenProperties, ElementOfSeq DEF Elems, Inv, TypeOK
    <3>3. TypeOK'
      BY <2>1, <2>2, <3>1, <3>2, EmptySeq DEF NextTurn, lockVars, Inv, TypeOK
    <3>4. holder # NoTask
      BY <2>1 DEF Tasks, Messages, NoTask
    <3>5. LockInv'
      BY <2>1, <2>2, <3>1, <3>4 DEF NextTurn, lockVars, Inv, LockInv
    <3> QED BY <3>3, <3>5 DEF Inv
  <2>3. CASE TakeBatch(t) /\ UNCHANGED waiters
    BY <2>1, <2>3, TakeBatchInv
  <2>4. CASE batch = <<>> /\ StopTurns /\ UNCHANGED queue /\ holder' = NoTask
             /\ \/ waiters' = Append(waiters, t)
                   /\ drain' = [drain EXCEPT ![t] = "waiting"]
                \/ waiters' = waiters /\ drain' = [drain EXCEPT ![t] = "done"]
    <3>1. /\ turn' \in Seq(Messages)
          /\ accepting' = FALSE
          /\ interject' = <<>>
          /\ UNCHANGED <<batch, handled>>
      BY <2>4, EmptySeq DEF StopTurns
    <3> QED BY <2>1, <2>4, <3>1, LeaveInv
  <2> QED BY <1>6, <2>2, <2>3, <2>4 DEF HandlerEnd, FinishBatch
<1>7. CASE UNCHANGED vars
  BY <1>7 DEF vars, Inv, TypeOK, LockInv
<1> QED BY <1>1, <1>2, <1>3, <1>4, <1>5, <1>6, <1>7
        DEF Next, Enqueue, Terminated

\* Every behaviour of the queue keeps its types, whatever the constants.
THEOREM TypeCorrect == Spec => []TypeOK
<1>1. Inv => TypeOK
  BY DEF Inv
<1> QED BY InitInv, NextInv, <1>1, PTL DEF Spec

\* Handler calls never overlap (test_no_concurrent_handlers, for any number
\* of messages).
THEOREM HandlersExclude == Spec => []MutualExclusion
<1>1. Inv => MutualExclusion
  BY DEF Inv, LockInv, MutualExclusion
<1> QED BY InitInv, NextInv, <1>1, PTL DEF Spec

\* A message in the deque always has a task that is going to drain it: a
\* task that leaves without draining found the deque empty, and a cancelled
\* one was replaced in the same step.
THEOREM NoLostWakeup == Spec => []NoStrandedMessage
<1>1. Init => NoStrandedMessage
  BY DEF Init, NoStrandedMessage
<1>2. Inv /\ NoStrandedMessage /\ [Next]_vars => NoStrandedMessage'
  <2> SUFFICES ASSUME Inv, NoStrandedMessage, [Next]_vars, queue' # <<>>
               PROVE  \E t \in Tasks :
                        drain'[t] \in {"sleeping", "waiting", "running"}
    BY DEF NoStrandedMessage
  <2>1. ASSUME NEW k \in Kinds, EnqueueInterject(k)
        PROVE  UNCHANGED <<queue, drain>>
    BY <2>1 DEF EnqueueInterject
  <2>2. ASSUME NEW k \in Kinds, EnqueueQueued(k)
        PROVE  \E t \in Tasks : drain'[t] = "sleeping"
    <3>1. Len(arrivals) + 1 \in Tasks
      BY <2>2, ArrivalFacts DEF EnqueueQueued, Inv
    <3> QED BY <2>2, <3>1 DEF EnqueueQueued, Reschedule
  <2>3. ASSUME NEW t \in Tasks, Wake(t)
        PROVE  drain'[t] \in {"waiting", "running"}
    BY <2>3 DEF Wake, Acquire, TakeBatch, FindNothing, Inv, TypeOK
  <2>4. CASE LockHandoff
    <3>1. Head(waiters) \in Tasks
      BY <2>4, OldestWaiter DEF LockHandoff, Inv, TypeOK, LockInv
    <3> QED BY <2>4, <3>1 DEF LockHandoff, TakeBatch, FindNothing, Inv, TypeOK
  <2>5. CASE HandlerPull
    BY <2>5 DEF HandlerPull, NoStrandedMessage
  <2>6. ASSUME NEW t \in Tasks, HandlerEnd(t)
        PROVE  drain'[t] \in {"waiting", "running"}
    BY <2>6 DEF HandlerEnd, NextTurn, FinishBatch, TakeBatch, Inv, TypeOK
  <2>7. CASE UNCHANGED vars
    BY <2>7 DEF vars, NoStrandedMessage
  <2> QED BY <2>1, <2>2, <2>3, <2>4, <2>5, <2>6, <2>7
          DEF Next, Enqueue, Terminated, NoStrandedMessage
<1> QED BY InitInv, NextInv, <1>1, <1>2, PTL DEF Spec

\* enqueue() never cancels a task that is past its sleep, because the handle
\* it cancels is that of the one sleeping task.
THEOREM DrainsAreNotCancelled == Spec => NoDrainCancelled
<1> DEFINE A == \A t \in Tasks : drain'[t] = "cancelled" =>
                                   drain[t] \in {"sleeping", "cancelled"}
<1>1. Inv /\ [Next]_vars => [A]_vars
  <2> SUFFICES ASSUME Inv, Next PROVE A
    BY DEF vars
  <2> USE DEF Inv, TypeOK
  <2>1. ASSUME NEW k \in Kinds, Enqueue(k) PROVE A
    BY <2>1 DEF Enqueue, EnqueueInterject, EnqueueQueued, Reschedule, LockInv
  <2>2. ASSUME NEW t \in Tasks, Wake(t) PROVE A
    BY <2>2 DEF Wake, Acquire, TakeBatch, FindNothing
  <2>3. CASE LockHandoff
    BY <2>3 DEF LockHandoff, TakeBatch, FindNothing
  <2>4. CASE HandlerPull
    BY <2>4 DEF HandlerPull
  <2>5. ASSUME NEW t \in Tasks, HandlerEnd(t) PROVE A
    BY <2>5 DEF HandlerEnd, NextTurn, FinishBatch, TakeBatch
  <2>6. CASE Terminated
    BY <2>6 DEF Terminated, vars
  <2> QED BY <2>1, <2>2, <2>3, <2>4, <2>5, <2>6 DEF Next
<1> QED BY InitInv, NextInv, <1>1, PTL DEF Spec, NoDrainCancelled

(***************************************************************************)
(* Order and fate of the messages                                          *)
(***************************************************************************)

\* ExactlyOneFate, spelled out.
Covered ==
  Elems(queue) \cup Elems(batch) \cup Elems(interject) \cup handled
    \cup pulled \cup evicted \cup abandoned = 1..Len(arrivals)

Apart ==
  /\ Elems(queue) \cap (Elems(batch) \cup Elems(interject) \cup handled
                          \cup pulled \cup evicted \cup abandoned) = {}
  /\ Elems(batch) \cap (Elems(interject) \cup handled
                          \cup pulled \cup evicted \cup abandoned) = {}
  /\ Elems(interject) \cap (handled \cup pulled \cup evicted \cup abandoned) = {}
  /\ handled \cap (pulled \cup evicted \cup abandoned) = {}
  /\ pulled \cap (evicted \cup abandoned) = {}
  /\ evicted \cap abandoned = {}

LEMMA FateIsCoveredApart == (Covered /\ Apart) <=> ExactlyOneFate
<1>1. DOMAIN Places = 1..7
  BY DEF Places
<1>2. /\ Places[1] = Elems(queue) /\ Places[2] = Elems(batch)
      /\ Places[3] = Elems(interject) /\ Places[4] = handled
      /\ Places[5] = pulled /\ Places[6] = evicted /\ Places[7] = abandoned
  BY DEF Places
<1>3. 1..7 = {1, 2, 3, 4, 5, 6, 7}
  OBVIOUS
<1> HIDE DEF Places
<1>4. Covered <=> UNION {Places[i] : i \in DOMAIN Places} = 1..Len(arrivals)
  <2>1. UNION {Places[i] : i \in DOMAIN Places}
          = Elems(queue) \cup Elems(batch) \cup Elems(interject) \cup handled
              \cup pulled \cup evicted \cup abandoned
    BY <1>1, <1>2, <1>3
  <2> QED BY <2>1 DEF Covered
<1>5. Apart <=> \A i, j \in DOMAIN Places : i # j => Places[i] \cap Places[j] = {}
  <2>1. ASSUME Apart
        PROVE  \A i, j \in 1..7 : i # j => Places[i] \cap Places[j] = {}
    BY <2>1, <1>2, <1>3 DEF Apart
  <2>2. ASSUME \A i, j \in 1..7 : i # j => Places[i] \cap Places[j] = {}
        PROVE  Apart
    <3>1. \A x \in {1, 2, 3, 4, 5, 6, 7} : x \in 1..7
      OBVIOUS
    <3>2. /\ Places[1] \cap Places[2] = {} /\ Places[1] \cap Places[3] = {}
          /\ Places[1] \cap Places[4] = {} /\ Places[1] \cap Places[5] = {}
          /\ Places[1] \cap Places[6] = {} /\ Places[1] \cap Places[7] = {}
          /\ Places[2] \cap Places[3] = {} /\ Places[2] \cap Places[4] = {}
          /\ Places[2] \cap Places[5] = {} /\ Places[2] \cap Places[6] = {}
          /\ Places[2] \cap Places[7] = {}
      BY <2>2, <3>1
    <3>3. /\ Places[3] \cap Places[4] = {} /\ Places[3] \cap Places[5] = {}
          /\ Places[3] \cap Places[6] = {} /\ Places[3] \cap Places[7] = {}
          /\ Places[4] \cap Places[5] = {} /\ Places[4] \cap Places[6] = {}
          /\ Places[4] \cap Places[7] = {} /\ Places[5] \cap Places[6] = {}
          /\ Places[5] \cap Places[7] = {} /\ Places[6] \cap Places[7] = {}
      BY <2>2, <3>1
    <3> QED BY <3>2, <3>3, <1>2 DEF Apart
  <2> QED BY <2>1, <2>2, <1>1
<1> QED BY <1>4, <1>5 DEF ExactlyOneFate

FateInv == DequeFIFO /\ Covered /\ Apart

\* Starting a turn on the whole queue, or on what is left of the batch.
LEMMA TakeFate ==
  ASSUME Inv, FateInv,
         \/ batch = <<>> /\ queue' = <<>> /\ StartTurn(queue)
         \/ queue' = queue /\ StartTurn(batch),
         UNCHANGED <<arrivals, pulled, evicted>>,
         abandoned' = abandoned \cup Elems(interject)
  PROVE  FateInv'
<1>1. Elems(<<>>) = {} /\ Increasing(<<>>)
  BY EmptySeq DEF Elems, Increasing
<1> DEFINE r == IF queue' = <<>> /\ StartTurn(queue) /\ batch = <<>>
                THEN queue ELSE batch
<1>2. r \in Seq(Messages) /\ StartTurn(r) /\ handled \subseteq Messages
  BY DEF Inv, TypeOK
<1>3. /\ handled' = handled \cup Elems(turn')
      /\ interject' = <<>>
      /\ Elems(r) = Elems(turn') \cup Elems(batch')
      /\ Increasing(r) => /\ Increasing(batch')
                          /\ \A x \in Elems(turn'), y \in Elems(batch') : x < y
  <2> HIDE DEF r
  <2> QED BY <1>2, StartTurnFacts
<1>4. /\ Elems(r) \cup Elems(queue') = Elems(queue) \cup Elems(batch)
      /\ Increasing(r) /\ Increasing(queue')
      /\ \A x \in Elems(r), y \in Elems(queue') : x < y
      /\ \A x \in handled, y \in Elems(r) \cup Elems(queue') : x < y
  BY <1>1 DEF FateInv, DequeFIFO
<1> HIDE DEF r
<1>5. Elems(r) \subseteq Nat
  <2>1. Elems(r) \subseteq Messages
    BY <1>2, LenProperties, ElementOfSeq DEF Elems
  <2> QED BY <2>1 DEF Messages
<1>6. Elems(turn') \cap Elems(batch') = {}
  <2> SUFFICES ASSUME NEW x \in Elems(turn'), x \in Elems(batch') PROVE FALSE
    OBVIOUS
  <2>1. x < x /\ x \in Nat
    BY <1>3, <1>4, <1>5
  <2> QED BY <2>1
<1>7. Elems(r) \cap Elems(queue') = {}
  <2> SUFFICES ASSUME NEW x \in Elems(r), x \in Elems(queue') PROVE FALSE
    OBVIOUS
  <2>1. x < x /\ x \in Nat
    BY <1>4, <1>5
  <2> QED BY <2>1
<1>8. DequeFIFO'
  BY <1>3, <1>4 DEF DequeFIFO
<1>9. Covered'
  BY <1>1, <1>3, <1>4 DEF FateInv, Covered
<1>10. Apart'
  <2>1. /\ Elems(r) \cap (Elems(interject) \cup handled \cup pulled
                            \cup evicted \cup abandoned) = {}
        /\ Elems(queue') \cap (Elems(interject) \cup handled \cup pulled
                            \cup evicted \cup abandoned) = {}
    BY <1>4 DEF FateInv, Apart
  <2>2. Elems(interject') = {}
    BY <1>1, <1>3
  <2> QED BY <1>3, <1>6, <1>7, <2>1, <2>2 DEF FateInv, Apart
<1> QED BY <1>8, <1>9, <1>10 DEF FateInv

\* Ending the last turn of a batch.
LEMMA LeaveFate ==
  ASSUME FateInv,
         interject' = <<>>,
         UNCHANGED <<arrivals, queue, batch, handled, pulled, evicted>>,
         abandoned' = abandoned \cup Elems(interject)
  PROVE  FateInv'
<1>1. Elems(<<>>) = {}
  BY EmptySeq DEF Elems
<1>2. DequeFIFO' /\ Covered'
  BY <1>1 DEF FateInv, DequeFIFO, Covered
<1>3. Apart'
  BY <1>1 DEF FateInv, Apart
<1> QED BY <1>2, <1>3 DEF FateInv

LEMMA FateStep == Inv /\ FateInv /\ [Next]_vars => FateInv'
<1> SUFFICES ASSUME Inv, FateInv, [Next]_vars PROVE FateInv'
  OBVIOUS
<1>0. Elems(<<>>) = {}
  BY EmptySeq DEF Elems
<1>1. ASSUME NEW k \in Kinds, Enqueue(k) PROVE FateInv'
  <2> DEFINE m == Len(arrivals) + 1
  <2>1. /\ Len(arrivals) \in Nat
        /\ Len(arrivals') = m
        /\ m \in Messages
    BY <1>1, ArrivalFacts DEF Enqueue, EnqueueInterject, EnqueueQueued, Inv
  <2>2. 1..Len(arrivals') = 1..Len(arrivals) \cup {m} /\ m \notin 1..Len(arrivals)
    BY <2>1
  <2>3. \A x \in 1..Len(arrivals) : x < m
    BY <2>1
  <2>4. CASE EnqueueInterject(k)
    <3>1. Elems(interject') = Elems(interject) \cup {m}
      BY <2>1, <2>4, AppendElems DEF EnqueueInterject, Inv, TypeOK
    <3>2. UNCHANGED <<queue, batch, handled, pulled, evicted, abandoned>>
      BY <2>4 DEF EnqueueInterject
    <3> HIDE DEF m
    <3>3. DequeFIFO'
      BY <3>2 DEF FateInv, DequeFIFO
    <3>4. Covered' /\ Apart'
      BY <2>2, <3>1, <3>2 DEF FateInv, Covered, Apart
    <3> QED BY <3>3, <3>4 DEF FateInv
  <2>5. CASE EnqueueQueued(k)
    <3>1. UNCHANGED <<batch, interject, handled, pulled, abandoned>>
      BY <2>5 DEF EnqueueQueued, turnVars
    <3>2. /\ queue' = BoundedAppend(queue, m)
          /\ evicted' = evicted \cup Overflow(queue)
      BY <2>5 DEF EnqueueQueued
    <3>3. \A x \in Elems(queue) \cup Elems(batch) \cup handled : x < m
      BY <2>3 DEF FateInv, Covered
    <3>4. /\ Overflow(queue) \subseteq Elems(queue)
          /\ Elems(queue') \cup Overflow(queue) = Elems(queue) \cup {m}
          /\ Increasing(queue')
          /\ Overflow(queue) \cap Elems(queue') = {}
      <4> HIDE DEF m
      <4>1. Increasing(queue) /\ \A x \in Elems(queue) : x < m
        BY <3>3 DEF FateInv, DequeFIFO
      <4> QED BY <2>1, <3>2, <4>1, BoundedAppendFacts DEF Inv, TypeOK
    <3> HIDE DEF m
    <3>5. DequeFIFO'
      BY <3>1, <3>3, <3>4 DEF FateInv, DequeFIFO
    <3>6. Covered'
      BY <2>2, <3>1, <3>2, <3>4 DEF FateInv, Covered
    <3>7. Apart'
      <4>1. m \notin Elems(queue) \cup Elems(batch) \cup Elems(interject)
                       \cup handled \cup pulled \cup evicted \cup abandoned
        BY <2>2 DEF FateInv, Covered
      <4> QED BY <3>1, <3>2, <3>4, <4>1 DEF FateInv, Apart
    <3> QED BY <3>5, <3>6, <3>7 DEF FateInv
  <2> QED BY <1>1, <2>4, <2>5 DEF Enqueue
<1>2. ASSUME holder = NoTask,
             UNCHANGED <<arrivals, pulled, evicted, abandoned>>,
             NEW t \in Tasks, TakeBatch(t) \/ FindNothing(t)
      PROVE  FateInv'
  <2>1. batch = <<>> /\ interject = <<>>
    BY <1>2 DEF Inv, LockInv, TypeOK
  <2>2. CASE TakeBatch(t)
    BY <1>0, <1>2, <2>1, <2>2, TakeFate DEF TakeBatch
  <2>3. CASE FindNothing(t)
    BY <1>0, <1>2, <2>1, <2>3, LeaveFate DEF FindNothing, turnVars
  <2> QED BY <1>2, <2>2, <2>3
<1>3. ASSUME NEW t \in Tasks, Wake(t) PROVE FateInv'
  <2>1. CASE LockFree /\ (TakeBatch(t) \/ FindNothing(t))
    BY <1>2, <1>3, <2>1 DEF Wake, LockFree
  <2>2. CASE UNCHANGED <<holder, queue, turnVars>>
    BY <1>3, <2>2 DEF Wake, turnVars, FateInv, DequeFIFO, Covered, Apart
  <2> QED BY <1>3, <2>1, <2>2 DEF Wake, Acquire
<1>4. CASE LockHandoff
  <2>1. Head(waiters) \in Tasks
    BY <1>4, OldestWaiter DEF LockHandoff, Inv, TypeOK, LockInv
  <2> QED BY <1>2, <1>4, <2>1 DEF LockHandoff
<1>5. CASE HandlerPull
  <2>1. /\ UNCHANGED <<arrivals, queue, batch, handled, evicted, abandoned>>
        /\ pulled' = pulled \cup Elems(interject)
        /\ Elems(interject') = {}
    BY <1>0, <1>5 DEF HandlerPull
  <2>2. DequeFIFO' /\ Covered'
    BY <2>1 DEF FateInv, DequeFIFO, Covered
  <2>3. Apart'
    BY <2>1 DEF FateInv, Apart
  <2> QED BY <2>2, <2>3 DEF FateInv
<1>6. ASSUME NEW t \in Tasks, HandlerEnd(t) PROVE FateInv'
  <2>1. CASE NextTurn(t)
    BY <1>6, <2>1, TakeFate DEF HandlerEnd, NextTurn
  <2>2. CASE batch = <<>> /\ TakeBatch(t)
    BY <1>6, <2>2, TakeFate DEF HandlerEnd, TakeBatch
  <2>3. CASE StopTurns /\ UNCHANGED queue
    BY <1>6, <2>3, LeaveFate DEF HandlerEnd, StopTurns
  <2> QED BY <1>6, <2>1, <2>2, <2>3 DEF HandlerEnd, FinishBatch
<1>7. CASE UNCHANGED vars
  BY <1>7 DEF vars, FateInv, DequeFIFO, Covered, Apart
<1> QED BY <1>1, <1>3, <1>4, <1>5, <1>6, <1>7 DEF Next, Terminated

LEMMA FateInit == Init => FateInv
<1> SUFFICES ASSUME Init PROVE FateInv
  OBVIOUS
<1>1. Elems(<<>>) = {} /\ Increasing(<<>>) /\ 1..Len(<<>>) = {}
  BY EmptySeq DEF Elems, Increasing
<1>2. DequeFIFO
  BY <1>1 DEF Init, DequeFIFO
<1>3. Covered /\ Apart
  BY <1>1 DEF Init, Covered, Apart
<1> QED BY <1>2, <1>3 DEF FateInv

\* Messages that wait reach the handler in the order of their arrival.
THEOREM QueueIsFIFO == Spec => []DequeFIFO
<1>1. FateInv => DequeFIFO
  BY DEF FateInv
<1> QED BY InitInv, NextInv, FateInit, FateStep, <1>1, PTL DEF Spec

\* Every message is in exactly one place: nothing is handled twice, and what
\* is not handled was evicted by the full deque or left in an interject queue.
THEOREM OneFateEach == Spec => []ExactlyOneFate
<1>1. FateInv => ExactlyOneFate
  BY FateIsCoveredApart DEF FateInv
<1> QED BY InitInv, NextInv, FateInit, FateStep, <1>1, PTL DEF Spec

(***************************************************************************)
(* Images                                                                  *)
(***************************************************************************)

\* What the properties of the turn rest on: its messages count as handled, so
\* they have arrived, and whatever was interjected has a kind that may be.
ImageInv ==
  /\ Elems(turn) \subseteq handled
  /\ \A i \in DOMAIN turn : IsVision(turn[i]) => Len(turn) = 1
  /\ \A m \in Elems(interject) \cup pulled : arrivals[m] \in Interjectable

\* A new turn is one image or has none.
LEMMA StartTurnAlone ==
  ASSUME NEW r \in Seq(Messages), handled \subseteq Messages, StartTurn(r),
         arrivals' = arrivals
  PROVE  /\ (\A i \in DOMAIN turn : IsVision(turn[i]) => Len(turn) = 1)'
         /\ Elems(turn') \subseteq handled'
         /\ interject' = <<>>
<1>1. PICK n \in 1..Len(r) : IsGroup(r, n) /\ turn' = SubSeq(r, 1, n)
  BY DEF StartTurn
<1>2. /\ Len(turn') = n
      /\ DOMAIN turn' = 1..n
      /\ \A i \in 1..n : turn'[i] = r[i]
  <2>1. /\ 1 \in Int /\ n \in Int /\ n \in Nat /\ Len(r) \in Nat
        /\ \A i \in 1..n : i \in 1..Len(r)
    BY <1>1, LenProperties
  <2>2. turn' \in Seq(Messages)
    BY StartTurnFacts
  <2>3. Len(turn') = n /\ \A i \in 1..n : turn'[i] = r[i]
    <3> HIDE DEF Messages
    <3> QED BY <1>1, <2>1, SubSeqProperties
  <2> QED BY <2>2, <2>3, LenProperties
<1>3. ASSUME NEW i \in DOMAIN turn', IsVision(r[i]) PROVE n = 1
  <2>1. i \in 1..n
    BY <1>2
  <2> QED BY <1>1, <1>3, <2>1 DEF IsGroup
<1>4. (\A i \in DOMAIN turn : IsVision(turn[i]) => Len(turn) = 1)'
  <2> SUFFICES ASSUME NEW i \in DOMAIN turn', IsVision(turn[i])'
               PROVE  Len(turn') = 1
    OBVIOUS
  <2>1. turn'[i] = r[i] /\ arrivals'[turn'[i]] \in Vision
    BY <1>2 DEF IsVision
  <2>2. IsVision(r[i])
    BY <2>1 DEF IsVision
  <2> QED BY <2>2, <1>2, <1>3
<1> QED BY <1>4, StartTurnFacts

LEMMA ImageStep == Inv /\ FateInv /\ ImageInv /\ [Next]_vars => ImageInv'
<1> SUFFICES ASSUME Inv, FateInv, ImageInv, [Next]_vars PROVE ImageInv'
  OBVIOUS
<1>0. Elems(<<>>) = {}
  BY EmptySeq DEF Elems
<1>1. Elems(turn) \cup Elems(interject) \cup pulled \subseteq 1..Len(arrivals)
  BY DEF FateInv, Covered, ImageInv
<1>2. ASSUME NEW k \in Kinds, Enqueue(k) PROVE ImageInv'
  <2> DEFINE m == Len(arrivals) + 1
  <2>1. m \in Messages /\ Len(arrivals) \in Nat
    BY <1>2, ArrivalFacts DEF Enqueue, EnqueueInterject, EnqueueQueued, Inv
  <2>2. /\ \A x \in 1..Len(arrivals) : arrivals'[x] = arrivals[x]
        /\ arrivals'[m] = k
    <3>1. arrivals' = Append(arrivals, k) /\ arrivals \in Seq(Kinds)
      BY <1>2 DEF Enqueue, EnqueueInterject, EnqueueQueued, Inv, TypeOK
    <3> QED BY <3>1, AppendProperties
  <2> HIDE DEF m
  <2>3. UNCHANGED <<turn, handled, pulled>>
    BY <1>2 DEF Enqueue, EnqueueInterject, EnqueueQueued, turnVars
  <2>4. (\A i \in DOMAIN turn : IsVision(turn[i]) => Len(turn) = 1)'
    <3> SUFFICES ASSUME NEW i \in DOMAIN turn, IsVision(turn[i])'
                 PROVE  Len(turn) = 1
      BY <2>3
    <3>1. turn[i] \in 1..Len(arrivals)
      BY <1>1 DEF Elems
    <3> QED BY <3>1, <2>2, <2>3 DEF IsVision, ImageInv
  <2>5. \A x \in Elems(interject) \cup pulled : arrivals'[x] \in Interjectable
    BY <1>1, <2>2 DEF ImageInv
  <2>6. CASE EnqueueInterject(k)
    <3>1. Elems(interject') = Elems(interject) \cup {m}
      BY <2>1, <2>6, AppendElems DEF EnqueueInterject, Inv, TypeOK, m
    <3>2. k \in Interjectable
      BY <2>6 DEF EnqueueInterject
    <3> QED BY <2>2, <2>3, <2>4, <2>5, <3>1, <3>2 DEF ImageInv
  <2>7. CASE EnqueueQueued(k)
    <3>1. interject' = interject
      BY <2>7 DEF EnqueueQueued, turnVars
    <3> QED BY <2>3, <2>4, <2>5, <3>1 DEF ImageInv
  <2> QED BY <1>2, <2>6, <2>7 DEF Enqueue
<1>3. ASSUME NEW r \in Seq(Messages), StartTurn(r), UNCHANGED <<arrivals, pulled>>
      PROVE  ImageInv'
  BY <1>0, <1>3, StartTurnAlone DEF ImageInv, Inv, TypeOK
<1>4. ASSUME UNCHANGED <<arrivals, turn, handled, interject, pulled>>
      PROVE  ImageInv'
  BY <1>4 DEF ImageInv, IsVision
<1>5. ASSUME StopTurns, UNCHANGED <<arrivals, pulled>> PROVE ImageInv'
  BY <1>0, <1>5, EmptySeq DEF StopTurns, ImageInv
<1>6. ASSUME NEW t \in Tasks, TakeBatch(t) \/ FindNothing(t),
             UNCHANGED <<arrivals, pulled>>
      PROVE  ImageInv'
  BY <1>3, <1>4, <1>6 DEF TakeBatch, FindNothing, turnVars, Inv, TypeOK
<1>7. ASSUME NEW t \in Tasks, Wake(t) PROVE ImageInv'
  BY <1>4, <1>6, <1>7 DEF Wake, Acquire, turnVars
<1>8. CASE LockHandoff
  <2>1. Head(waiters) \in Tasks
    BY <1>8, OldestWaiter DEF LockHandoff, Inv, TypeOK, LockInv
  <2> QED BY <1>6, <1>8, <2>1 DEF LockHandoff
<1>9. CASE HandlerPull
  <2>1. /\ UNCHANGED <<arrivals, turn, handled>>
        /\ Elems(interject') \cup pulled' = Elems(interject) \cup pulled
    BY <1>0, <1>9 DEF HandlerPull
  <2> QED BY <2>1 DEF ImageInv, IsVision
<1>10. ASSUME NEW t \in Tasks, HandlerEnd(t) PROVE ImageInv'
  <2>1. UNCHANGED <<arrivals, pulled>> /\ (NextTurn(t) \/ FinishBatch(t))
    BY <1>10 DEF HandlerEnd
  <2>2. CASE NextTurn(t)
    BY <1>3, <2>1, <2>2 DEF NextTurn, Inv, TypeOK
  <2>3. CASE FinishBatch(t)
    BY <1>5, <1>6, <2>1, <2>3 DEF FinishBatch
  <2> QED BY <2>1, <2>2, <2>3
<1>11. CASE UNCHANGED vars
  BY <1>4, <1>11 DEF vars
<1> QED BY <1>2, <1>7, <1>8, <1>9, <1>10, <1>11 DEF Next, Terminated

\* The queue's promise to the handler: calls do not overlap, messages come in
\* their order and to one end each, an image comes alone and is never merged
\* into a text.
THEOREM TurnsAreServed == Spec => []ServedInOrder
<1>1. Init => ImageInv
  <2> SUFFICES ASSUME Init PROVE ImageInv
    OBVIOUS
  <2>1. Elems(<<>>) = {} /\ DOMAIN <<>> = {}
    BY EmptySeq DEF Elems
  <2> QED BY <2>1 DEF Init, ImageInv
<1>2. FateInv /\ ImageInv => ImageGetsOwnTurn
  <2> SUFFICES ASSUME FateInv, ImageInv, NEW m \in pulled PROVE ~IsVision(m)
    BY DEF ImageInv, ImageGetsOwnTurn
  <2> QED BY KindsAssumption DEF ImageInv, IsVision
<1>3. TypeOK /\ MutualExclusion /\ DequeFIFO /\ ExactlyOneFate /\ ImageGetsOwnTurn
        => ServedInOrder
  BY DEF ServedInOrder
<1> QED BY TypeCorrect, HandlersExclude, QueueIsFIFO, OneFateEach, InitInv, NextInv,
           FateInit, FateStep, ImageStep, <1>1, <1>2, <1>3, PTL DEF Spec

(***************************************************************************)
(* The mailbox that the queue implements                                   *)
(***************************************************************************)

Backlog == batch \o queue

\* The front of the batch is the front of the backlog.
LEMMA BacklogFront ==
  ASSUME batch \in Seq(Messages), queue \in Seq(Messages), NEW n \in 1..Len(batch)
  PROVE  /\ n \in 0..Len(Backlog) /\ n > 0
         /\ SubSeq(Backlog, 1, n) = SubSeq(batch, 1, n)
         /\ SubSeq(Backlog, n + 1, Len(Backlog))
              = SubSeq(batch, n + 1, Len(batch)) \o queue
<1> HIDE DEF Messages
<1> DEFINE u == SubSeq(batch, n + 1, Len(batch))
           v == SubSeq(Backlog, n + 1, Len(Backlog))
<1>1. /\ Len(batch) \in Nat /\ Len(queue) \in Nat /\ n \in Nat
      /\ Backlog \in Seq(Messages)
      /\ Len(Backlog) = Len(batch) + Len(queue)
      /\ \A i \in 1..(Len(batch) + Len(queue)) :
           Backlog[i] = IF i <= Len(batch) THEN batch[i] ELSE queue[i - Len(batch)]
  BY LenProperties, ConcatProperties DEF Backlog
<1>2. SubSeq(Backlog, 1, n) = SubSeq(batch, 1, n)
  <2>1. 1 \in 1..Len(batch)
    BY <1>1
  <2> QED BY <2>1, SubSeqOfConcat1 DEF Backlog
<1>3. /\ u \in Seq(Messages) /\ Len(u) = Len(batch) - n
      /\ \A i \in 1..(Len(batch) - n) : u[i] = batch[n + i]
  <2>1. n + 1 \in Int /\ Len(batch) \in Int
        /\ \A i \in (n + 1)..Len(batch) : batch[i] \in Messages
    BY <1>1, ElementOfSeq
  <2>2. /\ u \in Seq(Messages)
        /\ Len(u) = IF n + 1 <= Len(batch) THEN Len(batch) - (n + 1) + 1 ELSE 0
        /\ \A i \in 1..(Len(batch) - (n + 1) + 1) : u[i] = batch[n + 1 + i - 1]
    <3> HIDE DEF u
    <3> QED BY <2>1, SubSeqProperties DEF u
  <2> HIDE DEF u
  <2>3. Len(batch) - (n + 1) + 1 = Len(batch) - n /\ n <= Len(batch)
    BY <1>1
  <2>4. ASSUME NEW i \in 1..(Len(batch) - n) PROVE u[i] = batch[n + i]
    <3>1. n + 1 + i - 1 = n + i
      BY <1>1
    <3> QED BY <2>2, <2>3, <3>1
  <2>5. Len(u) = Len(batch) - n
    <3>1. CASE n + 1 <= Len(batch)
      BY <2>2, <2>3, <3>1
    <3>2. CASE ~(n + 1 <= Len(batch))
      <4>1. Len(u) = 0
        BY <2>2, <3>2
      <4>2. n = Len(batch)
        <5>1. n \in Nat /\ Len(batch) \in Nat /\ n <= Len(batch)
          BY <1>1, <2>3
        <5> HIDE DEF u
        <5> QED BY <5>1, <3>2
      <4> QED BY <1>1, <4>1, <4>2
    <3> QED BY <3>1, <3>2
  <2> QED BY <2>2, <2>4, <2>5
<1>4. /\ v \in Seq(Messages) /\ Len(v) = Len(batch) + Len(queue) - n
      /\ \A i \in 1..(Len(batch) + Len(queue) - n) : v[i] = Backlog[n + i]
  <2>1. n + 1 \in Int /\ Len(Backlog) \in Int
        /\ \A i \in (n + 1)..Len(Backlog) : Backlog[i] \in Messages
    BY <1>1, ElementOfSeq
  <2>2. /\ v \in Seq(Messages)
        /\ Len(v) = IF n + 1 <= Len(Backlog) THEN Len(Backlog) - (n + 1) + 1 ELSE 0
        /\ \A i \in 1..(Len(Backlog) - (n + 1) + 1) : v[i] = Backlog[n + 1 + i - 1]
    <3> HIDE DEF v, Backlog
    <3> QED BY <2>1, SubSeqProperties DEF v
  <2> HIDE DEF v
  <2>3. /\ Len(Backlog) - (n + 1) + 1 = Len(batch) + Len(queue) - n
        /\ n <= Len(Backlog)
    BY <1>1
  <2>4. ASSUME NEW i \in 1..(Len(batch) + Len(queue) - n) PROVE v[i] = Backlog[n + i]
    <3>1. n + 1 + i - 1 = n + i
      BY <1>1
    <3> QED BY <2>2, <2>3, <3>1
  <2>5. Len(v) = Len(batch) + Len(queue) - n
    BY <1>1, <2>2, <2>3
  <2> QED BY <2>2, <2>4, <2>5
<1> HIDE DEF u, v
<1>5. /\ u \o queue \in Seq(Messages)
      /\ Len(u \o queue) = Len(u) + Len(queue)
      /\ \A i \in 1..(Len(u) + Len(queue)) :
           (u \o queue)[i] = IF i <= Len(u) THEN u[i] ELSE queue[i - Len(u)]
  BY <1>3, ConcatProperties
<1>6. ASSUME NEW i \in 1..Len(v) PROVE v[i] = (u \o queue)[i]
  <2>1. /\ i \in 1..(Len(u) + Len(queue)) /\ i \in Nat
        /\ n + i \in 1..(Len(batch) + Len(queue))
        /\ v[i] = Backlog[n + i]
    BY <1>1, <1>3, <1>4
  <2>2. CASE i <= Len(u)
    <3>1. n + i <= Len(batch) /\ i \in 1..(Len(batch) - n)
      BY <1>1, <1>3, <2>1, <2>2
    <3> QED BY <1>1, <1>3, <1>5, <2>1, <2>2, <3>1
  <2>3. CASE ~(i <= Len(u))
    <3>1. ~(n + i <= Len(batch)) /\ n + i - Len(batch) = i - Len(u)
      BY <1>1, <1>3, <2>1, <2>3
    <3> QED BY <1>1, <1>5, <2>1, <2>3, <3>1
  <2> QED BY <2>2, <2>3
<1>7. v = u \o queue
  <2>1. Len(v) = Len(u \o queue)
    BY <1>1, <1>3, <1>4, <1>5
  <2> QED BY <1>4, <1>5, <1>6, <2>1, SeqEqual
<1>8. n \in 0..Len(Backlog) /\ n > 0
  BY <1>1
<1> QED BY <1>2, <1>7, <1>8 DEF u, v

\* A turn on the batch, or on the whole deque, is an advance of the mailbox.
LEMMA TurnAdvances ==
  ASSUME batch \in Seq(Messages), queue \in Seq(Messages),
         \/ StartTurn(batch) /\ queue' = queue
         \/ batch = <<>> /\ StartTurn(queue) /\ queue' = <<>>,
         UNCHANGED <<arrivals, pulled, evicted>>,
         abandoned' = abandoned \cup Elems(interject)
  PROVE  Mail!Advance
<1>1. interject' = <<>>
  BY DEF StartTurn
<1>2. ASSUME NEW n \in 0..Len(Backlog), n > 0,
             handled' = handled \cup Elems(SubSeq(Backlog, 1, n)),
             Backlog' = SubSeq(Backlog, n + 1, Len(Backlog))
      PROVE  Mail!Advance
  <2>1. handled' \cup pulled' = (handled \cup pulled) \cup Elems(SubSeq(Backlog, 1, n))
    BY <1>2
  <2>2. evicted' \cup abandoned' = (evicted \cup abandoned) \cup Elems(interject)
    OBVIOUS
  <2> QED BY <1>1, <1>2, <2>1, <2>2
          DEF Mail!Advance, Mail!Contents, Elems, Backlog
<1>3. CASE StartTurn(batch) /\ queue' = queue
  <2>1. PICK n \in 1..Len(batch) :
          /\ batch' = SubSeq(batch, n + 1, Len(batch))
          /\ handled' = handled \cup Elems(SubSeq(batch, 1, n))
    BY <1>3 DEF StartTurn
  <2>2. /\ n \in 0..Len(Backlog) /\ n > 0
        /\ SubSeq(Backlog, 1, n) = SubSeq(batch, 1, n)
        /\ SubSeq(Backlog, n + 1, Len(Backlog))
             = SubSeq(batch, n + 1, Len(batch)) \o queue
    BY BacklogFront
  <2>3. Backlog' = SubSeq(Backlog, n + 1, Len(Backlog))
    BY <1>3, <2>1, <2>2 DEF Backlog
  <2> QED BY <1>2, <2>1, <2>2, <2>3
<1>4. CASE batch = <<>> /\ StartTurn(queue) /\ queue' = <<>>
  <2>1. PICK n \in 1..Len(queue) :
          /\ batch' = SubSeq(queue, n + 1, Len(queue))
          /\ handled' = handled \cup Elems(SubSeq(queue, 1, n))
    BY <1>4 DEF StartTurn
  <2>2. Backlog = queue
    BY <1>4, ConcatEmptySeq DEF Backlog
  <2>3. batch' \in Seq(Messages)
    BY <1>4, StartTurnFacts, SplitElems, <2>1
  <2>4. Backlog' = batch'
    BY <1>4, <2>3, ConcatEmptySeq DEF Backlog
  <2>5. n \in 0..Len(Backlog) /\ n > 0
    BY <2>2, LenProperties
  <2> QED BY <1>2, <2>1, <2>2, <2>4, <2>5
<1> QED BY <1>3, <1>4

\* A message for the deque joins the backlog's end; a full deque drops the
\* oldest message behind the batch.
LEMMA MailArrives ==
  ASSUME Inv, NEW k \in Kinds, EnqueueQueued(k)
  PROVE  Mail!Arrive
<1> DEFINE m == Len(arrivals) + 1
<1>1. m \in Messages /\ Len(arrivals') = m /\ Len(arrivals) \in Nat
  BY ArrivalFacts DEF EnqueueQueued, Inv
<1> HIDE DEF m
<1>2. /\ batch \in Seq(Messages) /\ queue \in Seq(Messages)
      /\ Len(batch) \in Nat /\ Len(queue) \in Nat
      /\ batch' = batch /\ queue' = BoundedAppend(queue, m)
      /\ evicted' = evicted \cup Overflow(queue)
      /\ UNCHANGED <<interject, handled, pulled, abandoned>>
  BY LenProperties DEF Inv, TypeOK, EnqueueQueued, turnVars, m
<1>3. Backlog \in Seq(Messages) /\ Len(Backlog) = Len(batch) + Len(queue)
  <2> HIDE DEF Messages
  <2> QED BY <1>2, ConcatProperties DEF Backlog
<1>4. ASSUME NEW i \in 0..Len(Backlog),
             Backlog' = Append(Mail!Without(Backlog, i), m),
             Overflow(queue) = {Backlog[j] : j \in {i} \ {0}}
      PROVE  Mail!Arrive
  BY <1>1, <1>2, <1>4 DEF Mail!Arrive, Backlog, m
<1>5. ASSUME NEW s \in Seq(Messages)
      PROVE  batch \o Append(s, m) = Append(batch \o s, m)
  <2> HIDE DEF Messages
  <2>1. /\ <<m>> \in Seq(Messages) /\ batch \o s \in Seq(Messages)
        /\ Append(s, m) = s \o <<m>>
        /\ Append(batch \o s, m) = (batch \o s) \o <<m>>
    BY <1>1, <1>2, AppendIsConcat, ConcatProperties
  <2> QED BY <1>2, <2>1, ConcatAssociative
<1>6. CASE Len(queue) < MaxQueue
  <2>1. Backlog' = Append(Backlog, m) /\ Overflow(queue) = {}
    BY <1>2, <1>5, <1>6 DEF Backlog, BoundedAppend, Overflow
  <2>2. Mail!Without(Backlog, 0) = Backlog
    BY DEF Mail!Without
  <2>3. 0 \in 0..Len(Backlog)
    BY <1>2, <1>3
  <2> QED BY <1>4, <2>1, <2>2, <2>3
<1>7. CASE ~(Len(queue) < MaxQueue)
  <2> DEFINE i == Len(batch) + 1
  <2>1. queue # <<>> /\ Len(queue) \in Nat \ {0}
    <3>1. Len(queue) # 0
      BY <1>2, <1>7, BoundsAssumption
    <3> QED BY <1>2, <3>1
  <2>2. i \in 1..Len(Backlog) /\ i \in Nat \ {0}
    BY <1>2, <1>3, <2>1
  <2>3. /\ Tail(queue) \in Seq(Messages)
        /\ Backlog' = Append(batch \o Tail(queue), m)
        /\ Overflow(queue) = {Head(queue)}
    <3>1. Tail(queue) \in Seq(Messages)
      BY <1>2, <2>1, HeadTailProperties
    <3> QED BY <1>2, <1>5, <1>7, <3>1 DEF Backlog, BoundedAppend, Overflow
  <2>4. Backlog[i] = Head(queue)
    <3>1. Backlog[i] = queue[1]
      <4> HIDE DEF Messages
      <4>1. /\ \A j \in 1..(Len(batch) + Len(queue)) :
                 Backlog[j] = IF j <= Len(batch) THEN batch[j] ELSE queue[j - Len(batch)]
        BY <1>2, ConcatProperties DEF Backlog
      <4>2. i \in 1..(Len(batch) + Len(queue)) /\ ~(i <= Len(batch)) /\ i - Len(batch) = 1
        BY <1>2, <2>1
      <4> QED BY <4>1, <4>2
    <3> QED BY <3>1, <2>1
  <2>5. Mail!Without(Backlog, i) = batch \o Tail(queue)
    <3> HIDE DEF Messages
    <3>1. SubSeq(Backlog, 1, i - 1) = batch
      <4>1. i - 1 = Len(batch)
        BY <1>2
      <4>2. CASE Len(batch) = 0
        <5>1. batch = <<>>
          BY <1>2, <4>2, EmptySeq
        <5>2. SubSeq(Backlog, 1, 0) = <<>>
          BY SubSeqEmpty
        <5> QED BY <4>1, <4>2, <5>1, <5>2
      <4>3. CASE Len(batch) # 0
        <5>1. 1 \in 1..Len(batch) /\ Len(batch) \in 1..Len(batch)
          BY <1>2, <4>3
        <5>2. SubSeq(Backlog, 1, Len(batch)) = SubSeq(batch, 1, Len(batch))
          BY <1>2, <5>1, SubSeqOfConcat1 DEF Backlog
        <5> QED BY <1>2, <4>1, <5>2, SubSeqFull
      <4> QED BY <4>2, <4>3
    <3>2. SubSeq(Backlog, i + 1, Len(Backlog)) = Tail(queue)
      <4>1. Tail(queue) = SubSeq(queue, 2, Len(queue))
        BY <1>2, <2>1, TailIsSubSeq
      <4>2. CASE Len(queue) = 1
        <5>1. Len(Backlog) < i + 1
          BY <1>2, <1>3, <4>2
        <5>2. SubSeq(Backlog, i + 1, Len(Backlog)) = <<>>
          <6>1. i + 1 \in Int /\ Len(Backlog) \in Int
            BY <1>2, <1>3
          <6> HIDE DEF i
          <6> QED BY <5>1, <6>1, SubSeqEmpty
        <5>3. SubSeq(queue, 2, Len(queue)) = <<>>
          BY <4>2, SubSeqEmpty
        <5> QED BY <4>1, <5>2, <5>3
      <4>3. CASE Len(queue) # 1
        <5>1. /\ i + 1 \in Len(batch) + 1 .. Len(batch) + Len(queue)
              /\ Len(Backlog) \in Len(batch) + 1 .. Len(batch) + Len(queue)
              /\ (i + 1) - Len(batch) = 2
              /\ Len(Backlog) - Len(batch) = Len(queue)
          <6>1. Len(queue) \in Nat /\ Len(queue) # 0 /\ Len(queue) # 1
            BY <2>1, <4>3
          <6>2. i = Len(batch) + 1
            OBVIOUS
          <6> HIDE DEF i
          <6>3. Len(queue) >= 2
            <7>1. \A q \in Nat : q # 0 /\ q # 1 => q >= 2
              OBVIOUS
            <7> QED BY <6>1, <7>1
          <6>4. Len(batch) \in Nat /\ Len(Backlog) = Len(batch) + Len(queue)
            BY <1>2, <1>3
          <6> QED BY <6>1, <6>2, <6>3, <6>4
        <5>2. SubSeq(Backlog, i + 1, Len(Backlog))
                = SubSeq(queue, (i + 1) - Len(batch), Len(Backlog) - Len(batch))
          <6> HIDE DEF i
          <6> QED BY <1>2, <5>1, SubSeqOfConcat2 DEF Backlog
        <5> QED BY <4>1, <5>1, <5>2
      <4> QED BY <4>2, <4>3
    <3> QED BY <2>2, <3>1, <3>2 DEF Mail!Without
  <2>6. {Backlog[j] : j \in {i} \ {0}} = {Head(queue)}
    BY <2>2, <2>4
  <2>7. i \in 0..Len(Backlog)
    BY <2>2
  <2> HIDE DEF i
  <2> QED BY <1>4, <2>3, <2>5, <2>6, <2>7
<1> QED BY <1>6, <1>7

LEMMA MailStep == Inv /\ [Next]_vars => [Mail!MailNext]_(Mail!mailVars)
<1> SUFFICES ASSUME Inv, [Next]_vars PROVE Mail!MailNext \/ UNCHANGED Mail!mailVars
  OBVIOUS
<1> USE DEF Inv
<1>0. Elems(<<>>) = {} /\ batch \in Seq(Messages) /\ queue \in Seq(Messages)
  BY EmptySeq DEF Elems, TypeOK
<1>1. ASSUME UNCHANGED <<arrivals, queue, batch, interject, handled, pulled, evicted, abandoned>>
      PROVE  UNCHANGED Mail!mailVars
  BY <1>1 DEF Mail!mailVars
<1>2. ASSUME NEW k \in Kinds, Enqueue(k) PROVE Mail!MailNext
  <2>1. CASE EnqueueInterject(k)
    <3>1. Len(arrivals') = Len(arrivals) + 1
      BY <2>1, ArrivalFacts DEF EnqueueInterject
    <3>2. Mail!ArriveAside
      BY <2>1, <3>1 DEF EnqueueInterject, Mail!ArriveAside
    <3> QED BY <3>2 DEF Mail!MailNext
  <2>2. CASE EnqueueQueued(k)
    BY <2>2, MailArrives DEF Mail!MailNext
  <2> QED BY <1>2, <2>1, <2>2 DEF Enqueue
<1>3. ASSUME holder = NoTask, NEW t \in Tasks, TakeBatch(t) \/ FindNothing(t),
             UNCHANGED <<arrivals, pulled, evicted, abandoned>>
      PROVE  Mail!MailNext \/ UNCHANGED Mail!mailVars
  <2>1. batch = <<>> /\ interject = <<>>
    BY <1>3 DEF LockInv, TypeOK
  <2>2. CASE TakeBatch(t)
    <3>1. abandoned' = abandoned \cup Elems(interject)
      BY <1>0, <1>3, <2>1
    <3>2. Mail!Advance
      BY <1>0, <1>3, <2>1, <2>2, <3>1, TurnAdvances DEF TakeBatch
    <3> QED BY <3>2 DEF Mail!MailNext
  <2>3. CASE FindNothing(t)
    BY <1>1, <1>3, <2>3 DEF FindNothing, turnVars
  <2> QED BY <1>3, <2>2, <2>3
<1>4. ASSUME NEW t \in Tasks, Wake(t) PROVE Mail!MailNext \/ UNCHANGED Mail!mailVars
  <2>1. CASE LockFree /\ (TakeBatch(t) \/ FindNothing(t))
    BY <1>3, <1>4, <2>1 DEF Wake, LockFree
  <2>2. CASE UNCHANGED <<holder, queue, turnVars>>
    BY <1>1, <1>4, <2>2 DEF Wake, turnVars
  <2> QED BY <1>4, <2>1, <2>2 DEF Wake, Acquire
<1>5. CASE LockHandoff
  <2>1. Head(waiters) \in Tasks
    BY <1>5, OldestWaiter DEF LockHandoff, TypeOK, LockInv
  <2> QED BY <1>3, <1>5, <2>1 DEF LockHandoff
<1>6. CASE HandlerPull
  <2>1. handled' \cup pulled' = (handled \cup pulled) \cup Elems(interject)
    BY <1>6 DEF HandlerPull
  <2>2. Mail!Pull
    BY <1>6, <2>1 DEF HandlerPull, Mail!Pull, Mail!Contents, Elems
  <2> QED BY <2>2 DEF Mail!MailNext
<1>7. ASSUME NEW t \in Tasks, HandlerEnd(t)
      PROVE  Mail!MailNext \/ UNCHANGED Mail!mailVars
  <2>1. /\ UNCHANGED <<arrivals, pulled, evicted>>
        /\ abandoned' = abandoned \cup Elems(interject)
    BY <1>7 DEF HandlerEnd
  <2>2. CASE NextTurn(t)
    <3>1. Mail!Advance
      BY <1>0, <2>1, <2>2, TurnAdvances DEF NextTurn
    <3> QED BY <3>1 DEF Mail!MailNext
  <2>3. CASE batch = <<>> /\ TakeBatch(t)
    <3>1. Mail!Advance
      BY <1>0, <2>1, <2>3, TurnAdvances DEF TakeBatch
    <3> QED BY <3>1 DEF Mail!MailNext
  <2>4. CASE StopTurns /\ UNCHANGED queue
    <3>1. interject' = <<>> /\ UNCHANGED <<batch, handled, queue>>
      BY <2>4 DEF StopTurns
    <3>2. CASE interject = <<>>
      BY <1>0, <1>1, <2>1, <3>1, <3>2
    <3>3. CASE interject # <<>>
      <4>1. Backlog \in Seq(Messages)
        <5> HIDE DEF Messages
        <5> QED BY <1>0, ConcatProperties DEF Backlog
      <4>2. /\ SubSeq(Backlog, 1, 0) = <<>>
            /\ SubSeq(Backlog, 0 + 1, Len(Backlog)) = Backlog
            /\ 0 \in 0..Len(Backlog)
        BY <4>1, SubSeqEmpty, SubSeqFull, LenProperties
      <4>3. handled' \cup pulled' = (handled \cup pulled) \cup Elems(SubSeq(Backlog, 1, 0))
        BY <1>0, <2>1, <3>1, <4>2
      <4>4. evicted' \cup abandoned' = (evicted \cup abandoned) \cup Elems(interject)
        BY <2>1
      <4>5. Backlog' = Backlog
        BY <3>1 DEF Backlog
      <4>6. Mail!Advance
        BY <2>1, <3>1, <3>3, <4>2, <4>3, <4>4, <4>5
           DEF Mail!Advance, Mail!Contents, Elems, Backlog
      <4> QED BY <4>6 DEF Mail!MailNext
    <3> QED BY <3>2, <3>3
  <2> QED BY <1>7, <2>2, <2>3, <2>4 DEF HandlerEnd, FinishBatch
<1>8. CASE UNCHANGED vars
  BY <1>1, <1>8 DEF vars
<1> QED BY <1>2, <1>4, <1>5, <1>6, <1>7, <1>8 DEF Next, Terminated

\* Every step of the queue is a step of the mailbox or none: debouncing,
\* locking, batching and re-draining cannot be seen from outside.  (The
\* mailbox's fairness is the part of ImplementsMailbox that TLC checks.)
THEOREM QueueIsAMailbox == Spec => Mail!MailSteps
<1>1. Init => Mail!Empty
  <2> SUFFICES ASSUME Init PROVE Mail!Empty
    OBVIOUS
  <2>1. <<>> \o <<>> = <<>> /\ Len(<<>>) = 0
    BY EmptySeq, ConcatEmptySeq
  <2> QED BY <2>1 DEF Init, Mail!Empty
<1> QED BY InitInv, NextInv, MailStep, <1>1, PTL DEF Spec, Mail!MailSteps

(***************************************************************************)
(* handle_message as a handler of the queue: the turns are handler calls   *)
(* as MessageQueue allows them, so that what is proved of the queue holds  *)
(* with this handler.                                                      *)
(***************************************************************************)

LEMMA StepIsQueueStep == [GatewayNext]_gatewayVars => [Next]_vars
<1> SUFFICES ASSUME [GatewayNext]_gatewayVars PROVE [Next]_vars
  OBVIOUS
<1>1. ASSUME NEW k \in Kinds, Receive(k) PROVE Next
  BY <1>1 DEF Receive, Next
<1>2. CASE Resume
  BY <1>2 DEF Resume, Next
<1>3. CASE Proceed
  <2>1. CASE LoopPull \/ OvertakenSent
    BY <2>1 DEF LoopPull, OvertakenSent, Pull, Next
  <2>4. CASE LoadDone
    BY <2>4 DEF LoadDone, Pull, Next
  <2>2. CASE Finish \/ Raise
    BY <2>2 DEF Finish, Raise, Next
  <2>3. CASE Clear \/ Record \/ Overtaken \/ LoopReturn \/ AnswerSent
    BY <2>3 DEF Clear, Record, Overtaken, LoopReturn, AnswerSent
  <2> QED BY <1>3, <2>1, <2>2, <2>3, <2>4 DEF Proceed
<1>4. CASE Terminated \/ UNCHANGED gatewayVars
  BY <1>4 DEF Terminated, gatewayVars
<1> QED BY <1>1, <1>2, <1>3, <1>4 DEF GatewayNext

\* The turns of handle_message are handler calls as the queue expects them:
\* they take interjections from their own queue and end once.  (That they end
\* at all is ImplementsQueue, which TLC checks.)
THEOREM TurnsAreHandlerCalls == GatewaySpec => Spec
<1>1. GatewayInit => Init
  BY DEF GatewayInit
<1> QED BY <1>1, StepIsQueueStep, PTL DEF GatewaySpec, Spec

\* What the queue promises holds with handle_message as its handler.
THEOREM GatewayServesInOrder == GatewaySpec => []ServedInOrder
BY TurnsAreHandlerCalls, TurnsAreServed, PTL

\* With handle_message too no message is left without a task to drain it.
THEOREM GatewayWakesUp == GatewaySpec => []NoStrandedMessage
BY TurnsAreHandlerCalls, NoLostWakeup, PTL

\* With handle_message too enqueue() cancels no task that drains.
THEOREM GatewayTurnsAreNotCancelled == GatewaySpec => NoDrainCancelled
BY TurnsAreHandlerCalls, DrainsAreNotCancelled, PTL

(***************************************************************************)
(* Stages, and what becomes of a turn's messages                           *)
(***************************************************************************)

\* A turn has messages, and a stage, exactly while a handler call runs.
StageInv ==
  /\ stage \in Stages
  /\ accepting <=> turn # <<>>
  /\ accepting <=> stage # "idle"
  /\ turn \in Seq(Messages)
  /\ covered \subseteq Messages /\ late \subseteq Messages
  /\ stored \subseteq Messages /\ failed \subseteq Messages
  /\ cleared \subseteq Messages /\ unwritten \subseteq Messages

\* What nobody is going to read any more is known to be late.
LateInv ==
  /\ ~Listening => Elems(interject) \subseteq late
  /\ LostOnlyWhenLate

\* A turn that reads or goes on has a row for its own messages; what a turn
\* was about when it is over has a row, or one of the reasons to have none.
SettledInv ==
  /\ (handled \cup pulled) \ covered \subseteq stored \cup cleared \cup failed \cup unwritten
  /\ stage = "idle" => covered = {}
  /\ stage = "confirm" => covered \subseteq cleared
  /\ stage \in {"clear", "load", "read"} => covered = Elems(turn)
  /\ stage \in {"read", "loop", "overtaken", "send", "store"} => Elems(turn) \subseteq stored

GatewayInv == Inv /\ StageInv /\ LateInv /\ SettledInv

\* A new turn has a message, and its messages count as handled.
LEMMA TurnStarts ==
  ASSUME NEW r \in Seq(Messages), handled \subseteq Messages, StartTurn(r)
  PROVE  /\ turn' \in Seq(Messages) /\ turn' # <<>>
         /\ accepting' = TRUE
         /\ interject' = <<>>
         /\ handled' = handled \cup Elems(turn')
<1>1. PICK n \in 1..Len(r) : turn' = SubSeq(r, 1, n)
  BY DEF StartTurn
<1>2. n \in Nat \ {0} /\ n <= Len(r)
  BY <1>1, LenProperties
<1>3. Len(turn') = n
  <2>1. \A i \in 1..n : r[i] \in Messages
    BY <1>2, LenProperties, ElementOfSeq
  <2> HIDE DEF Messages
  <2> QED BY <1>1, <1>2, <2>1, SubSeqProperties
<1>4. turn' # <<>>
  BY <1>2, <1>3
<1> QED BY <1>4, StartTurnFacts

\* A task that gets past its sleep or the lock finds no turn running if it
\* starts one.
LEMMA ResumeFacts ==
  ASSUME GatewayInv, Resume
  PROVE  /\ UNCHANGED <<pulled, abandoned, late, turnHistory>>
         /\ \/ UNCHANGED <<turnVars, stage, covered>>
            \/ /\ ~accepting /\ accepting'
               /\ turn' \in Seq(Messages) /\ turn' # <<>>
               /\ interject' = <<>>
               /\ handled' = handled \cup Elems(turn')
               /\ Enter
<1> USE DEF GatewayInv, Inv
<1>1. UNCHANGED <<pulled, abandoned, late, turnHistory>>
  BY DEF Resume, Wake, LockHandoff
<1>2. ASSUME UNCHANGED turnVars PROVE UNCHANGED <<turnVars, stage, covered>>
  BY <1>2 DEF Resume, turnVars
<1>3. ASSUME holder = NoTask, StartTurn(queue)
      PROVE  /\ ~accepting /\ accepting'
             /\ turn' \in Seq(Messages) /\ turn' # <<>>
             /\ interject' = <<>>
             /\ handled' = handled \cup Elems(turn')
             /\ Enter
  <2>1. ~accepting /\ turn = <<>>
    BY <1>3 DEF LockInv, StageInv
  <2>2. queue \in Seq(Messages) /\ handled \subseteq Messages
    BY DEF TypeOK
  <2>3. /\ accepting'
        /\ turn' \in Seq(Messages) /\ turn' # <<>>
        /\ interject' = <<>>
        /\ handled' = handled \cup Elems(turn')
    BY <1>3, <2>2, TurnStarts
  <2> QED BY <2>1, <2>3 DEF Resume
<1>4. ASSUME NEW t \in Tasks, Wake(t)
      PROVE  UNCHANGED turnVars \/ (holder = NoTask /\ StartTurn(queue))
  BY <1>4 DEF Wake, Acquire, LockFree, TakeBatch, FindNothing
<1>5. ASSUME LockHandoff
      PROVE  UNCHANGED turnVars \/ (holder = NoTask /\ StartTurn(queue))
  BY <1>5 DEF LockHandoff, TakeBatch, FindNothing
<1> QED BY <1>1, <1>2, <1>3, <1>4, <1>5 DEF Resume

\* The end of a handler call, and the next one if there is one.
LEMMA EndFacts ==
  ASSUME GatewayInv, NEW t \in Tasks, HandlerEnd(t)
  PROVE  /\ pulled' = pulled
         /\ abandoned' = abandoned \cup Elems(interject)
         /\ turn' \in Seq(Messages)
         /\ accepting' <=> turn' # <<>>
         /\ interject' = <<>>
         /\ handled' = handled \cup Elems(turn')
<1> USE DEF GatewayInv, Inv
<1>1. batch \in Seq(Messages) /\ queue \in Seq(Messages) /\ handled \subseteq Messages
  BY DEF TypeOK
<1>2. StartTurn(batch) \/ StartTurn(queue) \/ StopTurns
  BY DEF HandlerEnd, NextTurn, FinishBatch, TakeBatch
<1>3. CASE StopTurns
  <2>1. Elems(turn') = {} /\ turn' \in Seq(Messages)
    BY <1>3, EmptySeq DEF StopTurns, Elems
  <2> QED BY <1>3, <2>1 DEF StopTurns, HandlerEnd
<1>4. CASE StartTurn(batch) \/ StartTurn(queue)
  BY <1>1, <1>4, TurnStarts DEF HandlerEnd
<1> QED BY <1>2, <1>3, <1>4

\* A message that arrives changes no turn; if it is interjected and nobody
\* is going to read it, it is late.
LEMMA ReceiveFacts ==
  ASSUME GatewayInv, NEW k \in Kinds, Receive(k)
  PROVE  /\ UNCHANGED <<turn, accepting, handled, pulled, abandoned, stage, covered,
                         stored, failed, cleared, unwritten>>
         /\ late \subseteq late' /\ late' \subseteq Messages
         /\ ~Listening => Elems(interject') \subseteq Elems(interject) \cup late'
<1> USE DEF GatewayInv, Inv
<1>1. UNCHANGED <<turn, accepting, handled, pulled, abandoned, stage, covered,
                   stored, failed, cleared, unwritten>>
  BY DEF Receive, Enqueue, EnqueueInterject, EnqueueQueued, turnVars, turnHistory
<1>2. Len(arrivals') = Len(arrivals) + 1 /\ Len(arrivals) + 1 \in Messages
  BY ArrivalFacts DEF Receive, Enqueue, EnqueueInterject, EnqueueQueued
<1>3. late \subseteq late' /\ late' \subseteq Messages
  BY <1>2 DEF Receive, StageInv
<1>4. ASSUME ~Listening
      PROVE  Elems(interject') \subseteq Elems(interject) \cup late'
  <2>1. CASE interject' = interject
    BY <2>1
  <2>2. CASE interject' # interject
    <3>1. interject' = Append(interject, Len(arrivals) + 1)
      BY <2>2 DEF Receive, Enqueue, EnqueueInterject, EnqueueQueued, turnVars
    <3>2. Elems(interject') = Elems(interject) \cup {Len(arrivals) + 1}
      BY <1>2, <3>1, AppendElems DEF TypeOK
    <3>3. late' = late \cup {Len(arrivals')}
      BY <1>4, <2>2 DEF Receive
    <3> QED BY <1>2, <3>2, <3>3
  <2> QED BY <2>1, <2>2
<1> QED BY <1>1, <1>3, <1>4

LEMMA GatewayStartsRight == GatewayInit => GatewayInv
<1> SUFFICES ASSUME GatewayInit PROVE GatewayInv
  OBVIOUS
<1>1. Elems(<<>>) = {} /\ <<>> \in Seq(Messages)
  BY EmptySeq DEF Elems
<1>2. Inv
  BY InitInv DEF GatewayInit
<1>3. StageInv
  BY <1>1 DEF GatewayInit, Init, StageInv, Stages
<1>4. LateInv /\ SettledInv
  BY <1>1 DEF GatewayInit, Init, LateInv, LostOnlyWhenLate, SettledInv
<1> QED BY <1>2, <1>3, <1>4 DEF GatewayInv

LEMMA GatewayStep == GatewayInv /\ [GatewayNext]_gatewayVars => GatewayInv'
<1> SUFFICES ASSUME GatewayInv, [GatewayNext]_gatewayVars PROVE GatewayInv'
  OBVIOUS
<1>0. Inv' /\ Elems(<<>>) = {}
  BY StepIsQueueStep, NextInv, EmptySeq DEF GatewayInv, Elems
<1>1. ASSUME NEW k \in Kinds, Receive(k) PROVE GatewayInv'
  <2>1. /\ UNCHANGED <<turn, accepting, handled, pulled, abandoned, stage, covered,
                        stored, failed, cleared, unwritten>>
        /\ late \subseteq late' /\ late' \subseteq Messages
        /\ ~Listening => Elems(interject') \subseteq Elems(interject) \cup late'
    BY <1>1, ReceiveFacts
  <2>2. StageInv'
    BY <2>1 DEF GatewayInv, StageInv
  <2>3. LateInv'
    BY <2>1 DEF GatewayInv, LateInv, LostOnlyWhenLate, Listening
  <2>4. SettledInv'
    BY <2>1 DEF GatewayInv, SettledInv
  <2> QED BY <1>0, <2>2, <2>3, <2>4 DEF GatewayInv
<1>2. CASE Resume
  <2>1. UNCHANGED <<pulled, abandoned, late, stored, failed, cleared, unwritten>>
    BY <1>2, ResumeFacts DEF turnHistory
  <2>2. CASE UNCHANGED <<turnVars, stage, covered>>
    <3>1. StageInv'
      BY <2>1, <2>2 DEF GatewayInv, StageInv, turnVars
    <3>2. LateInv' /\ SettledInv'
      BY <2>1, <2>2
         DEF GatewayInv, LateInv, LostOnlyWhenLate, Listening, SettledInv, turnVars
    <3> QED BY <1>0, <3>1, <3>2 DEF GatewayInv
  <2>3. CASE /\ ~accepting /\ accepting'
             /\ turn' \in Seq(Messages) /\ turn' # <<>>
             /\ interject' = <<>>
             /\ handled' = handled \cup Elems(turn')
             /\ Enter
    <3>1. covered' = Elems(turn') /\ stage' \in {"clear", "load"}
      BY <2>3 DEF Enter
    <3>2. Elems(turn') \subseteq Messages
      BY <2>3, LenProperties, ElementOfSeq DEF Elems
    <3>3. StageInv'
      BY <2>1, <2>3, <3>1, <3>2 DEF GatewayInv, StageInv, Stages
    <3>4. LateInv'
      BY <1>0, <2>1, <2>3 DEF GatewayInv, LateInv, LostOnlyWhenLate
    <3>5. SettledInv'
      BY <2>1, <2>3, <3>1 DEF GatewayInv, SettledInv, StageInv
    <3> QED BY <1>0, <3>3, <3>4, <3>5 DEF GatewayInv
  <2> QED BY <1>2, <2>2, <2>3, ResumeFacts
<1>3. ASSUME UNCHANGED <<vars, covered, late, failed, unwritten>>,
             stage # "idle", stage' \in Stages \ {"idle"},
             Listening \/ ~Listening',
             Listening => (Listening' \/ interject = <<>>),
             stored' \subseteq Messages, cleared' \subseteq Messages,
             SettledInv'
      PROVE  GatewayInv'
  <2>1. StageInv'
    BY <1>3 DEF GatewayInv, StageInv, vars
  <2>2. LateInv'
    BY <1>3, <1>0 DEF GatewayInv, LateInv, LostOnlyWhenLate, vars
  <2> QED BY <1>0, <1>3, <2>1, <2>2 DEF GatewayInv
<1>4. CASE Clear \/ Record \/ Overtaken \/ LoopReturn \/ AnswerSent
  <2>0. Elems(turn) \subseteq Messages
    BY LenProperties, ElementOfSeq DEF Elems, GatewayInv, StageInv
  <2>1. CASE Clear
    <3>1. SettledInv'
      BY <2>1 DEF Clear, GatewayInv, SettledInv, vars
    <3> QED BY <1>3, <2>1, <3>1 DEF Clear, Stages, Listening, GatewayInv, StageInv
  <2>2. CASE Record
    <3>1. SettledInv'
      BY <2>2 DEF Record, GatewayInv, SettledInv, vars
    <3> QED BY <1>3, <2>0, <2>2, <3>1 DEF Record, Stages, Listening, GatewayInv, StageInv
  <2>3. CASE Overtaken
    <3>1. SettledInv'
      BY <2>3 DEF Overtaken, GatewayInv, SettledInv, vars, turnHistory
    <3> QED BY <1>3, <2>3, <3>1
            DEF Overtaken, Stages, Listening, turnHistory, GatewayInv, StageInv
  <2>4. CASE LoopReturn
    <3>1. SettledInv'
      BY <2>4 DEF LoopReturn, GatewayInv, SettledInv, vars, turnHistory
    <3> QED BY <1>3, <2>4, <3>1
            DEF LoopReturn, Stages, Listening, turnHistory, GatewayInv, StageInv
  <2>5. CASE AnswerSent
    <3>1. SettledInv'
      BY <2>5 DEF AnswerSent, GatewayInv, SettledInv, vars, turnHistory
    <3> QED BY <1>3, <2>5, <3>1
            DEF AnswerSent, Stages, Listening, turnHistory, GatewayInv, StageInv
  <2> QED BY <1>4, <2>1, <2>2, <2>3, <2>4, <2>5
<1>5. CASE LoadDone \/ LoopPull \/ OvertakenSent
  <2>1. /\ UNCHANGED <<turn, accepting, handled, abandoned, late, stored, failed, cleared>>
        /\ pulled' = pulled \cup Elems(interject)
        /\ covered' = covered \cup Elems(interject)
        /\ unwritten' \in {unwritten, unwritten \cup Elems(interject)}
        /\ interject' = <<>>
        /\ stage \in {"read", "loop", "overtaken"} /\ stage' = "loop"
    <3>1. CASE LoopPull \/ OvertakenSent \/ (LoadDone /\ Pull)
      BY <3>1 DEF LoopPull, OvertakenSent, LoadDone, Pull, HandlerPull
    <3>2. CASE LoadDone /\ interject = <<>> /\ UNCHANGED <<vars, covered, unwritten>>
      BY <1>0, <3>2 DEF LoadDone, vars
    <3> QED BY <1>5, <3>1, <3>2 DEF LoadDone
  <2>2. Elems(interject) \subseteq Messages
    BY LenProperties, ElementOfSeq DEF Elems, GatewayInv, Inv, TypeOK
  <2>3. StageInv'
    BY <2>1, <2>2 DEF GatewayInv, StageInv, Stages
  <2>4. LateInv'
    BY <1>0, <2>1 DEF GatewayInv, LateInv, LostOnlyWhenLate
  <2>5. SettledInv'
    BY <2>1 DEF GatewayInv, SettledInv
  <2> QED BY <1>0, <2>3, <2>4, <2>5 DEF GatewayInv
<1>6. CASE Finish \/ Raise
  <2>1. PICK t \in Tasks : HandlerEnd(t)
    BY <1>6 DEF Finish, Raise
  <2>2. /\ pulled' = pulled
        /\ abandoned' = abandoned \cup Elems(interject)
        /\ turn' \in Seq(Messages)
        /\ accepting' <=> turn' # <<>>
        /\ interject' = <<>>
        /\ handled' = handled \cup Elems(turn')
    BY <2>1, EndFacts
  <2>3. /\ covered' = Elems(turn')
        /\ stage' \in {"idle", "clear", "load"}
        /\ stage' = "idle" <=> turn' = <<>>
    BY <1>6 DEF Finish, Raise, Enter
  <2>4. Elems(turn') \subseteq Messages /\ Elems(interject) \subseteq Messages
    BY <2>2, LenProperties, ElementOfSeq DEF Elems, GatewayInv, Inv, TypeOK
  <2>5. late' = late /\ cleared' = cleared /\ unwritten' = unwritten
    BY <1>6 DEF Finish, Raise
  <2>12. Elems(turn) \subseteq Messages
    BY LenProperties, ElementOfSeq DEF Elems, GatewayInv, StageInv
  <2>6. /\ failed' \subseteq Messages /\ stored' \subseteq Messages
        /\ failed \subseteq failed' /\ stored \subseteq stored'
    BY <1>6, <2>4, <2>12 DEF Finish, Raise, Unsaved, GatewayInv, StageInv
  <2>7. StageInv'
    BY <2>2, <2>3, <2>4, <2>5, <2>6 DEF GatewayInv, StageInv, Stages
  <2>8. Elems(interject) \subseteq late' \cup failed'
    BY <1>6, <2>5 DEF Finish, Raise, Unsaved, GatewayInv, LateInv, Listening
  <2>9. LateInv'
    BY <1>0, <2>2, <2>5, <2>6, <2>8 DEF GatewayInv, LateInv, LostOnlyWhenLate
  <2>10. covered \subseteq stored' \cup cleared' \cup failed' \cup unwritten'
    <3>1. CASE Finish
      BY <2>5, <3>1 DEF Finish, GatewayInv, SettledInv
    <3>2. CASE Raise /\ stage \in {"clear", "load"}
      BY <2>5, <3>2 DEF Raise, Unsaved, GatewayInv, SettledInv
    <3>3. CASE Raise /\ stage \notin {"clear", "load"}
      <4>1. Elems(turn) \subseteq stored \/ covered \subseteq cleared
        BY <3>3 DEF Raise, GatewayInv, StageInv, SettledInv, Stages
      <4> QED BY <2>5, <3>3, <4>1 DEF Raise, Unsaved
    <3> QED BY <1>6, <3>1, <3>2, <3>3
  <2>11. SettledInv'
    BY <1>0, <2>2, <2>3, <2>5, <2>6, <2>10 DEF GatewayInv, SettledInv
  <2> QED BY <1>0, <2>7, <2>9, <2>11 DEF GatewayInv
<1>7. CASE UNCHANGED gatewayVars
  <2>1. StageInv'
    BY <1>7 DEF gatewayVars, vars, turnHistory, GatewayInv, StageInv
  <2>2. LateInv' /\ SettledInv'
    BY <1>7 DEF gatewayVars, vars, turnHistory, GatewayInv, LateInv,
                LostOnlyWhenLate, Listening, SettledInv
  <2> QED BY <1>0, <2>1, <2>2 DEF GatewayInv
<1> QED BY <1>1, <1>2, <1>4, <1>5, <1>6, <1>7 DEF GatewayNext, Proceed

\* The types, and a turn is in a stage of handle_message exactly while the
\* queue has called it.
THEOREM GatewayTypes == GatewaySpec => []GatewayTypeOK
<1>1. GatewayInv => GatewayTypeOK
  <2> SUFFICES ASSUME GatewayInv PROVE GatewayTypeOK
    OBVIOUS
  <2>1. \A i \in DOMAIN turnHistory : turnHistory[i] \subseteq Messages
    <3>1. DOMAIN turnHistory = {1, 2, 3, 4}
      BY DEF turnHistory
    <3>2. /\ turnHistory[1] = stored
          /\ turnHistory[2] = failed
          /\ turnHistory[3] = cleared
          /\ turnHistory[4] = unwritten
      BY DEF turnHistory
    <3> QED BY <3>1, <3>2 DEF GatewayInv, StageInv
  <2> QED BY <2>1 DEF GatewayInv, Inv, StageInv, GatewayTypeOK
<1> QED BY GatewayStartsRight, GatewayStep, <1>1, PTL DEF GatewaySpec

\* chat_loop's exit gate and the queue's interject handle leave one gap only:
\* an interjection nobody reads came after the gate, during a command, or in
\* a turn that raised.
THEOREM OnlyLateOnesAreLost == GatewaySpec => []LostOnlyWhenLate
<1>1. GatewayInv => LostOnlyWhenLate
  BY DEF GatewayInv, LateInv
<1> QED BY GatewayStartsRight, GatewayStep, <1>1, PTL DEF GatewaySpec

\* A turn that reads the conversation finds a row of every message that
\* earlier turns were about and of its own, except what a command deleted,
\* what a turn that raised had not written, and what was merged into a prompt
\* without a row: the lock covers both transactions of a turn.
THEOREM TurnsSeeTheirPast == GatewaySpec => []TurnsSeeEachOther
<1>1. GatewayInv => TurnsSeeEachOther
  BY DEF GatewayInv, SettledInv, TurnsSeeEachOther
<1> QED BY GatewayStartsRight, GatewayStep, <1>1, PTL DEF GatewaySpec
=============================================================================

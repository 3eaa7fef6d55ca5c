-------------------------- MODULE ChatLoop_proofs --------------------------
(***************************************************************************)
(* Proofs about ChatLoop, for every checkpoint interval, every ceiling of  *)
(* rounds, every number of nudges, of calls per response and of            *)
(* interjections.                                                          *)
(***************************************************************************)
EXTENDS ChatLoop, SequenceTheorems, TLAPS

\* A history that a request may contain: every call of ms is answered by the
\* message after it, and nothing else is.
Answered(ms) ==
  \A i \in 1..Len(ms) :
    /\ ms[i].uses # {} => i < Len(ms) /\ ms[i + 1].results = ms[i].uses
    /\ ms[i].results # {} => i > 1 /\ ms[i - 1].uses = ms[i].results

Separate(ms) ==
  \A i, j \in 1..Len(ms) : i # j => ms[i].carried \cap ms[j].carried = {}

History(ms) == /\ ms \in Seq(Messages) /\ ms # <<>>
               /\ Answered(ms) /\ Separate(ms)

\* Of the first n interjections, those that are not in the queue q are in ms,
\* and the model has seen them.
Kept(ms, q, s, n) ==
  /\ History(ms)
  /\ q \in Seq(Interjections)
  /\ s = Carried(ms)
  /\ Elems(q) \cup Carried(ms) = 1..n
  /\ Elems(q) \cap Carried(ms) = {}

Results(ids) == Message("user", TRUE, {}, ids, {})

\* The history as it will be when the calls that are being run are over.
Outlook == IF pc = "call" THEN Append(messages, Results(callsLeft \cup toolResults))
                          ELSE messages

\* A request for calls is within the ceiling, and a checkpoint resets the
\* rounds since the last one before the loop goes on.
RoundsLeft ==
  /\ maxRounds >= 1
  /\ pc = "chat" => roundNum < maxRounds
  /\ pc \notin {"checkpoint", "report", "failed"} => sinceCheckpoint < CheckpointEvery

\* One final answer at most is owed, the one that is being sent.
Accounts ==
  /\ pc \notin {"answer", "failed"} => owed = delivered
  /\ pc = "answer" => owed = delivered + 1

LoopInv ==
  /\ TypeOK
  /\ RoundsLeft
  /\ Kept(Outlook, inbox, seen, arrived)
  /\ pc = "returned" => inbox = <<>>
  /\ Accounts

USE LoopAssumption

(***************************************************************************)
(* Histories                                                               *)
(***************************************************************************)

\* What a message of the conversation is.
LEMMA MessageTypes ==
  /\ Prompt \in Messages
  /\ Prompt.uses = {} /\ Prompt.results = {} /\ Prompt.carried = {}
  /\ \A ids \in SUBSET Nat :
       /\ Reply(ids) \in Messages
       /\ Reply(ids).uses = ids /\ Reply(ids).results = {} /\ Reply(ids).carried = {}
       /\ Results(ids) \in Messages
       /\ Results(ids).uses = {} /\ Results(ids).results = ids
       /\ Results(ids).carried = {}
  /\ \A c \in SUBSET Interjections :
       /\ Message("user", TRUE, {}, {}, c) \in Messages
       /\ Message("user", TRUE, {}, {}, c).uses = {}
       /\ Message("user", TRUE, {}, {}, c).results = {}
       /\ Message("user", TRUE, {}, {}, c).carried = c
BY DEF Prompt, Reply, Results, Message, Messages

\* The message behind a history's last one.
LEMMA AppendFacts ==
  ASSUME NEW ms \in Seq(Messages), NEW m \in Messages
  PROVE  /\ Append(ms, m) \in Seq(Messages) /\ Append(ms, m) # <<>>
         /\ Len(ms) \in Nat /\ Len(Append(ms, m)) = Len(ms) + 1
         /\ \A i \in 1..Len(ms) : Append(ms, m)[i] = ms[i]
         /\ Append(ms, m)[Len(ms) + 1] = m
         /\ DOMAIN ms = 1..Len(ms)
         /\ Carried(Append(ms, m)) = Carried(ms) \cup m.carried
<1> DEFINE r == Append(ms, m)
<1>1. /\ r \in Seq(Messages) /\ Len(ms) \in Nat /\ Len(r) = Len(ms) + 1
      /\ \A i \in 1..Len(ms) : r[i] = ms[i]
      /\ r[Len(ms) + 1] = m
  <2> HIDE DEF Messages
  <2> QED BY AppendProperties, LenProperties
<1>2. r # <<>>
  <2> HIDE DEF Messages, r
  <2> QED BY <1>1, EmptySeq
<1> HIDE DEF r
<1>3. DOMAIN ms = 1..Len(ms) /\ DOMAIN r = 1..Len(r)
  <2> HIDE DEF Messages
  <2> QED BY <1>1, LenProperties
<1>4. DOMAIN r = DOMAIN ms \cup {Len(ms) + 1}
  BY <1>1, <1>3
<1>5. Carried(r) = Carried(ms) \cup m.carried
  <2>1. \A i \in DOMAIN ms : r[i].carried = ms[i].carried
    BY <1>1, <1>3
  <2>2. {r[i].carried : i \in DOMAIN r}
          = {ms[i].carried : i \in DOMAIN ms} \cup {m.carried}
    BY <1>1, <1>4, <2>1
  <2> QED BY <2>2 DEF Carried
<1> QED BY <1>1, <1>2, <1>3, <1>5 DEF r

\* A message with news for the history, and neither calls nor results.
LEMMA AppendHistory ==
  ASSUME NEW ms, History(ms), NEW m \in Messages, m.uses = {}, m.results = {},
         m.carried \cap Carried(ms) = {}
  PROVE  /\ History(Append(ms, m))
         /\ Carried(Append(ms, m)) = Carried(ms) \cup m.carried
<1> DEFINE r == Append(ms, m)
<1>1. /\ r \in Seq(Messages) /\ r # <<>>
      /\ Len(ms) \in Nat /\ Len(r) = Len(ms) + 1
      /\ \A i \in 1..Len(ms) : r[i] = ms[i]
      /\ r[Len(ms) + 1] = m
      /\ DOMAIN ms = 1..Len(ms)
      /\ Carried(r) = Carried(ms) \cup m.carried
  BY AppendFacts DEF History
<1> HIDE DEF r
<1>2. Answered(r)
  <2> SUFFICES ASSUME NEW i \in 1..Len(r)
               PROVE  /\ r[i].uses # {} => i < Len(r) /\ r[i + 1].results = r[i].uses
                      /\ r[i].results # {} => i > 1 /\ r[i - 1].uses = r[i].results
    BY DEF Answered
  <2>1. CASE i = Len(ms) + 1
    BY <1>1, <2>1
  <2>2. CASE i # Len(ms) + 1
    <3>1. i \in 1..Len(ms)
      BY <1>1, <2>2
    <3>2. /\ ms[i].uses # {} => i < Len(ms) /\ ms[i + 1].results = ms[i].uses
          /\ ms[i].results # {} => i > 1 /\ ms[i - 1].uses = ms[i].results
      BY <3>1 DEF History, Answered
    <3>3. i < Len(ms) => i + 1 \in 1..Len(ms)
      BY <1>1, <3>1
    <3>4. i > 1 => i - 1 \in 1..Len(ms)
      BY <1>1, <3>1
    <3> QED BY <1>1, <3>1, <3>2, <3>3, <3>4
  <2> QED BY <2>1, <2>2
<1>3. Separate(r)
  <2>1. \A i \in 1..Len(ms) : m.carried \cap ms[i].carried = {}
    BY <1>1 DEF Carried
  <2> SUFFICES ASSUME NEW i \in 1..Len(r), NEW j \in 1..Len(r), i # j
               PROVE  r[i].carried \cap r[j].carried = {}
    BY DEF Separate
  <2>2. /\ i \in 1..Len(ms) \/ i = Len(ms) + 1
        /\ j \in 1..Len(ms) \/ j = Len(ms) + 1
    BY <1>1
  <2> QED BY <1>1, <2>1, <2>2 DEF History, Separate
<1> QED BY <1>1, <1>2, <1>3 DEF History, r

\* A message with calls, and the results of all of them.
LEMMA AppendCalls ==
  ASSUME NEW ms, History(ms), NEW ids \in SUBSET Nat, ids # {}
  PROVE  LET r == Append(Append(ms, Reply(ids)), Results(ids))
         IN  History(r) /\ Carried(r) = Carried(ms)
<1> DEFINE a == Append(ms, Reply(ids))
           r == Append(a, Results(ids))
           n == Len(ms)
<1>1. /\ Reply(ids) \in Messages /\ Results(ids) \in Messages
      /\ Reply(ids).uses = ids /\ Reply(ids).results = {} /\ Reply(ids).carried = {}
      /\ Results(ids).uses = {} /\ Results(ids).results = ids
      /\ Results(ids).carried = {}
  BY MessageTypes
<1>2. /\ a \in Seq(Messages) /\ n \in Nat /\ Len(a) = n + 1
      /\ \A i \in 1..n : a[i] = ms[i]
      /\ a[n + 1] = Reply(ids)
      /\ Carried(a) = Carried(ms) \cup Reply(ids).carried
  <2> HIDE DEF Messages, Carried
  <2>1. ms \in Seq(Messages)
    BY DEF History
  <2> QED BY <1>1, <2>1, AppendFacts
<1>3. DOMAIN ms = 1..n
  BY AppendFacts, <1>1 DEF History
<1> HIDE DEF a
<1>4. /\ r \in Seq(Messages) /\ r # <<>> /\ Len(r) = n + 2
      /\ \A i \in 1..(n + 1) : r[i] = a[i]
      /\ r[n + 2] = Results(ids)
      /\ Carried(r) = Carried(a) \cup Results(ids).carried
  <2> HIDE DEF Messages, Carried
  <2> HIDE DEF n
  <2>1. /\ r \in Seq(Messages) /\ r # <<>> /\ Len(r) = Len(a) + 1
        /\ \A i \in 1..Len(a) : r[i] = a[i]
        /\ r[Len(a) + 1] = Results(ids)
        /\ Carried(r) = Carried(a) \cup Results(ids).carried
    BY <1>1, <1>2, AppendFacts
  <2> HIDE DEF r
  <2>2. Len(a) + 1 = n + 2
    BY <1>2
  <2> QED BY <1>2, <2>1, <2>2
<1> HIDE DEF r, n
<1>5. /\ \A i \in 1..n : r[i] = ms[i]
      /\ r[n + 1] = Reply(ids)
  BY <1>2, <1>4
<1>6. Answered(r)
  <2> SUFFICES ASSUME NEW i \in 1..Len(r)
               PROVE  /\ r[i].uses # {} => i < Len(r) /\ r[i + 1].results = r[i].uses
                      /\ r[i].results # {} => i > 1 /\ r[i - 1].uses = r[i].results
    BY DEF Answered
  <2>1. CASE i = n + 1
    BY <1>1, <1>2, <1>4, <1>5, <2>1
  <2>2. CASE i = n + 2
    <3>1. i - 1 = n + 1 /\ i > 1
      BY <1>2, <2>2
    <3> QED BY <1>1, <1>4, <1>5, <2>2, <3>1
  <2>3. CASE i # n + 1 /\ i # n + 2
    <3>1. i \in 1..n
      BY <1>2, <1>4, <2>3
    <3>2. /\ ms[i].uses # {} => i < n /\ ms[i + 1].results = ms[i].uses
          /\ ms[i].results # {} => i > 1 /\ ms[i - 1].uses = ms[i].results
      BY <3>1 DEF History, Answered, n
    <3>3. i < n => i + 1 \in 1..n
      BY <1>2, <3>1
    <3>4. i > 1 => i - 1 \in 1..n
      BY <1>2, <3>1
    <3>5. n < Len(r)
      BY <1>2, <1>4
    <3> QED BY <1>2, <1>4, <1>5, <3>1, <3>2, <3>3, <3>4, <3>5
  <2> QED BY <2>1, <2>2, <2>3
<1>7. Separate(r)
  <2> SUFFICES ASSUME NEW i \in 1..Len(r), NEW j \in 1..Len(r), i # j
               PROVE  r[i].carried \cap r[j].carried = {}
    BY DEF Separate
  <2>1. /\ i \in 1..n \/ r[i].carried = {}
        /\ j \in 1..n \/ r[j].carried = {}
    BY <1>1, <1>2, <1>4, <1>5
  <2> QED BY <1>5, <2>1 DEF History, Separate, n
<1>8. Carried(r) = Carried(ms)
  BY <1>1, <1>2, <1>4
<1> QED BY <1>4, <1>6, <1>7, <1>8 DEF History, r, a

\* _drain_interjections: the history takes the queue's interjections over,
\* whichever of its two ways it goes.
LEMMA DrainHistory ==
  ASSUME NEW ms, History(ms), NEW q \in Seq(Interjections),
         Elems(q) \cap Carried(ms) = {}
  PROVE  /\ History(DrainInterjections(ms, q))
         /\ Carried(DrainInterjections(ms, q)) = Carried(ms) \cup Elems(q)
<1>0. Elems(q) \in SUBSET Interjections
  <2>1. DOMAIN q = 1..Len(q) /\ \A i \in 1..Len(q) : q[i] \in Interjections
    <3> HIDE DEF Interjections
    <3> QED BY LenProperties, ElementOfSeq
  <2> QED BY <2>1 DEF Elems
<1>1. CASE q = <<>>
  <2>1. Elems(q) = {}
    BY <1>1 DEF Elems
  <2> QED BY <1>1, <2>1 DEF DrainInterjections
<1>2. CASE q # <<>> /\ Last(ms).role # "user"
  <2> DEFINE m == Message("user", TRUE, {}, {}, Elems(q))
  <2>1. m \in Messages /\ m.uses = {} /\ m.results = {} /\ m.carried = Elems(q)
    BY <1>0, MessageTypes
  <2>2. DrainInterjections(ms, q) = Append(ms, m)
    BY <1>2 DEF DrainInterjections
  <2> HIDE DEF m
  <2> QED BY <2>1, <2>2, AppendHistory
<1>3. CASE q # <<>> /\ Last(ms).role = "user"
  <2> DEFINE n == Len(ms)
             e == [ms[n] EXCEPT !.carried = ms[n].carried \cup Elems(q)]
             r == [ms EXCEPT ![n] = e]
  <2>1. /\ n \in Nat \ {0} /\ DOMAIN ms = 1..n
        /\ \A i \in 1..n : ms[i] \in Messages
    <3> HIDE DEF Messages
    <3> QED BY EmptySeq, LenProperties, ElementOfSeq DEF History
  <2>2. DrainInterjections(ms, q) = r
    BY <1>3 DEF DrainInterjections, Last
  <2> HIDE DEF n
  <2>3. /\ e \in Messages /\ e.carried = ms[n].carried \cup Elems(q)
        /\ e.uses = ms[n].uses /\ e.results = ms[n].results
    <3>1. n \in 1..n
      BY <2>1
    <3>2. ms[n] \in Messages
      BY <2>1, <3>1
    <3> QED BY <1>0, <3>2 DEF Messages
  <2> HIDE DEF e
  <2>4. /\ r \in Seq(Messages) /\ Len(r) = n
        /\ \A j \in 1..n : r[j] = IF j = n THEN e ELSE ms[j]
    <3>1. n \in 1..Len(ms)
      BY <2>1 DEF n
    <3> HIDE DEF Messages
    <3> QED BY <2>3, <3>1, ExceptSeq DEF History, n
  <2> HIDE DEF r
  <2>5. r # <<>> /\ DOMAIN r = 1..n
    <3> HIDE DEF Messages
    <3> QED BY <2>1, <2>4, EmptySeq, LenProperties
  <2>6. Carried(r) = Carried(ms) \cup Elems(q)
    <3>1. \A i \in 1..n : r[i].carried =
                            IF i = n THEN ms[n].carried \cup Elems(q) ELSE ms[i].carried
      BY <2>3, <2>4
    <3>2. ASSUME NEW x PROVE x \in Carried(r) <=> x \in Carried(ms) \cup Elems(q)
      <4>1. x \in Carried(r) <=> \E i \in 1..n : x \in r[i].carried
        BY <2>5 DEF Carried
      <4>2. x \in Carried(ms) <=> \E i \in 1..n : x \in ms[i].carried
        BY <2>1 DEF Carried
      <4>3. n \in 1..n
        BY <2>1
      <4> QED BY <3>1, <4>1, <4>2, <4>3
    <3> QED BY <3>2
  <2>7. Answered(r)
    <3>1. \A i \in 1..n : r[i].uses = ms[i].uses /\ r[i].results = ms[i].results
      BY <2>3, <2>4
    <3> SUFFICES ASSUME NEW i \in 1..n
                 PROVE  /\ r[i].uses # {} => i < n /\ r[i + 1].results = r[i].uses
                        /\ r[i].results # {} => i > 1 /\ r[i - 1].uses = r[i].results
      BY <2>4 DEF Answered
    <3>2. /\ ms[i].uses # {} => i < n /\ ms[i + 1].results = ms[i].uses
          /\ ms[i].results # {} => i > 1 /\ ms[i - 1].uses = ms[i].results
      BY DEF History, Answered, n
    <3>3. (i < n => i + 1 \in 1..n) /\ (i > 1 => i - 1 \in 1..n)
      BY <2>1
    <3> QED BY <3>1, <3>2, <3>3
  <2>8. Separate(r)
    <3> SUFFICES ASSUME NEW i \in 1..n, NEW j \in 1..n, i # j
                 PROVE  r[i].carried \cap r[j].carried = {}
      BY <2>4 DEF Separate
    <3>1. ms[i].carried \cap ms[j].carried = {}
      BY DEF History, Separate, n
    <3>2. ms[i].carried \cap Elems(q) = {} /\ ms[j].carried \cap Elems(q) = {}
      <4>1. ms[i].carried \subseteq Carried(ms) /\ ms[j].carried \subseteq Carried(ms)
        BY <2>1 DEF Carried
      <4> QED BY <4>1
    <3> QED BY <2>3, <2>4, <3>1, <3>2
  <2> QED BY <2>2, <2>4, <2>5, <2>6, <2>7, <2>8 DEF History
<1> QED BY <1>1, <1>2, <1>3

(***************************************************************************)
(* What a step does with the history                                       *)
(***************************************************************************)

\* A message without calls, results or interjections, like a prompt.
LEMMA KeptAppend ==
  ASSUME NEW ms, NEW q, NEW s, NEW n, Kept(ms, q, s, n),
         NEW m \in Messages, m.uses = {}, m.results = {}, m.carried = {}
  PROVE  Kept(Append(ms, m), q, s, n)
<1>1. /\ History(Append(ms, m))
      /\ Carried(Append(ms, m)) = Carried(ms) \cup m.carried
  BY AppendHistory DEF Kept
<1> QED BY <1>1 DEF Kept

\* A request after _drain_interjections.
LEMMA KeptDrain ==
  ASSUME NEW ms, NEW q, NEW s, NEW n, Kept(ms, q, s, n)
  PROVE  LET d == DrainInterjections(ms, q)
         IN  Kept(d, <<>>, s \cup Carried(d), n)
<1> DEFINE d == DrainInterjections(ms, q)
<1>1. History(d) /\ Carried(d) = Carried(ms) \cup Elems(q)
  BY DrainHistory DEF Kept
<1>2. <<>> \in Seq(Interjections) /\ Elems(<<>>) = {}
  BY DEF Elems
<1> HIDE DEF d
<1>3. Kept(d, <<>>, s \cup Carried(d), n)
  BY <1>1, <1>2 DEF Kept
<1> QED BY <1>3 DEF d

\* The loop goes on from the history ms.
LEMMA RoundFacts ==
  ASSUME NEW ms, Kept(ms, inbox, seen, arrived), NextRound(ms)
  PROVE  /\ Kept(messages', inbox', seen', arrived)
         /\ pc' \in {"chat", "summary"}
         /\ pc' = "chat" => roundNum < maxRounds
<1>1. CASE /\ roundNum < maxRounds
           /\ Request("chat", DrainInterjections(ms, inbox))
           /\ inbox' = <<>>
  BY <1>1, KeptDrain DEF Request
<1>2. CASE /\ roundNum >= maxRounds
           /\ Request("summary", Append(ms, Prompt))
           /\ UNCHANGED inbox
  <2>1. Kept(Append(ms, Prompt), inbox, seen, arrived)
    BY KeptAppend, MessageTypes
  <2>2. Kept(messages', inbox', seen', arrived)
    BY <1>2, <2>1 DEF Request, Kept
  <2> QED BY <1>2, <2>2 DEF Request
<1> QED BY <1>1, <1>2 DEF NextRound

\* What is kept has its types.
LEMMA KeptTypes ==
  ASSUME NEW ms, NEW q, NEW s, NEW n \in 0..MaxInterjections, Kept(ms, q, s, n)
  PROVE  /\ ms \in Seq(Messages) /\ ms # <<>>
         /\ q \in Seq(Interjections) /\ s \subseteq Interjections
<1>1. 1..n \subseteq Interjections
  BY DEF Interjections
<1> QED BY <1>1 DEF Kept, History

\* The loop goes on with nothing owed, and with rounds before the checkpoint.
LEMMA RoundStep ==
  ASSUME LoopInv, NEW ms, Kept(ms, inbox, seen, arrived), NextRound(ms),
         UNCHANGED <<arrived, roundNum, maxRounds, nudges, callCount>>,
         callsLeft' \subseteq Nat, toolResults' \subseteq Nat,
         sinceCheckpoint' \in 0..(CheckpointEvery - 1),
         owed' \in Nat, delivered' = owed'
  PROVE  LoopInv'
<1>1. /\ Kept(messages', inbox', seen', arrived')
      /\ pc' \in {"chat", "summary"}
      /\ pc' = "chat" => roundNum' < maxRounds'
  BY RoundFacts
<1>2. arrived' \in 0..MaxInterjections
  BY DEF LoopInv, TypeOK
<1>3. /\ messages' \in Seq(Messages) /\ messages' # <<>>
      /\ inbox' \in Seq(Interjections) /\ seen' \subseteq Interjections
  BY <1>1, <1>2, KeptTypes
<1>4. sinceCheckpoint' \in 0..CheckpointEvery /\ sinceCheckpoint' < CheckpointEvery
  OBVIOUS
<1>5. TypeOK'
  BY <1>1, <1>2, <1>3, <1>4 DEF LoopInv, TypeOK, Awaits
<1>6. RoundsLeft'
  BY <1>1, <1>4 DEF LoopInv, RoundsLeft
<1>7. Outlook' = messages'
  BY <1>1 DEF Outlook
<1> QED BY <1>1, <1>5, <1>6, <1>7 DEF LoopInv, Accounts

LEMMA LoopInit == Init => LoopInv
<1> SUFFICES ASSUME Init PROVE LoopInv
  OBVIOUS
<1>1. /\ messages \in Seq(Messages) /\ messages # <<>> /\ Len(messages) = 1
      /\ messages[1] = Prompt /\ DOMAIN messages = {1}
  BY MessageTypes DEF Init
<1>2. Carried(messages) = {}
  BY <1>1, MessageTypes DEF Carried
<1>3. History(messages)
  BY <1>1, MessageTypes DEF History, Answered, Separate
<1>4. inbox \in Seq(Interjections) /\ Elems(inbox) = {} /\ 1..arrived = {}
  BY DEF Init, Elems
<1>5. Kept(Outlook, inbox, seen, arrived)
  BY <1>2, <1>3, <1>4 DEF Kept, Outlook, Init
<1>6. TypeOK
  BY <1>1, <1>4 DEF Init, TypeOK, Awaits
<1> QED BY <1>5, <1>6 DEF LoopInv, RoundsLeft, Accounts, Init

\* What the loop knows at an await other than the running of calls.
LEMMA KeptHere ==
  ASSUME LoopInv, pc # "call"
  PROVE  Kept(messages, inbox, seen, arrived)
BY DEF LoopInv, Outlook

(***************************************************************************)
(* The actions                                                             *)
(***************************************************************************)

LEMMA InterjectStep == LoopInv /\ Interject => LoopInv'
<1> SUFFICES ASSUME LoopInv, Interject PROVE LoopInv'
  OBVIOUS
<1> DEFINE x == arrived + 1
<1>1. /\ arrived \in Nat /\ x \in Interjections /\ inbox \in Seq(Interjections)
      /\ inbox' = Append(inbox, x) /\ arrived' = x /\ x <= MaxInterjections
      /\ pc' = pc /\ Outlook' = Outlook /\ seen' = seen
  BY DEF LoopInv, TypeOK, Interject, Interjections, Outlook
<1>2. inbox' \in Seq(Interjections) /\ Elems(inbox') = Elems(inbox) \cup {x}
  <2> HIDE DEF Interjections, x
  <2>1. /\ inbox' \in Seq(Interjections) /\ Len(inbox) \in Nat
        /\ Len(inbox') = Len(inbox) + 1
        /\ \A i \in 1..Len(inbox) : inbox'[i] = inbox[i]
        /\ inbox'[Len(inbox) + 1] = x
    BY <1>1, AppendProperties, LenProperties
  <2>2. DOMAIN inbox = 1..Len(inbox) /\ DOMAIN inbox' = 1..(Len(inbox) + 1)
    BY <1>1, <2>1, LenProperties
  <2>3. 1..(Len(inbox) + 1) = 1..Len(inbox) \cup {Len(inbox) + 1}
    BY <2>1
  <2> QED BY <2>1, <2>2, <2>3 DEF Elems
<1>3. x \notin 1..arrived /\ 1..x = 1..arrived \cup {x}
  BY <1>1
<1>4. Kept(Outlook', inbox', seen', arrived')
  <2> HIDE DEF x
  <2>1. Kept(Outlook, inbox, seen, arrived)
    BY DEF LoopInv
  <2> QED BY <1>1, <1>2, <1>3, <2>1 DEF Kept
<1>5. TypeOK'
  BY <1>1, <1>2 DEF LoopInv, TypeOK, Interject
<1> QED BY <1>1, <1>4, <1>5 DEF LoopInv, Interject, RoundsLeft, Accounts, Finished

LEMMA BeginStep == LoopInv /\ Begin => LoopInv'
<1> SUFFICES ASSUME LoopInv, Begin PROVE LoopInv'
  OBVIOUS
<1>1. Kept(messages, inbox, seen, arrived)
  BY KeptHere DEF Begin
<1>2. /\ sinceCheckpoint' \in 0..(CheckpointEvery - 1)
      /\ owed' \in Nat /\ delivered' = owed'
      /\ callsLeft' \subseteq Nat /\ toolResults' \subseteq Nat
  BY DEF LoopInv, TypeOK, RoundsLeft, Accounts, Begin
<1> QED BY <1>1, <1>2, RoundStep DEF Begin

LEMMA ReplyWithCallsStep == LoopInv /\ ReplyWithCalls => LoopInv'
<1> SUFFICES ASSUME LoopInv, ReplyWithCalls PROVE LoopInv'
  OBVIOUS
<1>1. PICK n \in 1..MaxCalls :
        /\ messages' = Append(messages, Reply((callCount + 1)..(callCount + n)))
        /\ callsLeft' = (callCount + 1)..(callCount + n)
        /\ callCount' = callCount + n
  BY DEF ReplyWithCalls
<1> DEFINE ids == (callCount + 1)..(callCount + n)
<1>2. ids \in SUBSET Nat /\ ids # {} /\ callCount' \in Nat
  <2>1. callCount \in Nat /\ n \in Nat /\ n >= 1
    BY DEF LoopInv, TypeOK
  <2>2. callCount + 1 \in ids
    BY <2>1
  <2>3. callCount' \in Nat
    BY <1>1, <2>1
  <2>4. \A i \in ids : i \in Nat
    BY <2>1
  <2> QED BY <2>2, <2>3, <2>4
<1>3. messages' = Append(messages, Reply(ids)) /\ callsLeft' = ids
  BY <1>1
<1> HIDE DEF ids
<1>4. Kept(messages, inbox, seen, arrived)
  BY KeptHere DEF ReplyWithCalls
<1>5. Outlook' = Append(messages', Results(ids))
  <2>1. callsLeft' \cup toolResults' = ids
    BY <1>3 DEF ReplyWithCalls
  <2> QED BY <2>1 DEF ReplyWithCalls, Outlook, Results
<1>6. Kept(Outlook', inbox', seen', arrived')
  <2>1. History(Outlook') /\ Carried(Outlook') = Carried(messages)
    BY <1>2, <1>3, <1>4, <1>5, AppendCalls DEF Kept
  <2> QED BY <1>4, <2>1 DEF Kept, ReplyWithCalls
<1>7. messages' \in Seq(Messages) /\ messages' # <<>>
  <2>1. messages \in Seq(Messages) /\ Reply(ids) \in Messages
    BY <1>2, MessageTypes DEF LoopInv, TypeOK
  <2> HIDE DEF Messages
  <2> QED BY <1>3, <2>1, AppendFacts
<1>8. roundNum' \in Nat /\ roundNum' <= maxRounds'
  BY DEF LoopInv, RoundsLeft, ReplyWithCalls, TypeOK
<1>9. TypeOK'
  BY <1>2, <1>3, <1>7, <1>8 DEF LoopInv, TypeOK, Awaits, ReplyWithCalls
<1> QED BY <1>6, <1>9 DEF LoopInv, RoundsLeft, Accounts, ReplyWithCalls

LEMMA CallDoneStep == LoopInv /\ CallDone => LoopInv'
<1> SUFFICES ASSUME LoopInv, NEW id \in callsLeft, NextCall(id),
                    CallOver(id, toolResults \cup {id})
             PROVE  LoopInv'
  BY DEF CallDone
<1>1. /\ pc = "call" /\ id \in Nat
      /\ toolResults' = toolResults \cup {id} /\ callsLeft' = callsLeft \ {id}
      /\ toolResults' \subseteq Nat /\ callsLeft' \subseteq Nat
  BY DEF NextCall, CallOver, LoopInv, TypeOK
<1>2. callsLeft' \cup toolResults' = callsLeft \cup toolResults
  BY <1>1
<1>3. CASE UNCHANGED <<pc, messages, inbox, sinceCheckpoint, seen>>
  <2>1. Outlook' = Outlook
    BY <1>1, <1>2, <1>3 DEF Outlook
  <2>2. Kept(Outlook', inbox', seen', arrived')
    BY <1>3, <2>1 DEF LoopInv, CallOver
  <2>3. TypeOK'
    BY <1>1, <1>3 DEF LoopInv, TypeOK, CallOver
  <2> QED BY <1>1, <1>3, <2>2, <2>3 DEF LoopInv, RoundsLeft, Accounts, CallOver
<1>4. CASE callsLeft = {id} /\ FinishCalls(toolResults \cup {id})
  <2> DEFINE ms == Append(messages, Results(toolResults \cup {id}))
  <2>1. Kept(ms, inbox, seen, arrived)
    <3>1. callsLeft \cup toolResults = toolResults \cup {id}
      BY <1>4
    <3> QED BY <1>1, <3>1 DEF LoopInv, Outlook
  <2>2. ms = Append(messages, Message("user", TRUE, {}, toolResults \cup {id}, {}))
    BY DEF Results
  <2> HIDE DEF ms
  <2>3. CASE sinceCheckpoint + 1 < CheckpointEvery /\ NextRound(ms)
    <3>1. /\ sinceCheckpoint' \in 0..(CheckpointEvery - 1)
          /\ owed' \in Nat /\ delivered' = owed'
      BY <1>1, <1>4, <2>3 DEF FinishCalls, LoopInv, TypeOK, Accounts, CallOver
    <3> QED BY <1>1, <2>1, <2>3, <3>1, RoundStep DEF CallOver
  <2>4. CASE /\ Request("checkpoint", Append(ms, Prompt))
             /\ UNCHANGED inbox
    <3>1. Kept(messages', inbox, seen, arrived)
      BY <2>1, <2>4, KeptAppend, MessageTypes DEF Request
    <3>2. pc' = "checkpoint" /\ arrived' = arrived /\ Outlook' = messages'
      BY <2>4 DEF Request, CallOver, Outlook
    <3>3. Kept(messages', inbox', seen', arrived')
      BY <2>4, <3>1, <3>2 DEF Request, Kept
    <3>4. /\ messages' \in Seq(Messages) /\ messages' # <<>>
          /\ inbox' \in Seq(Interjections) /\ seen' \subseteq Interjections
      BY <3>2, <3>3, KeptTypes DEF LoopInv, TypeOK
    <3>5. sinceCheckpoint' \in 0..CheckpointEvery
      BY <1>1, <1>4 DEF LoopInv, TypeOK, RoundsLeft, FinishCalls
    <3>6. TypeOK'
      BY <1>1, <3>2, <3>4, <3>5 DEF LoopInv, TypeOK, Awaits, CallOver
    <3> QED BY <1>1, <3>2, <3>3, <3>6 DEF LoopInv, RoundsLeft, Accounts, CallOver
  <2> QED BY <1>4, <2>2, <2>3, <2>4 DEF FinishCalls
<1> QED BY <1>3, <1>4 DEF CallOver

LEMMA EndCheckpointStep ==
  LoopInv /\ pc \in {"checkpoint", "report"} /\ EndCheckpoint => LoopInv'
<1> SUFFICES ASSUME LoopInv, pc \in {"checkpoint", "report"}, EndCheckpoint
             PROVE  LoopInv'
  OBVIOUS
<1>1. Kept(Append(messages, Reply({})), inbox, seen, arrived)
  <2>1. /\ Reply({}) \in Messages /\ Reply({}).uses = {}
        /\ Reply({}).results = {} /\ Reply({}).carried = {}
    BY MessageTypes
  <2> QED BY <2>1, KeptHere, KeptAppend
<1>2. /\ sinceCheckpoint' \in 0..(CheckpointEvery - 1)
      /\ owed' \in Nat /\ delivered' = owed'
      /\ callsLeft' \subseteq Nat /\ toolResults' \subseteq Nat
  BY DEF LoopInv, TypeOK, Accounts, EndCheckpoint
<1> QED BY <1>1, <1>2, RoundStep DEF EndCheckpoint

LEMMA CheckpointReplyStep == LoopInv /\ CheckpointReply => LoopInv'
<1> SUFFICES ASSUME LoopInv, CheckpointReply PROVE LoopInv'
  OBVIOUS
<1>1. ASSUME pc = "checkpoint", pc' = "report",
             UNCHANGED <<messages, inbox, arrived, roundNum, maxRounds,
                         sinceCheckpoint, nudges, callsLeft, toolResults,
                         callCount, seen, owed, delivered>>
      PROVE  LoopInv'
  <2>1. Outlook' = Outlook
    BY <1>1 DEF Outlook
  <2>2. TypeOK'
    BY <1>1 DEF LoopInv, TypeOK, Awaits
  <2> QED BY <1>1, <2>1, <2>2 DEF LoopInv, RoundsLeft, Accounts
<1> QED BY <1>1, EndCheckpointStep DEF CheckpointReply

LEMMA ReportSentStep == LoopInv /\ ReportSent => LoopInv'
BY EndCheckpointStep DEF ReportSent

LEMMA AnswerSentStep == LoopInv /\ AnswerSent => LoopInv'
<1> SUFFICES ASSUME LoopInv, AnswerSent PROVE LoopInv'
  OBVIOUS
<1>1. Kept(messages, inbox, seen, arrived)
  BY KeptHere DEF AnswerSent
<1>2. /\ sinceCheckpoint' \in 0..(CheckpointEvery - 1)
      /\ owed' \in Nat /\ delivered' = owed'
      /\ callsLeft' \subseteq Nat /\ toolResults' \subseteq Nat
  BY DEF LoopInv, TypeOK, RoundsLeft, Accounts, AnswerSent
<1> QED BY <1>1, <1>2, RoundStep DEF AnswerSent

LEMMA FailStep == LoopInv /\ Fail => LoopInv'
<1> SUFFICES ASSUME LoopInv, Fail PROVE LoopInv'
  OBVIOUS
<1>1. Outlook' = Outlook
  BY DEF Outlook, Fail
<1>2. TypeOK'
  BY DEF LoopInv, TypeOK, Awaits, Fail
<1> QED BY <1>1, <1>2 DEF LoopInv, RoundsLeft, Accounts, Fail

\* The history with the final answer, which may be empty.
LEMMA AnswerKept ==
  ASSUME LoopInv, pc # "call", NEW empty \in BOOLEAN
  PROVE  Kept(WithAnswer(empty), inbox, seen, arrived)
<1>1. /\ Reply({}) \in Messages /\ Reply({}).uses = {}
      /\ Reply({}).results = {} /\ Reply({}).carried = {}
  BY MessageTypes
<1> QED BY <1>1, KeptHere, KeptAppend DEF WithAnswer

\* Wherever a final answer leads, it leads to an await other than that of the
\* calls; what remains to be shown is what the action decides.
LEMMA FinalFrame ==
  ASSUME LoopInv, Kept(messages', inbox', seen', arrived),
         pc \in {"chat", "summary"}, pc' \in {"chat", "answer", "returned"},
         roundNum' = roundNum + (IF pc = "chat" THEN 1 ELSE 0),
         UNCHANGED <<arrived, sinceCheckpoint, callsLeft, toolResults, callCount>>,
         \/ maxRounds' = roundNum' + maxRounds
         \/ maxRounds' = maxRounds /\ pc' = "returned",
         nudges' \in 0..MaxNudges, owed' \in Nat, delivered' \in Nat,
         pc' = "returned" => inbox' = <<>>,
         pc' # "answer" => owed' = delivered',
         pc' = "answer" => owed' = delivered' + 1
  PROVE  LoopInv'
<1>1. /\ messages' \in Seq(Messages) /\ messages' # <<>>
      /\ inbox' \in Seq(Interjections) /\ seen' \subseteq Interjections
  BY KeptTypes DEF LoopInv, TypeOK
<1>2. /\ roundNum' \in Nat /\ maxRounds' \in Nat /\ maxRounds' >= 1
      /\ roundNum' <= maxRounds'
      /\ pc' # "returned" => roundNum' < maxRounds'
  BY DEF LoopInv, TypeOK, RoundsLeft
<1>3. TypeOK'
  BY <1>1, <1>2 DEF LoopInv, TypeOK, Awaits
<1>4. Outlook' = messages'
  BY DEF Outlook
<1> QED BY <1>2, <1>3, <1>4 DEF LoopInv, RoundsLeft, Accounts

LEMMA ReplyFinalStep == LoopInv /\ ReplyFinal => LoopInv'
<1> SUFFICES ASSUME LoopInv, ReplyFinal PROVE LoopInv'
  OBVIOUS
<1>1. /\ pc \in {"chat", "summary"}
      /\ roundNum' = roundNum + (IF pc = "chat" THEN 1 ELSE 0)
      /\ UNCHANGED <<arrived, sinceCheckpoint, callsLeft, toolResults, callCount>>
      /\ owed \in Nat /\ delivered = owed /\ nudges \in 0..MaxNudges
      /\ pc # "call"
  BY DEF ReplyFinal, LoopInv, TypeOK, Accounts
<1>2. ASSUME Nudge PROVE LoopInv'
  <2>1. Kept(Append(WithAnswer(FALSE), Prompt), inbox, seen, arrived)
    BY <1>1, AnswerKept, KeptAppend, MessageTypes
  <2>2. Kept(messages', inbox', seen', arrived)
    BY <1>2, <2>1, KeptDrain DEF Nudge
  <2>3. nudges' \in 0..MaxNudges
    BY <1>1, <1>2 DEF Nudge
  <2> QED BY <1>1, <1>2, <2>2, <2>3, FinalFrame DEF Nudge
<1>3. ASSUME NEW text \in BOOLEAN, NEW empty \in BOOLEAN, Reenter(text, empty)
      PROVE  LoopInv'
  <2>1. Kept(WithAnswer(empty), inbox, seen, arrived)
    BY <1>1, AnswerKept
  <2>2. CASE text
    <3>1. Kept(messages', inbox', seen', arrived)
      BY <1>3, <2>1, <2>2 DEF Reenter
    <3> QED BY <1>1, <1>3, <2>2, <3>1, FinalFrame DEF Reenter
  <2>3. CASE ~text
    <3>1. Kept(messages', inbox', seen', arrived)
      BY <1>3, <2>1, <2>3, KeptDrain DEF Reenter
    <3> QED BY <1>1, <1>3, <2>3, <3>1, FinalFrame DEF Reenter
  <2> QED BY <2>2, <2>3
<1>4. ASSUME NEW text \in BOOLEAN, NEW empty \in BOOLEAN, Return(text, empty)
      PROVE  LoopInv'
  <2>1. Kept(messages', inbox', seen', arrived)
    BY <1>1, <1>4, AnswerKept DEF Return
  <2>2. /\ owed' \in Nat /\ delivered' = owed'
    BY <1>1, <1>4 DEF Return
  <2> QED BY <1>1, <1>4, <2>1, <2>2, FinalFrame DEF Return
<1> QED BY <1>2, <1>3, <1>4 DEF ReplyFinal

LEMMA LoopStep == LoopInv /\ [Next]_vars => LoopInv'
<1>1. LoopInv /\ UNCHANGED vars => LoopInv'
  BY DEF LoopInv, TypeOK, RoundsLeft, Accounts, Outlook, vars
<1> QED BY <1>1, InterjectStep, BeginStep, ReplyWithCallsStep, CallDoneStep,
           CheckpointReplyStep, ReportSentStep, ReplyFinalStep, AnswerSentStep,
           FailStep DEF Next, Step, Terminated

(***************************************************************************)
(* Whose messages follow one another                                       *)
(***************************************************************************)

\* Two user messages in a row are results and a prompt of the loop.
Spaced(ms) ==
  \A i \in 1..Len(ms) :
    i > 1 /\ ms[i - 1].role = "user" /\ ms[i].role = "user" =>
      ms[i - 1].results # {} /\ ~ms[i].blocks

\* Calls, and an answer that is being sent, are the assistant's; the first
\* round is always one that drains.
RolesInv ==
  /\ Spaced(messages)
  /\ pc \in {"call", "answer"} => Last(messages).role = "assistant"
  /\ pc = "start" => roundNum < maxRounds

\* A message of the assistant can follow any, a user's one of the assistant's,
\* and a prompt results.
LEMMA AppendSpaced ==
  ASSUME NEW ms \in Seq(Messages), Spaced(ms), ms # <<>>, NEW m \in Messages,
         \/ m.role = "assistant" \/ Last(ms).role = "assistant"
         \/ Last(ms).results # {} /\ ~m.blocks
  PROVE  /\ Spaced(Append(ms, m)) /\ Last(Append(ms, m)) = m
         /\ Append(ms, m) \in Seq(Messages) /\ Append(ms, m) # <<>>
<1> DEFINE r == Append(ms, m)
<1>1. /\ r \in Seq(Messages) /\ r # <<>> /\ Len(ms) \in Nat /\ Len(r) = Len(ms) + 1
      /\ \A i \in 1..Len(ms) : r[i] = ms[i]
      /\ r[Len(ms) + 1] = m
  BY AppendFacts
<1>2. Len(ms) > 0
  <2> HIDE DEF Messages
  <2> QED BY <1>1, EmptySeq
<1> HIDE DEF r
<1>3. Last(r) = m /\ r[Len(ms)] = Last(ms)
  BY <1>1, <1>2 DEF Last
<1>4. Spaced(r)
  <2> SUFFICES ASSUME NEW i \in 1..Len(r), i > 1,
                      r[i - 1].role = "user", r[i].role = "user"
               PROVE  r[i - 1].results # {} /\ ~r[i].blocks
    BY DEF Spaced
  <2>1. CASE i = Len(ms) + 1
    <3>1. i - 1 = Len(ms)
      BY <1>1, <2>1
    <3> QED BY <1>1, <1>3, <2>1, <3>1
  <2>2. CASE i # Len(ms) + 1
    <3>1. i \in 1..Len(ms) /\ i - 1 \in 1..Len(ms)
      BY <1>1, <2>2
    <3> QED BY <1>1, <3>1 DEF Spaced
  <2> QED BY <2>1, <2>2
<1> QED BY <1>1, <1>3, <1>4 DEF r

\* _drain_interjections never puts a user message behind another.
LEMMA DrainSpaced ==
  ASSUME NEW ms \in Seq(Messages), Spaced(ms), ms # <<>>,
         NEW q \in Seq(Interjections)
  PROVE  Spaced(DrainInterjections(ms, q))
<1>0. Elems(q) \in SUBSET Interjections
  <2>1. DOMAIN q = 1..Len(q) /\ \A i \in 1..Len(q) : q[i] \in Interjections
    <3> HIDE DEF Interjections
    <3> QED BY LenProperties, ElementOfSeq
  <2> QED BY <2>1 DEF Elems
<1>1. /\ Len(ms) \in Nat \ {0} /\ DOMAIN ms = 1..Len(ms)
      /\ \A i \in 1..Len(ms) : ms[i] \in Messages
  <2> HIDE DEF Messages
  <2> QED BY EmptySeq, LenProperties, ElementOfSeq
<1>2. CASE q = <<>>
  BY <1>2 DEF DrainInterjections
<1>3. CASE q # <<>> /\ Last(ms).role # "user"
  <2> DEFINE m == Message("user", TRUE, {}, {}, Elems(q))
  <2>1. Last(ms).role = "assistant"
    BY <1>1, <1>3 DEF Last, Messages
  <2>2. m \in Messages
    BY <1>0, MessageTypes
  <2>3. DrainInterjections(ms, q) = Append(ms, m)
    BY <1>3 DEF DrainInterjections
  <2> HIDE DEF m, Messages
  <2> QED BY <2>1, <2>2, <2>3, AppendSpaced
<1>4. CASE q # <<>> /\ Last(ms).role = "user"
  <2> DEFINE n == Len(ms)
             e == [ms[n] EXCEPT !.carried = ms[n].carried \cup Elems(q)]
             r == [ms EXCEPT ![n] = e]
  <2>1. DrainInterjections(ms, q) = r
    BY <1>4 DEF DrainInterjections, Last
  <2>2. /\ e \in Messages /\ e.role = ms[n].role /\ e.blocks = ms[n].blocks
        /\ e.results = ms[n].results
    <3>1. ms[n] \in Messages
      BY <1>1
    <3> HIDE DEF n
    <3> QED BY <1>0, <3>1 DEF Messages
  <2> HIDE DEF e
  <2>3. /\ Len(r) = n
        /\ \A j \in 1..n : r[j] = IF j = n THEN e ELSE ms[j]
    <3>1. n \in 1..Len(ms)
      BY <1>1
    <3> HIDE DEF Messages
    <3> QED BY <2>2, <3>1, ExceptSeq
  <2> HIDE DEF r
  <2>4. \A j \in 1..n : /\ r[j].role = ms[j].role
                        /\ r[j].blocks = ms[j].blocks
                        /\ r[j].results = ms[j].results
    BY <2>2, <2>3
  <2> SUFFICES ASSUME NEW i \in 1..n, i > 1,
                      r[i - 1].role = "user", r[i].role = "user"
               PROVE  r[i - 1].results # {} /\ ~r[i].blocks
    BY <2>1, <2>3 DEF Spaced
  <2>5. i - 1 \in 1..n
    BY <1>1
  <2> QED BY <2>4, <2>5 DEF Spaced
<1> QED BY <1>2, <1>3, <1>4

\* The next round, from a history that ends in a message of the assistant or
\* in results, or with rounds left.
LEMMA RoundSpaced ==
  ASSUME NEW ms \in Seq(Messages), Spaced(ms), ms # <<>>,
         inbox \in Seq(Interjections), NextRound(ms),
         \/ Last(ms).role = "assistant" \/ Last(ms).results # {}
         \/ roundNum < maxRounds,
         roundNum \in Nat, maxRounds \in Nat
  PROVE  Spaced(messages') /\ pc' \in {"chat", "summary"}
<1>1. CASE Request("chat", DrainInterjections(ms, inbox))
  BY <1>1, DrainSpaced DEF Request
<1>2. CASE roundNum >= maxRounds /\ Request("summary", Append(ms, Prompt))
  <2>1. ~Prompt.blocks /\ Prompt \in Messages
    BY MessageTypes DEF Prompt, Message
  <2>2. Last(ms).role = "assistant" \/ Last(ms).results # {}
    BY <1>2
  <2> HIDE DEF Messages
  <2> QED BY <1>2, <2>1, <2>2, AppendSpaced DEF Request
<1> QED BY <1>1, <1>2 DEF NextRound

\* An answer, or an update, or calls: a message of the assistant.
LEMMA ReplySpaced ==
  ASSUME LoopInv, RolesInv, NEW ids \in SUBSET Nat
  PROVE  LET r == Append(messages, Reply(ids))
         IN  /\ r \in Seq(Messages) /\ r # <<>> /\ Spaced(r)
             /\ Last(r).role = "assistant"
<1>1. Reply(ids) \in Messages /\ Reply(ids).role = "assistant"
  BY MessageTypes DEF Reply, Message
<1>2. messages \in Seq(Messages) /\ messages # <<>> /\ Spaced(messages)
  BY DEF LoopInv, TypeOK, RolesInv
<1> HIDE DEF Messages
<1> QED BY <1>1, <1>2, AppendSpaced

\* Behind the last result the loop asks for a progress check or goes on.
LEMMA CallsSpaced ==
  ASSUME LoopInv, RolesInv, pc = "call", NEW done \in SUBSET Nat, done # {},
         FinishCalls(done)
  PROVE  Spaced(messages') /\ pc' \in {"chat", "summary", "checkpoint"}
<1> DEFINE ms == Append(messages, Results(done))
<1>1. /\ Results(done) \in Messages /\ Results(done).results = done
      /\ Prompt \in Messages /\ ~Prompt.blocks
  BY MessageTypes DEF Prompt, Message
<1>2. /\ messages \in Seq(Messages) /\ messages # <<>> /\ Spaced(messages)
      /\ Last(messages).role = "assistant"
      /\ inbox \in Seq(Interjections) /\ roundNum \in Nat /\ maxRounds \in Nat
  BY DEF LoopInv, TypeOK, RolesInv
<1>3. ms = Append(messages, Message("user", TRUE, {}, done, {}))
  BY DEF Results
<1>4. /\ ms \in Seq(Messages) /\ ms # <<>> /\ Spaced(ms) /\ Last(ms) = Results(done)
  <2> HIDE DEF Messages
  <2> QED BY <1>1, <1>2, AppendSpaced
<1> HIDE DEF ms
<1>5. Last(ms).results # {}
  BY <1>1, <1>4
<1>6. CASE NextRound(ms)
  BY <1>2, <1>4, <1>5, <1>6, RoundSpaced
<1>7. CASE Request("checkpoint", Append(ms, Prompt))
  <2> HIDE DEF Messages
  <2> QED BY <1>1, <1>4, <1>5, <1>7, AppendSpaced DEF Request
<1> QED BY <1>3, <1>6, <1>7 DEF FinishCalls

\* The final answer goes into the history, or nothing does.
LEMMA FinalSpaced ==
  ASSUME LoopInv, RolesInv, ReplyFinal
  PROVE  /\ Spaced(messages') /\ pc' \in {"chat", "answer", "returned"}
         /\ pc' = "answer" => Last(messages').role = "assistant"
<1>1. /\ messages \in Seq(Messages) /\ messages # <<>> /\ Spaced(messages)
      /\ inbox \in Seq(Interjections)
  BY DEF LoopInv, TypeOK, RolesInv
<1>2. \A empty \in BOOLEAN :
        /\ WithAnswer(empty) \in Seq(Messages) /\ WithAnswer(empty) # <<>>
        /\ Spaced(WithAnswer(empty))
        /\ ~empty => Last(WithAnswer(empty)).role = "assistant"
  BY <1>1, ReplySpaced DEF WithAnswer
<1>3. CASE Nudge
  <2> DEFINE ms == Append(WithAnswer(FALSE), Prompt)
  <2>1. ms \in Seq(Messages) /\ ms # <<>> /\ Spaced(ms)
    <3>1. Prompt \in Messages
      BY MessageTypes
    <3> HIDE DEF Messages
    <3> QED BY <1>2, <3>1, AppendSpaced
  <2> HIDE DEF ms
  <2>2. Spaced(DrainInterjections(ms, inbox))
    BY <1>1, <2>1, DrainSpaced
  <2> QED BY <1>3, <2>2 DEF Nudge, ms
<1>4. ASSUME NEW text \in BOOLEAN, NEW empty \in BOOLEAN, text => ~empty,
             Reenter(text, empty) \/ Return(text, empty)
      PROVE  /\ Spaced(messages') /\ pc' \in {"chat", "answer", "returned"}
             /\ pc' = "answer" => Last(messages').role = "assistant"
  <2>1. Spaced(DrainInterjections(WithAnswer(empty), inbox))
    BY <1>1, <1>2, DrainSpaced
  <2> QED BY <1>2, <1>4, <2>1 DEF Reenter, Return
<1> QED BY <1>3, <1>4 DEF ReplyFinal

LEMMA RolesInit == Init => RolesInv
<1> SUFFICES ASSUME Init PROVE RolesInv
  OBVIOUS
<1>1. Len(messages) = 1 /\ roundNum < maxRounds
  BY DEF Init
<1>2. \A i \in 1..Len(messages) : ~(i > 1)
  BY <1>1
<1>3. Spaced(messages)
  BY <1>2 DEF Spaced
<1> QED BY <1>1, <1>3 DEF RolesInv, Init

LEMMA RolesStep == LoopInv /\ RolesInv /\ [Next]_vars => RolesInv'
<1> SUFFICES ASSUME LoopInv, RolesInv, [Next]_vars PROVE RolesInv'
  OBVIOUS
<1>1. /\ messages \in Seq(Messages) /\ messages # <<>> /\ Spaced(messages)
      /\ inbox \in Seq(Interjections) /\ roundNum \in Nat /\ maxRounds \in Nat
      /\ callsLeft \subseteq Nat /\ toolResults \subseteq Nat
  BY DEF LoopInv, TypeOK, RolesInv
<1>2. CASE UNCHANGED <<pc, messages, roundNum, maxRounds>>
  BY <1>2 DEF RolesInv
<1>3. CASE Begin
  <2>1. Spaced(messages') /\ pc' \in {"chat", "summary"}
    BY <1>1, <1>3, RoundSpaced DEF Begin, RolesInv
  <2> QED BY <2>1 DEF RolesInv
<1>4. CASE ReplyWithCalls
  <2>1. PICK n \in 1..MaxCalls :
          messages' = Append(messages, Reply((callCount + 1)..(callCount + n)))
    BY <1>4 DEF ReplyWithCalls
  <2>2. (callCount + 1)..(callCount + n) \in SUBSET Nat
    BY DEF LoopInv, TypeOK
  <2>3. Spaced(messages') /\ Last(messages').role = "assistant"
    BY <2>1, <2>2, ReplySpaced
  <2> QED BY <1>4, <2>3 DEF ReplyWithCalls, RolesInv
<1>5. ASSUME NEW id \in callsLeft, NextCall(id), CallOver(id, toolResults \cup {id})
      PROVE  RolesInv'
  <2>1. CASE UNCHANGED <<pc, messages, inbox, sinceCheckpoint, seen>>
    BY <1>5, <2>1, <1>2 DEF CallOver
  <2>2. CASE FinishCalls(toolResults \cup {id})
    <3>1. toolResults \cup {id} \in SUBSET Nat /\ toolResults \cup {id} # {}
      BY <1>1
    <3>2. Spaced(messages') /\ pc' \in {"chat", "summary", "checkpoint"}
      BY <1>5, <2>2, <3>1, CallsSpaced DEF NextCall
    <3> QED BY <3>2 DEF RolesInv
  <2> QED BY <1>5, <2>1, <2>2 DEF CallOver
<1>6. ASSUME EndCheckpoint PROVE RolesInv'
  <2> DEFINE ms == Append(messages, Reply({}))
  <2>1. /\ ms \in Seq(Messages) /\ ms # <<>> /\ Spaced(ms)
        /\ Last(ms).role = "assistant"
    BY ReplySpaced
  <2> HIDE DEF ms
  <2>2. NextRound(ms)
    BY <1>6 DEF EndCheckpoint, ms
  <2>3. Spaced(messages') /\ pc' \in {"chat", "summary"}
    BY <1>1, <2>1, <2>2, RoundSpaced
  <2> QED BY <2>3 DEF RolesInv
<1>7. CASE CheckpointReply \/ ReportSent
  <2>1. CASE pc' = "report" /\ UNCHANGED messages
    BY <2>1 DEF RolesInv
  <2> QED BY <1>6, <1>7, <2>1 DEF CheckpointReply, ReportSent
<1>8. CASE ReplyFinal
  <2>1. /\ Spaced(messages') /\ pc' \in {"chat", "answer", "returned"}
        /\ pc' = "answer" => Last(messages').role = "assistant"
    BY <1>8, FinalSpaced
  <2> QED BY <2>1 DEF RolesInv
<1>9. CASE AnswerSent
  <2>1. Spaced(messages') /\ pc' \in {"chat", "summary"}
    BY <1>1, <1>9, RoundSpaced DEF AnswerSent, RolesInv
  <2> QED BY <2>1 DEF RolesInv
<1>10. CASE Fail
  BY <1>10 DEF Fail, RolesInv
<1>11. CASE Interject \/ Terminated \/ UNCHANGED vars
  BY <1>2, <1>11 DEF Interject, Terminated, vars
<1> QED BY <1>3, <1>4, <1>5, <1>7, <1>8, <1>9, <1>10, <1>11 DEF Next, Step, CallDone

(***************************************************************************)
(* The theorems                                                            *)
(***************************************************************************)

LEMMA LoopHolds == Spec => []LoopInv
BY LoopInit, LoopStep, PTL DEF Spec

\* What is true of the outlook is true of the messages, but for the last one
\* while its calls are being run.
LEMMA OutlookWellFormed == LoopInv => TypeOK /\ CallsAnswered /\ InterjectedOnce
<1> SUFFICES ASSUME LoopInv PROVE CallsAnswered /\ InterjectedOnce
  BY DEF LoopInv
<1>1. messages \in Seq(Messages) /\ Kept(Outlook, inbox, seen, arrived)
  BY DEF LoopInv, TypeOK
<1>2. DOMAIN messages = 1..Len(messages) /\ Len(messages) \in Nat
  <2> HIDE DEF Messages
  <2> QED BY <1>1, LenProperties
<1>3. CASE pc # "call"
  BY <1>1, <1>2, <1>3 DEF Outlook, Kept, History, Answered, Separate,
                          CallsAnswered, InterjectedOnce
<1>4. CASE pc = "call"
  <2> DEFINE m == Results(callsLeft \cup toolResults)
             r == Append(messages, m)
  <2>1. m \in Messages /\ m.carried = {}
    BY MessageTypes DEF LoopInv, TypeOK
  <2> HIDE DEF m
  <2>2. /\ Len(r) = Len(messages) + 1
        /\ \A i \in 1..Len(messages) : r[i] = messages[i]
        /\ Carried(r) = Carried(messages)
    <3>1. Carried(r) = Carried(messages) \cup m.carried
      BY <1>1, <2>1, AppendFacts
    <3> HIDE DEF Messages
    <3> QED BY <1>1, <2>1, <3>1, AppendFacts
  <2>3. Answered(r) /\ Separate(r)
        /\ Elems(inbox) \cup Carried(r) = 1..arrived
        /\ Elems(inbox) \cap Carried(r) = {}
    BY <1>1, <1>4 DEF Outlook, Kept, History, m
  <2> HIDE DEF r
  <2>4. InterjectedOnce
    BY <1>2, <2>2, <2>3 DEF InterjectedOnce, Separate
  <2>5. ASSUME NEW i \in 1..Len(messages)
        PROVE  /\ messages[i].uses # {} =>
                    \/ i = Len(messages) /\ pc = "call"
                    \/ i < Len(messages) /\ messages[i + 1].results = messages[i].uses
               /\ messages[i].results # {} =>
                    i > 1 /\ messages[i - 1].uses = messages[i].results
    <3>1. /\ r[i].uses # {} => i < Len(r) /\ r[i + 1].results = r[i].uses
          /\ r[i].results # {} => i > 1 /\ r[i - 1].uses = r[i].results
      BY <1>2, <2>2, <2>3 DEF Answered
    <3>2. /\ i # Len(messages) => i < Len(messages) /\ i + 1 \in 1..Len(messages)
          /\ i > 1 => i - 1 \in 1..Len(messages)
      <4> DEFINE n == Len(messages)
      <4>1. n \in Nat /\ i \in 1..n
        BY <1>2
      <4> HIDE DEF n
      <4>2. (i # n => i < n /\ i + 1 \in 1..n) /\ (i > 1 => i - 1 \in 1..n)
        BY <4>1
      <4> QED BY <4>2 DEF n
    <3> QED BY <1>4, <2>2, <3>1, <3>2
  <2> QED BY <1>2, <2>4, <2>5 DEF CallsAnswered
<1> QED BY <1>3, <1>4

LEMMA RolesHold == Spec => []RolesInv
BY LoopInit, LoopStep, RolesInit, RolesStep, PTL DEF Spec

\* Whatever the model answers and whenever interjections come: every tool
\* call of the history is answered by the next message, every interjection
\* is in exactly one place, and none makes two user messages follow one
\* another, in every state of chat_loop.  The two prompts of the loop that do,
\* behind results, are the exception that the formula names.
THEOREM HistoryIsWellFormed == Spec => []WellFormed
<1>1. LoopInv /\ RolesInv => WellFormed
  <2> SUFFICES ASSUME LoopInv, RolesInv PROVE WellFormed
    OBVIOUS
  <2>1. DOMAIN messages = 1..Len(messages)
    <3>1. messages \in Seq(Messages)
      BY DEF LoopInv, TypeOK
    <3> HIDE DEF Messages
    <3> QED BY <3>1, LenProperties
  <2>2. UserMessagesApart
    BY <2>1 DEF UserMessagesApart, RolesInv, Spaced
  <2> QED BY <2>2, OutlookWellFormed DEF WellFormed
<1> QED BY <1>1, LoopHolds, RolesHold, PTL

\* chat_loop returns only when its interject queue is empty, and the model
\* has seen every interjection of the turn by then.
THEOREM GateHolds == Spec => []ExitGate
<1>1. LoopInv => ExitGate
  <2> SUFFICES ASSUME LoopInv, pc = "returned" PROVE inbox = <<>> /\ seen = 1..arrived
    BY DEF ExitGate
  <2>1. inbox = <<>> /\ Kept(messages, inbox, seen, arrived)
    BY KeptHere DEF LoopInv
  <2>2. Elems(<<>>) = {}
    BY DEF Elems
  <2> QED BY <2>1, <2>2 DEF Kept
<1> QED BY <1>1, LoopHolds, PTL

\* An answer that an interjection overtakes is sent before the loop returns.
THEOREM NoAnswerUnsent == Spec => []AnswersDelivered
<1>1. LoopInv => AnswersDelivered
  BY DEF LoopInv, Accounts, AnswersDelivered
<1> QED BY <1>1, LoopHolds, PTL
=============================================================================

-------------------------- MODULE ToolCalls_proofs --------------------------
(***************************************************************************)
(* Proofs about ToolCalls for every set of texts and calls, every overlap  *)
(* relation, every threshold and every size of the deduplicator.           *)
(***************************************************************************)
EXTENDS ToolCalls, SequenceTheorems, TLAPS

Records == [call : Calls, run : BOOLEAN]

\* What the turn knows of what it has sent: whatever reached the room was
\* noted first, a send_message call is noted before it is awaited, and an
\* answer is awaited only if it was not noted.
Noted ==
  /\ delivered \subseteq sent
  /\ pc = "tool" /\ current \in Texts => current \in sent
  /\ pc = "answer" => current \in Texts \ sent

\* TypeOK alone is not inductive: that an awaited answer is a text is in Noted.
TypesAndNotes == TypeOK /\ Noted

(***************************************************************************)
(* Types and notes                                                         *)
(***************************************************************************)

\* What track_sent() does to the deduplicator's list: a short text leaves it
\* alone, a long one becomes its last element, and every other element keeps
\* its distance from the end plus one, the oldest of a full list excepted.
LEMMA TrackSentFacts ==
  ASSUME NEW t \in Texts, tracked \in Seq(Long), Len(tracked) <= MaxTracked,
         TrackSent(t)
  PROVE  /\ tracked' \in Seq(Long)
         /\ Len(tracked') <= MaxTracked
         /\ t \notin Long => tracked' = tracked
         /\ t \in Long => /\ Len(tracked') \in DOMAIN tracked'
                          /\ tracked'[Len(tracked')] = t
         /\ t \in Long =>
              \A j \in DOMAIN tracked :
                (j > 1 \/ Len(tracked) < MaxTracked) =>
                   \E k \in DOMAIN tracked' :
                     /\ tracked'[k] = tracked[j]
                     /\ Len(tracked') - k = Len(tracked) - j + 1
<1> USE NumbersAssumption
<1>1. CASE t \notin Long
  BY <1>1 DEF TrackSent
<1>2. CASE t \in Long /\ Len(tracked) < MaxTracked
  <2>1. tracked' = Append(tracked, t)
    BY <1>2 DEF TrackSent
  <2>2. /\ tracked' \in Seq(Long)
        /\ Len(tracked') = Len(tracked) + 1
        /\ \A i \in 1..Len(tracked) : tracked'[i] = tracked[i]
        /\ tracked'[Len(tracked) + 1] = t
    BY <2>1, <1>2, AppendProperties
  <2>3. /\ DOMAIN tracked = 1..Len(tracked)
        /\ DOMAIN tracked' = 1..(Len(tracked) + 1)
        /\ Len(tracked) \in Nat
    BY <2>2, LenProperties
  <2>4. ASSUME NEW j \in DOMAIN tracked
        PROVE  \E k \in DOMAIN tracked' :
                 /\ tracked'[k] = tracked[j]
                 /\ Len(tracked') - k = Len(tracked) - j + 1
    <3>1. /\ j \in DOMAIN tracked'
          /\ tracked'[j] = tracked[j]
          /\ Len(tracked') - j = Len(tracked) - j + 1
      BY <2>2, <2>3
    <3> QED BY <3>1
  <2> QED BY <2>2, <2>3, <2>4, <1>2
<1>3. CASE t \in Long /\ ~(Len(tracked) < MaxTracked)
  <2> DEFINE u == Tail(tracked)
  <2>1. tracked' = Append(u, t)
    BY <1>3 DEF TrackSent
  <2>2. Len(tracked) \in Nat /\ Len(tracked) = MaxTracked /\ tracked # <<>>
        /\ DOMAIN tracked = 1..Len(tracked)
    BY <1>3, LenProperties, EmptySeq
  <2>3. /\ u \in Seq(Long)
        /\ Len(u) = Len(tracked) - 1
        /\ \A i \in 1..Len(u) : u[i] = tracked[i + 1]
    BY <2>2, HeadTailProperties
  <2> HIDE DEF u
  <2>4. /\ tracked' \in Seq(Long)
        /\ Len(tracked') = Len(u) + 1
        /\ \A i \in 1..Len(u) : tracked'[i] = u[i]
        /\ tracked'[Len(u) + 1] = t
    BY <2>1, <2>3, <1>3, AppendProperties
  <2>5. DOMAIN tracked' = 1..Len(tracked)
    BY <2>2, <2>3, <2>4, LenProperties
  <2>6. ASSUME NEW j \in DOMAIN tracked, j > 1
        PROVE  \E k \in DOMAIN tracked' :
                 /\ tracked'[k] = tracked[j]
                 /\ Len(tracked') - k = Len(tracked) - j + 1
    <3>1. j - 1 \in 1..Len(u) /\ u[j - 1] = tracked[j]
      BY <2>2, <2>3, <2>6
    <3>2. /\ j - 1 \in DOMAIN tracked'
          /\ tracked'[j - 1] = tracked[j]
          /\ Len(tracked') - (j - 1) = Len(tracked) - j + 1
      BY <3>1, <2>2, <2>3, <2>4, <2>5
    <3> QED BY <3>2
  <2> QED BY <2>2, <2>3, <2>4, <2>5, <2>6, <1>3
<1> QED BY <1>1, <1>2, <1>3

LEMMA InitTypes == Init => TypeOK
<1> SUFFICES ASSUME Init PROVE TypeOK
  OBVIOUS
<1>1. /\ <<>> \in Seq(Records) /\ <<>> \in Seq(Long) /\ <<>> \in Seq(Texts)
      /\ Len(<<>>) = 0
  BY EmptySeq
<1> QED BY <1>1, NumbersAssumption DEF Init, TypeOK, Records

\* A call that is remembered is a record of its call and its fate.
LEMMA RememberTypes ==
  ASSUME recent \in Seq(Records), NEW c \in Calls, NEW run \in BOOLEAN,
         Remember(c, run)
  PROVE  /\ recent' \in Seq(Records)
         /\ Len(recent') = Len(recent) + 1
         /\ \A i \in 1..Len(recent) : recent'[i] = recent[i]
         /\ recent'[Len(recent) + 1] = [call |-> c, run |-> run]
<1>1. [call |-> c, run |-> run] \in Records
  BY DEF Records
<1> HIDE DEF Records
<1>2. recent' = Append(recent, [call |-> c, run |-> run])
  BY DEF Remember
<1> QED BY <1>1, <1>2, AppendProperties

LEMMA NextTypes == TypesAndNotes /\ [Next]_vars => TypeOK'
<1> SUFFICES ASSUME TypeOK, Noted, [Next]_vars PROVE TypeOK'
  BY DEF TypesAndNotes
<1> USE NumbersAssumption
<1>0. recent \in Seq(Records) /\ count \in Nat
  BY DEF TypeOK, Records
<1>1. CASE UNCHANGED vars
  BY <1>1 DEF TypeOK, vars
<1>2. ASSUME NEW c \in Calls, RefuseDoomed(c) PROVE TypeOK'
  <2>1. recent' \in Seq(Records)
    BY <1>0, <1>2, RememberTypes DEF RefuseDoomed
  <2> QED BY <2>1, <1>2 DEF TypeOK, RefuseDoomed, NewCall, Records
<1>3. ASSUME NEW c \in Calls, RefuseDuplicate(c) PROVE TypeOK'
  <2>1. recent' \in Seq(Records)
    BY <1>0, <1>3, RememberTypes DEF RefuseDuplicate
  <2>2. c \in Texts
    BY <1>3 DEF RefuseDuplicate, IsDuplicate
  <2> QED BY <2>1, <2>2, <1>3 DEF TypeOK, RefuseDuplicate, NewCall, Records
<1>4. ASSUME NEW c \in Calls, StartTool(c) PROVE TypeOK'
  <2>1. recent' \in Seq(Records)
    BY <1>0, <1>4, RememberTypes DEF StartTool
  <2> QED BY <2>1, <1>4 DEF TypeOK, StartTool, NewCall, Records
<1>5. ASSUME NEW ok \in BOOLEAN, ToolDone(ok) PROVE TypeOK'
  <2>1. CASE current \in Texts
    <3>1. tracked' \in Seq(Long) /\ Len(tracked') <= MaxTracked
      BY <1>5, <2>1, TrackSentFacts DEF TypeOK, ToolDone
    <3>2. attempts' = Append(attempts, current) /\ attempts \in Seq(Texts)
      BY <1>5, <2>1 DEF TypeOK, ToolDone
    <3>3. attempts' \in Seq(Texts)
      BY <3>2, <2>1, AppendProperties
    <3> QED BY <3>1, <3>3, <1>5, <2>1 DEF TypeOK, ToolDone
  <2>2. CASE current \notin Texts
    BY <1>5, <2>2 DEF TypeOK, ToolDone
  <2> QED BY <2>1, <2>2
<1>6. ASSUME NEW t \in Texts, NEW ok \in BOOLEAN, Report(t, ok) PROVE TypeOK'
  BY <1>6 DEF TypeOK, Report, NewCall
<1>7. ASSUME Reenter PROVE TypeOK'
  <2>1. recent' \in Seq([call : Calls, run : BOOLEAN])
    BY <1>7, EmptySeq DEF Reenter
  <2> QED BY <2>1, <1>7 DEF TypeOK, Reenter, NewCall
<1>8. ASSUME NEW t \in Texts, Overtaken(t) PROVE TypeOK'
  <2>1. recent' \in Seq([call : Calls, run : BOOLEAN])
    BY <1>8, EmptySeq DEF Overtaken
  <2> QED BY <2>1, <1>8 DEF TypeOK, Overtaken, NewCall, Calls
<1>9. ASSUME AnswerSent PROVE TypeOK'
  BY <1>9 DEF TypeOK, Noted, AnswerSent
<1>10. CASE Terminated
  BY <1>10 DEF TypeOK, vars, Terminated
<1> QED BY <1>1, <1>2, <1>3, <1>4, <1>5, <1>6, <1>7, <1>8, <1>9, <1>10 DEF Next

LEMMA NextNotes == TypesAndNotes /\ [Next]_vars => Noted'
<1> SUFFICES ASSUME TypeOK, Noted, [Next]_vars PROVE Noted'
  BY DEF TypesAndNotes
<1>1. CASE UNCHANGED vars
  BY <1>1 DEF Noted, vars
<1>2. ASSUME NEW c \in Calls, RefuseDoomed(c) PROVE Noted'
  BY <1>2 DEF Noted, RefuseDoomed, NewCall
<1>3. ASSUME NEW c \in Calls, RefuseDuplicate(c) PROVE Noted'
  BY <1>3 DEF Noted, RefuseDuplicate, NewCall
<1>4. ASSUME NEW c \in Calls, StartTool(c) PROVE Noted'
  BY <1>4 DEF Noted, StartTool, NewCall
<1>5. ASSUME NEW ok \in BOOLEAN, ToolDone(ok) PROVE Noted'
  BY <1>5 DEF Noted, ToolDone
<1>6. ASSUME NEW t \in Texts, NEW ok \in BOOLEAN, Report(t, ok) PROVE Noted'
  BY <1>6 DEF Noted, Report, NewCall
<1>7. CASE Reenter
  BY <1>7 DEF Noted, Reenter, NewCall
<1>8. ASSUME NEW t \in Texts, Overtaken(t) PROVE Noted'
  BY <1>8 DEF Noted, Overtaken, NewCall
<1>9. CASE AnswerSent
  BY <1>9 DEF Noted, AnswerSent
<1>10. CASE Terminated
  BY <1>10 DEF Noted, vars, Terminated
<1> QED BY <1>1, <1>2, <1>3, <1>4, <1>5, <1>6, <1>7, <1>8, <1>9, <1>10 DEF Next

LEMMA TypesAndNotesHold == Spec => []TypesAndNotes
<1>1. Init => TypesAndNotes
  BY InitTypes DEF Init, TypesAndNotes, Noted
<1>2. TypesAndNotes /\ [Next]_vars => TypesAndNotes'
  BY NextTypes, NextNotes DEF TypesAndNotes
<1> QED BY <1>1, <1>2, PTL DEF Spec

\* Every variable keeps its type; in particular MessageDeduplicator never
\* tracks more than max_tracked texts.
THEOREM ToolTypes == Spec => []TypeOK
<1>1. TypesAndNotes => TypeOK
  BY DEF TypesAndNotes
<1> QED BY <1>1, TypesAndNotesHold, PTL

\* on_intermediate never sends an answer that has reached the room before.
THEOREM AnswersOnce == Spec => []NoRepeatedAnswer
<1>1. TypesAndNotes => NoRepeatedAnswer
  BY DEF TypesAndNotes, Noted, NoRepeatedAnswer
<1> QED BY <1>1, TypesAndNotesHold, PTL

(***************************************************************************)
(* Doom loops                                                              *)
(***************************************************************************)

\* The doom-loop check decides the newest call: it is run only if it does
\* not complete a row of Threshold identical calls.
LEMMA RememberNoDoom ==
  ASSUME TypeOK, NoDoomLoop, NEW c \in Calls, NEW run \in BOOLEAN,
         run => ~IsDoomed(c), Remember(c, run)
  PROVE  NoDoomLoop'
<1> USE NumbersAssumption
<1>1. /\ recent \in Seq(Records)
      /\ Len(recent) \in Nat
      /\ DOMAIN recent = 1..Len(recent)
  BY LenProperties DEF TypeOK, Records
<1>2. /\ recent' \in Seq(Records)
      /\ Len(recent') = Len(recent) + 1
      /\ \A i \in 1..Len(recent) : recent'[i] = recent[i]
      /\ recent'[Len(recent) + 1].call = c
      /\ recent'[Len(recent) + 1].run = run
  <2>1. /\ recent' \in Seq(Records)
        /\ Len(recent') = Len(recent) + 1
        /\ \A i \in 1..Len(recent) : recent'[i] = recent[i]
        /\ recent'[Len(recent) + 1] = [call |-> c, run |-> run]
    BY <1>1, RememberTypes, Zenon
  <2>2. [call |-> c, run |-> run].call = c /\ [call |-> c, run |-> run].run = run
    OBVIOUS
  <2> QED BY <2>1, <2>2, Zenon
<1>3. DOMAIN recent' = 1..(Len(recent) + 1)
  BY <1>2, LenProperties
<1> SUFFICES ASSUME NEW i \in 1..(Len(recent) + 1), i >= Threshold,
                    \A j \in (i - Threshold + 1)..i :
                       recent'[j].call = recent'[i].call
             PROVE  ~recent'[i].run
  BY <1>3 DEF NoDoomLoop
<1>4. CASE i <= Len(recent)
  <2>1. i \in DOMAIN recent /\ recent'[i] = recent[i]
    BY <1>1, <1>2, <1>4
  <2>2. ASSUME NEW j \in (i - Threshold + 1)..i
        PROVE  recent[j].call = recent[i].call
    <3>1. j \in 1..Len(recent)
      BY <1>1, <1>4
    <3> QED BY <3>1, <2>1, <1>2
  <2> QED BY <2>1, <2>2 DEF NoDoomLoop
<1>5. CASE i = Len(recent) + 1
  <2>1. Len(recent) >= Threshold - 1
    BY <1>1, <1>5
  <2>2. ASSUME NEW j \in (Len(recent) - Threshold + 2)..Len(recent)
        PROVE  recent[j].call = c
    <3>1. j \in 1..Len(recent) /\ j \in (i - Threshold + 1)..i
      BY <1>1, <1>5, <2>1
    <3> QED BY <3>1, <1>2, <1>5
  <2>3. IsDoomed(c)
    BY <2>1, <2>2 DEF IsDoomed
  <2> QED BY <2>3, <1>2, <1>5
<1> QED BY <1>4, <1>5, <1>1

LEMMA NextDoom == TypeOK /\ NoDoomLoop /\ [Next]_vars => NoDoomLoop'
<1> SUFFICES ASSUME TypeOK, NoDoomLoop, [Next]_vars PROVE NoDoomLoop'
  OBVIOUS
<1>0. recent' = <<>> => NoDoomLoop'
  BY EmptySeq DEF NoDoomLoop
<1>1. recent' = recent => NoDoomLoop'
  BY DEF NoDoomLoop
<1>2. ASSUME NEW c \in Calls, RefuseDoomed(c) PROVE NoDoomLoop'
  BY <1>2, RememberNoDoom DEF RefuseDoomed
<1>3. ASSUME NEW c \in Calls, RefuseDuplicate(c) PROVE NoDoomLoop'
  BY <1>3, RememberNoDoom DEF RefuseDuplicate
<1>4. ASSUME NEW c \in Calls, StartTool(c) PROVE NoDoomLoop'
  BY <1>4, RememberNoDoom DEF StartTool
<1>5. ASSUME NEW ok \in BOOLEAN, ToolDone(ok) PROVE NoDoomLoop'
  BY <1>5, <1>1 DEF ToolDone
<1>6. ASSUME NEW t \in Texts, NEW ok \in BOOLEAN, Report(t, ok)
      PROVE  NoDoomLoop'
  BY <1>6, <1>1 DEF Report
<1>7. CASE Reenter \/ \E t \in Texts : Overtaken(t)
  BY <1>7, <1>0 DEF Reenter, Overtaken
<1>8. CASE AnswerSent \/ Terminated \/ UNCHANGED vars
  BY <1>8, <1>1 DEF AnswerSent, Terminated, vars
<1> QED BY <1>2, <1>3, <1>4, <1>5, <1>6, <1>7, <1>8 DEF Next

\* No call is run that completes a row of DOOM_LOOP_THRESHOLD identical ones.
THEOREM DoomLoopsStop == Spec => []NoDoomLoop
<1>1. Init => NoDoomLoop
  BY EmptySeq DEF Init, NoDoomLoop
<1>2. TypeOK /\ NoDoomLoop /\ [Next]_vars => NoDoomLoop'
  BY NextDoom
<1> QED BY <1>1, <1>2, ToolTypes, PTL DEF Spec

(***************************************************************************)
(* Repeated sends                                                          *)
(***************************************************************************)

\* The deduplicator knows every long text among the last MaxTracked sends,
\* and no further from its end than the send is from the last one; a send
\* that is under way was checked against all it knows, and nothing is added
\* to that before the send returns.
Tracking ==
  /\ \A i \in DOMAIN attempts :
       (attempts[i] \in Long /\ Len(attempts) - i < MaxTracked) =>
          \E j \in DOMAIN tracked :
            /\ tracked[j] = attempts[i]
            /\ Len(tracked) - j <= Len(attempts) - i
  /\ pc = "tool" => ~IsDuplicate(current)

\* A send that the deduplicator let pass overlaps with none of those it knows.
LEMMA SentOnce ==
  ASSUME TypeOK, Tracking, NoRepeatedSend, NEW t \in Texts, ~IsDuplicate(t),
         attempts' = Append(attempts, t)
  PROVE  NoRepeatedSend'
<1> USE NumbersAssumption
<1>1. /\ attempts \in Seq(Texts)
      /\ Len(attempts) \in Nat
      /\ DOMAIN attempts = 1..Len(attempts)
  BY LenProperties DEF TypeOK
<1>2. /\ attempts' \in Seq(Texts)
      /\ Len(attempts') = Len(attempts) + 1
      /\ \A i \in 1..Len(attempts) : attempts'[i] = attempts[i]
      /\ attempts'[Len(attempts) + 1] = t
  BY <1>1, AppendProperties
<1>3. DOMAIN attempts' = 1..(Len(attempts) + 1)
  BY <1>2, LenProperties
<1> SUFFICES ASSUME NEW i \in 1..(Len(attempts) + 1),
                    NEW j \in 1..(Len(attempts) + 1),
                    i < j, j - i <= MaxTracked,
                    Duplicates(attempts'[i], attempts'[j])
             PROVE  FALSE
  BY <1>3 DEF NoRepeatedSend, Duplicates
<1>4. i \in DOMAIN attempts /\ attempts'[i] = attempts[i]
  BY <1>1, <1>2
<1>5. CASE j <= Len(attempts)
  <2>1. j \in DOMAIN attempts /\ attempts'[j] = attempts[j]
    BY <1>1, <1>2, <1>5
  <2> QED BY <2>1, <1>4 DEF NoRepeatedSend
<1>6. CASE j = Len(attempts) + 1
  <2>1. Duplicates(attempts[i], t)
    BY <1>2, <1>4, <1>6
  <2>2. attempts[i] \in Long /\ Len(attempts) - i < MaxTracked
    BY <2>1, <1>1, <1>6 DEF Duplicates
  <2>3. \E k \in DOMAIN tracked : tracked[k] = attempts[i]
    BY <2>2, <1>4 DEF Tracking
  <2>4. attempts[i] \in Elems(tracked)
    BY <2>3 DEF Elems
  <2>5. Duplicates(t, attempts[i])
    BY <2>1, TextsAssumption DEF Duplicates
  <2> QED BY <2>4, <2>5 DEF IsDuplicate
<1> QED BY <1>1, <1>5, <1>6

\* The last MaxTracked sends stay known when a send is noted.
LEMMA TrackSentTracks ==
  ASSUME TypeOK, Tracking, NEW t \in Texts, TrackSent(t),
         attempts' = Append(attempts, t),
         NEW i \in DOMAIN attempts',
         attempts'[i] \in Long, Len(attempts') - i < MaxTracked
  PROVE  \E j \in DOMAIN tracked' :
            /\ tracked'[j] = attempts'[i]
            /\ Len(tracked') - j <= Len(attempts') - i
<1> USE NumbersAssumption
<1>1. /\ attempts \in Seq(Texts)
      /\ Len(attempts) \in Nat
      /\ DOMAIN attempts = 1..Len(attempts)
  BY LenProperties DEF TypeOK
<1>2. /\ Len(attempts') = Len(attempts) + 1
      /\ DOMAIN attempts' = 1..(Len(attempts) + 1)
      /\ \A k \in 1..Len(attempts) : attempts'[k] = attempts[k]
      /\ attempts'[Len(attempts) + 1] = t
  BY <1>1, AppendProperties, LenProperties
<1>3. /\ tracked' \in Seq(Long)
      /\ t \notin Long => tracked' = tracked
      /\ t \in Long => /\ Len(tracked') \in DOMAIN tracked'
                       /\ tracked'[Len(tracked')] = t
      /\ t \in Long =>
           \A j \in DOMAIN tracked :
             (j > 1 \/ Len(tracked) < MaxTracked) =>
                \E k \in DOMAIN tracked' :
                  /\ tracked'[k] = tracked[j]
                  /\ Len(tracked') - k = Len(tracked) - j + 1
  BY TrackSentFacts DEF TypeOK
<1>4. /\ Len(tracked) \in Nat /\ DOMAIN tracked = 1..Len(tracked)
      /\ Len(tracked) <= MaxTracked
      /\ Len(tracked') \in Nat
  BY <1>3, LenProperties DEF TypeOK
<1>5. CASE i = Len(attempts) + 1
  <2>1. t \in Long /\ attempts'[i] = t /\ Len(attempts') - i = 0
    BY <1>1, <1>2, <1>5
  <2>2. Len(tracked') - Len(tracked') <= Len(attempts') - i
    BY <2>1, <1>4
  <2> QED BY <2>1, <2>2, <1>3
<1>6. CASE i # Len(attempts) + 1
  <2>1. /\ i \in DOMAIN attempts
        /\ attempts'[i] = attempts[i]
        /\ Len(attempts') - i = Len(attempts) - i + 1
        /\ Len(attempts) - i + 1 < MaxTracked
    BY <1>1, <1>2, <1>6
  <2>2. attempts[i] \in Long /\ Len(attempts) - i < MaxTracked
    BY <2>1, <1>1
  <2>3. PICK j \in DOMAIN tracked : /\ tracked[j] = attempts[i]
                                    /\ Len(tracked) - j <= Len(attempts) - i
    BY <2>1, <2>2 DEF Tracking
  <2>4. CASE t \notin Long
    <3>1. tracked' = tracked
      BY <1>3, <2>4
    <3>2. Len(tracked) - j <= Len(attempts') - i
      BY <1>1, <1>4, <2>1, <2>3
    <3> QED BY <3>1, <3>2, <2>1, <2>3
  <2>5. CASE t \in Long
    <3>1. j > 1 \/ Len(tracked) < MaxTracked
      BY <1>1, <1>4, <2>1, <2>3
    <3>2. PICK k \in DOMAIN tracked' : /\ tracked'[k] = tracked[j]
                                       /\ Len(tracked') - k = Len(tracked) - j + 1
      BY <3>1, <1>3, <2>5
    <3>3. Len(tracked') - k <= Len(attempts') - i
      BY <3>2, <1>1, <1>4, <2>1, <2>3
    <3> QED BY <3>2, <3>3, <2>1, <2>3
  <2> QED BY <2>4, <2>5
<1> QED BY <1>5, <1>6

LEMMA NextSends ==
  TypesAndNotes /\ Tracking /\ NoRepeatedSend /\ [Next]_vars
    => (Tracking /\ NoRepeatedSend)'
<1> SUFFICES ASSUME TypeOK, Noted, Tracking, NoRepeatedSend, [Next]_vars
             PROVE  (Tracking /\ NoRepeatedSend)'
  BY DEF TypesAndNotes
<1>1. (UNCHANGED <<attempts, tracked, current>> /\ (pc' = "tool" => pc = "tool"))
        => (Tracking /\ NoRepeatedSend)'
  BY DEF Tracking, NoRepeatedSend, IsDuplicate
<1>2. ASSUME UNCHANGED <<attempts, tracked>>, pc' # "tool"
      PROVE  (Tracking /\ NoRepeatedSend)'
  BY <1>2 DEF Tracking, NoRepeatedSend
<1>3. ASSUME NEW c \in Calls, RefuseDoomed(c) \/ RefuseDuplicate(c)
      PROVE  (Tracking /\ NoRepeatedSend)'
  BY <1>3, <1>1 DEF RefuseDoomed, RefuseDuplicate
<1>4. ASSUME NEW c \in Calls, StartTool(c)
      PROVE  (Tracking /\ NoRepeatedSend)'
  BY <1>4 DEF StartTool, Tracking, NoRepeatedSend, IsDuplicate
<1>5. ASSUME NEW ok \in BOOLEAN, ToolDone(ok)
      PROVE  (Tracking /\ NoRepeatedSend)'
  <2>1. CASE current \in Texts
    <3>1. /\ TrackSent(current) /\ attempts' = Append(attempts, current)
          /\ ~IsDuplicate(current) /\ pc' = "loop"
      BY <1>5, <2>1 DEF ToolDone, Tracking
    <3>2. NoRepeatedSend'
      BY <3>1, <2>1, SentOnce
    <3>3. Tracking'
      BY <3>1, <2>1, TrackSentTracks DEF Tracking
    <3> QED BY <3>2, <3>3
  <2>2. CASE current \notin Texts
    BY <1>5, <2>2, <1>2 DEF ToolDone
  <2> QED BY <2>1, <2>2
<1>6. ASSUME NEW t \in Texts, NEW ok \in BOOLEAN, Report(t, ok)
      PROVE  (Tracking /\ NoRepeatedSend)'
  BY <1>6, <1>1 DEF Report
<1>7. CASE Reenter
  BY <1>7, <1>1 DEF Reenter
<1>8. ASSUME NEW t \in Texts, Overtaken(t)
      PROVE  (Tracking /\ NoRepeatedSend)'
  BY <1>8, <1>2 DEF Overtaken, NewCall
<1>9. CASE AnswerSent
  BY <1>9, <1>2 DEF AnswerSent
<1>10. CASE Terminated \/ UNCHANGED vars
  BY <1>10, <1>1 DEF Terminated, vars
<1> QED BY <1>3, <1>4, <1>5, <1>6, <1>7, <1>8, <1>9, <1>10 DEF Next

\* Of two send_message calls with overlapping texts, no more than max_tracked
\* sends apart, the second is never run.
THEOREM SendsOnce == Spec => []NoRepeatedSend
<1>1. Init => Tracking /\ NoRepeatedSend
  BY EmptySeq DEF Init, Tracking, NoRepeatedSend
<1>2. TypesAndNotes /\ (Tracking /\ NoRepeatedSend) /\ [Next]_vars
        => (Tracking /\ NoRepeatedSend)'
  BY NextSends
<1>3. (Tracking /\ NoRepeatedSend) => NoRepeatedSend
  OBVIOUS
<1> QED BY <1>1, <1>2, <1>3, TypesAndNotesHold, PTL DEF Spec

(***************************************************************************)
(* Refusals                                                                *)
(***************************************************************************)

\* All that the deduplicator knows are texts of calls that were run; each of
\* these reached the room or failed.
FromAttempts ==
  /\ \A j \in DOMAIN tracked : tracked[j] \in Elems(attempts)
  /\ Elems(attempts) \subseteq delivered \cup failed

\* Noting a send adds its text to what is known, and nothing else.
LEMMA TrackSentAdds ==
  ASSUME NEW t \in Texts, tracked \in Seq(Long), TrackSent(t)
  PROVE  Elems(tracked') \subseteq Elems(tracked) \cup {t}
<1>1. ASSUME NEW u \in Seq(Long), t \in Long
      PROVE  Elems(Append(u, t)) \subseteq Elems(u) \cup {t}
  <2> DEFINE a == Append(u, t)
  <2>1. /\ a \in Seq(Long) /\ Len(a) = Len(u) + 1 /\ Len(u) \in Nat
        /\ \A i \in 1..Len(u) : a[i] = u[i]
        /\ a[Len(u) + 1] = t
    BY <1>1, AppendProperties, LenProperties
  <2>2. DOMAIN a = 1..(Len(u) + 1) /\ DOMAIN u = 1..Len(u)
    BY <2>1, LenProperties
  <2> HIDE DEF a
  <2>3. ASSUME NEW i \in DOMAIN a PROVE a[i] \in Elems(u) \cup {t}
    <3>1. i \in 1..Len(u) \/ i = Len(u) + 1
      BY <2>1, <2>2
    <3> QED BY <3>1, <2>1, <2>2 DEF Elems
  <2>4. Elems(a) \subseteq Elems(u) \cup {t}
    BY <2>3 DEF Elems
  <2> QED BY <2>4 DEF a
<1>2. CASE t \notin Long
  BY <1>2 DEF TrackSent
<1>3. CASE t \in Long /\ Len(tracked) < MaxTracked
  <2>1. tracked' = Append(tracked, t)
    BY <1>3 DEF TrackSent
  <2> QED BY <1>1, <1>3, <2>1
<1>4. CASE t \in Long /\ ~(Len(tracked) < MaxTracked)
  <2>1. tracked # <<>>
    BY <1>4, EmptySeq, NumbersAssumption
  <2> DEFINE u == Tail(tracked)
  <2>2. /\ u \in Seq(Long) /\ Len(u) = Len(tracked) - 1
        /\ \A i \in 1..Len(u) : u[i] = tracked[i + 1]
    BY <2>1, HeadTailProperties
  <2>3. DOMAIN u = 1..Len(u) /\ DOMAIN tracked = 1..Len(tracked) /\ Len(tracked) \in Nat
    BY <2>2, LenProperties
  <2>4. tracked' = Append(u, t)
    BY <1>4 DEF TrackSent
  <2> HIDE DEF u
  <2>5. Elems(u) \subseteq Elems(tracked)
    <3> SUFFICES ASSUME NEW i \in DOMAIN u PROVE u[i] \in Elems(tracked)
      BY DEF Elems
    <3>1. i + 1 \in DOMAIN tracked /\ u[i] = tracked[i + 1]
      BY <2>2, <2>3
    <3> QED BY <3>1 DEF Elems
  <2>6. Elems(Append(u, t)) \subseteq Elems(u) \cup {t}
    BY <1>1, <1>4, <2>2
  <2> QED BY <2>4, <2>5, <2>6
<1> QED BY <1>2, <1>3, <1>4

LEMMA NextRefusals ==
  TypeOK /\ FromAttempts /\ RefusalsExplained /\ [Next]_vars
    => (FromAttempts /\ RefusalsExplained)'
<1> SUFFICES ASSUME TypeOK, FromAttempts, RefusalsExplained, [Next]_vars
             PROVE  (FromAttempts /\ RefusalsExplained)'
  OBVIOUS
<1>1. (UNCHANGED <<tracked, attempts, failed, refused>> /\ delivered \subseteq delivered')
        => (FromAttempts /\ RefusalsExplained)'
  BY DEF FromAttempts, RefusalsExplained
<1>2. ASSUME NEW c \in Calls, RefuseDuplicate(c)
      PROVE  (FromAttempts /\ RefusalsExplained)'
  <2>1. UNCHANGED <<tracked, attempts, delivered, failed>> /\ refused' = refused \cup {c}
    BY <1>2 DEF RefuseDuplicate
  <2>2. PICK u \in Elems(tracked) : Duplicates(c, u)
    BY <1>2 DEF RefuseDuplicate, IsDuplicate
  <2>3. u \in Elems(attempts)
    BY <2>2 DEF FromAttempts, Elems
  <2>4. u \in delivered \cup failed
    BY <2>3 DEF FromAttempts
  <2> QED BY <2>1, <2>2, <2>3, <2>4 DEF FromAttempts, RefusalsExplained
<1>3. ASSUME NEW ok \in BOOLEAN, ToolDone(ok), current \in Texts
      PROVE  (FromAttempts /\ RefusalsExplained)'
  <2>1. /\ TrackSent(current)
        /\ attempts' = Append(attempts, current)
        /\ refused' = refused
        /\ delivered \cup failed \cup {current} \subseteq delivered' \cup failed'
    BY <1>3 DEF ToolDone
  <2>2. /\ attempts \in Seq(Texts) /\ Len(attempts) \in Nat
        /\ DOMAIN attempts = 1..Len(attempts)
    BY LenProperties DEF TypeOK
  <2>3. /\ DOMAIN attempts' = 1..(Len(attempts) + 1)
        /\ \A i \in 1..Len(attempts) : attempts'[i] = attempts[i]
        /\ attempts'[Len(attempts) + 1] = current
    BY <2>1, <2>2, <1>3, AppendProperties, LenProperties
  <2>4. Elems(attempts') = Elems(attempts) \cup {current}
    <3>1. DOMAIN attempts' = DOMAIN attempts \cup {Len(attempts) + 1}
      BY <2>2, <2>3
    <3> QED BY <2>2, <2>3, <3>1 DEF Elems
  <2>5. Elems(tracked') \subseteq Elems(tracked) \cup {current}
    BY <2>1, <1>3, TrackSentAdds DEF TypeOK
  <2>6. Elems(tracked) \subseteq Elems(attempts)
    BY DEF FromAttempts, Elems
  <2>7. FromAttempts'
    <3>1. \A j \in DOMAIN tracked' : tracked'[j] \in Elems(tracked')
      BY DEF Elems
    <3>2. Elems(attempts) \subseteq delivered \cup failed
      BY DEF FromAttempts
    <3> QED BY <2>1, <2>4, <2>5, <2>6, <3>1, <3>2 DEF FromAttempts
  <2>8. RefusalsExplained'
    BY <2>1, <2>4 DEF RefusalsExplained
  <2> QED BY <2>7, <2>8
<1>4. ASSUME NEW ok \in BOOLEAN, ToolDone(ok), current \notin Texts
      PROVE  (FromAttempts /\ RefusalsExplained)'
  BY <1>1, <1>4 DEF ToolDone
<1>5. ASSUME \/ \E c \in Calls : RefuseDoomed(c) \/ StartTool(c)
             \/ \E t \in Texts, ok \in BOOLEAN : Report(t, ok)
             \/ Reenter \/ AnswerSent \/ Terminated
             \/ \E t \in Texts : Overtaken(t)
             \/ UNCHANGED vars
      PROVE  (FromAttempts /\ RefusalsExplained)'
  BY <1>1, <1>5 DEF RefuseDoomed, StartTool, Report, Reenter, AnswerSent, Terminated,
                    Overtaken, vars
<1> QED BY <1>2, <1>3, <1>4, <1>5 DEF Next

\* A send is refused as a duplicate only for a call of the turn that sent an
\* overlapping text, or failed to: reports, answers and other calls are no
\* reason, and only a failed send can keep a text from the room.
THEOREM RefusalsHaveReasons == Spec => []RefusalsExplained
<1>1. Init => FromAttempts /\ RefusalsExplained
  BY EmptySeq DEF Init, FromAttempts, RefusalsExplained, Elems
<1>2. TypeOK /\ (FromAttempts /\ RefusalsExplained) /\ [Next]_vars
        => (FromAttempts /\ RefusalsExplained)'
  BY NextRefusals
<1>3. (FromAttempts /\ RefusalsExplained) => RefusalsExplained
  OBVIOUS
<1> QED BY <1>1, <1>2, <1>3, ToolTypes, PTL DEF Spec
=============================================================================

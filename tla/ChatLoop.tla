------------------------------ MODULE ChatLoop ------------------------------
(***************************************************************************)
(* KimiClient.chat_loop: one turn of the agent, from the messages that     *)
(* handle_message loaded to the ChatResponse it returns, while the queue   *)
(* keeps putting interjections into the turn's interject queue.            *)
(*                                                                         *)
(* A step is what the loop does between two awaits; pc names the await it  *)
(* is suspended in.  What the model answers is arbitrary.  A message keeps *)
(* its role, whether its content is a list of blocks or a plain string,    *)
(* the tool calls it makes or answers, and the interjections merged in it. *)
(***************************************************************************)
EXTENDS Naturals, Sequences

CONSTANTS CheckpointEvery,   \* chat_loop's checkpoint_every
          BaseRounds,        \* chat_loop's max_rounds argument
          MaxNudges,         \* how often the intent guard may fire
          MaxCalls,          \* bound on the tool calls of one response
          MaxInterjections   \* bound on the interjections of a turn

ASSUME LoopAssumption ==
  /\ CheckpointEvery \in Nat \ {0}
  /\ BaseRounds \in Nat \ {0}
  /\ MaxNudges \in Nat
  /\ MaxCalls \in Nat
  /\ MaxInterjections \in Nat

VARIABLES
  pc,             \* the await the loop is in
  messages,       \* the conversation, from the turn's own user message on
  inbox,          \* the interject queue
  arrived,        \* how many interjections were put there so far
  roundNum,       \* round_num
  maxRounds,      \* max_rounds, which grows when the loop is re-entered
  sinceCheckpoint,\* rounds_since_checkpoint
  nudges,         \* intent_guard_count
  callsLeft,      \* calls of the current response that have no result yet
  toolResults,    \* results collected for the current response
  callCount,      \* calls made so far; a call's number is its id
  seen,           \* history: interjections some chat() request contained
  owed,           \* history: final answers the model has produced
  delivered       \* history: those that were sent or returned

vars == <<pc, messages, inbox, arrived, roundNum, maxRounds, sinceCheckpoint,
          nudges, callsLeft, toolResults, callCount, seen, owed, delivered>>

-----------------------------------------------------------------------------
(* Messages *)

Message(role, blocks, uses, results, carried) ==
  [role |-> role, blocks |-> blocks, uses |-> uses, results |-> results,
   carried |-> carried]

Prompt == Message("user", FALSE, {}, {}, {})
Reply(uses) == Message("assistant", TRUE, uses, {}, {})

\* The message that brought the turn about comes from load_conversation and
\* lies before start_len.
StartLen == 1

Last(s) == s[Len(s)]

Elems(s) == {s[i] : i \in DOMAIN s}

\* Fault: the interjections are always appended.
DrainAppending(ms, q) ==
  IF q = <<>> THEN ms
  ELSE Append(ms, Message("user", TRUE, {}, {}, Elems(q)))

\* _drain_interjections: everything in the interject queue, merged into a
\* trailing user message or appended as one.
DrainInterjections(ms, q) ==
  IF q = <<>> THEN ms
  ELSE IF Last(ms).role = "user"
       THEN [ms EXCEPT ![Len(ms)].carried = @ \cup Elems(q)]
       ELSE Append(ms, Message("user", TRUE, {}, {}, Elems(q)))

Carried(ms) == UNION {ms[i].carried : i \in DOMAIN ms}

-----------------------------------------------------------------------------
Init ==
  /\ pc = "start"
  /\ messages = <<Prompt>>
  /\ inbox = <<>>
  /\ arrived = 0
  /\ roundNum = 0
  /\ maxRounds = BaseRounds
  /\ sinceCheckpoint = 0
  /\ nudges = 0
  /\ callsLeft = {}
  /\ toolResults = {}
  /\ callCount = 0
  /\ seen = {}
  /\ owed = 0
  /\ delivered = 0

Finished == pc \in {"returned", "failed"}

\* MessageQueue.enqueue() during any await of the turn.
Interject ==
  /\ ~Finished
  /\ arrived < MaxInterjections
  /\ arrived' = arrived + 1
  /\ inbox' = Append(inbox, arrived + 1)
  /\ UNCHANGED <<pc, messages, roundNum, maxRounds, sinceCheckpoint, nudges,
                 callsLeft, toolResults, callCount, seen, owed, delivered>>

-----------------------------------------------------------------------------
(* The rounds *)

\* A chat() request: the model sees every message in ms.
Request(where, ms) ==
  /\ pc' = where
  /\ messages' = ms
  /\ seen' = seen \cup Carried(ms)

\* The head of the inner loop: drain and ask, or ask for a summary when the
\* rounds are used up.
NextRound(ms) ==
  \/ /\ roundNum < maxRounds
     /\ Request("chat", DrainInterjections(ms, inbox))
     /\ inbox' = <<>>
  \/ /\ roundNum >= maxRounds
     /\ Request("summary", Append(ms, Prompt))
     /\ UNCHANGED inbox

\* From handle_message's own awaits into the loop.
Begin ==
  /\ pc = "start"
  /\ NextRound(messages)
  /\ UNCHANGED <<arrived, roundNum, maxRounds, sinceCheckpoint, nudges,
                 callsLeft, toolResults, callCount, owed, delivered>>

\* The model answers with n tool calls; text beside them is discarded.
ReplyWithCalls ==
  /\ pc = "chat"
  /\ \E n \in 1..MaxCalls :
       LET ids == (callCount + 1)..(callCount + n) IN
       /\ messages' = Append(messages, Reply(ids))
       /\ callsLeft' = ids
       /\ callCount' = callCount + n
  /\ roundNum' = roundNum + 1
  /\ toolResults' = {}
  /\ pc' = "call"
  /\ UNCHANGED <<inbox, arrived, maxRounds, sinceCheckpoint, nudges, seen,
                 owed, delivered>>

\* After the last call the results are appended in one user message; a
\* checkpoint is due every CheckpointEvery rounds.
FinishCalls(results) ==
  LET ms == Append(messages, Message("user", TRUE, {}, results, {})) IN
  /\ sinceCheckpoint' = sinceCheckpoint + 1
  /\ \/ /\ sinceCheckpoint + 1 < CheckpointEvery
        /\ NextRound(ms)
     \/ /\ sinceCheckpoint + 1 >= CheckpointEvery
        /\ Request("checkpoint", Append(ms, Prompt))
        /\ UNCHANGED inbox

\* The call id is over, with these results so far.
CallOver(id, results) ==
  /\ toolResults' = results
  /\ callsLeft' = callsLeft \ {id}
  /\ \/ /\ callsLeft # {id}
        /\ UNCHANGED <<pc, messages, inbox, sinceCheckpoint, seen>>
     \/ /\ callsLeft = {id}
        /\ FinishCalls(results)
  /\ UNCHANGED <<arrived, roundNum, maxRounds, nudges, callCount, owed,
                 delivered>>

\* Calls are run in the order of their ids.
NextCall(id) == /\ pc = "call"
                /\ id \in callsLeft
                /\ \A other \in callsLeft : id <= other

\* Fault: a refused call is skipped without a result.
CallDoneOrSkipped ==
  \E id \in callsLeft :
    /\ NextCall(id)
    /\ \E results \in {toolResults, toolResults \cup {id}} : CallOver(id, results)

\* A call was run, the registry turning an exception into an error text, or
\* refused as a doom loop or a duplicate (see ToolCalls): either way it gets
\* its result.
CallDone ==
  \E id \in callsLeft : NextCall(id) /\ CallOver(id, toolResults \cup {id})

\* Fault: the rounds since the last checkpoint are not reset.
EndCheckpointUnreset ==
  /\ sinceCheckpoint' = sinceCheckpoint
  /\ NextRound(Append(messages, Reply({})))
  /\ UNCHANGED <<arrived, roundNum, maxRounds, nudges, callsLeft, toolResults,
                 callCount, owed, delivered>>

\* The progress update is appended and the next round starts; if it has a
\* text, the send_message tool delivers it first.
EndCheckpoint ==
  /\ sinceCheckpoint' = 0
  /\ NextRound(Append(messages, Reply({})))
  /\ UNCHANGED <<arrived, roundNum, maxRounds, nudges, callsLeft, toolResults,
                 callCount, owed, delivered>>

CheckpointReply ==
  /\ pc = "checkpoint"
  /\ \/ /\ pc' = "report"
        /\ UNCHANGED <<messages, inbox, arrived, roundNum, maxRounds,
                       sinceCheckpoint, nudges, callsLeft, toolResults,
                       callCount, seen, owed, delivered>>
     \/ EndCheckpoint

\* Fault: the report is tried again and again.
ReportRetried == pc = "report" /\ UNCHANGED vars

ReportSent ==
  /\ pc = "report"
  /\ EndCheckpoint

-----------------------------------------------------------------------------
(* Leaving the loop *)

\* _build_assistant_content gives no block for an answer that has neither
\* text nor thinking, and then nothing is appended.
WithAnswer(empty) == IF empty THEN messages ELSE Append(messages, Reply({}))

\* The intent guard: an announcement instead of an action is fed back.
Nudge ==
  /\ nudges < MaxNudges
  /\ nudges' = nudges + 1
  /\ maxRounds' = roundNum' + maxRounds
  /\ pc' = "chat"
  /\ messages' = DrainInterjections(Append(WithAnswer(FALSE), Prompt), inbox)
  /\ seen' = seen \cup Carried(messages')
  /\ inbox' = <<>>
  /\ UNCHANGED <<owed, delivered>>

\* Fault: the overtaken answer is committed to the history and never sent.
ReenterUnsent(text, empty) ==
  /\ inbox # <<>>
  /\ maxRounds' = roundNum' + maxRounds
  /\ pc' = "chat"
  /\ messages' = DrainInterjections(WithAnswer(empty), inbox)
  /\ seen' = seen \cup Carried(messages')
  /\ inbox' = <<>>
  /\ owed' = owed + 1
  /\ UNCHANGED <<nudges, delivered>>

\* The exit gate found an interjection: the answer is committed, sent if it
\* has a text, and the loop goes on.
Reenter(text, empty) ==
  /\ inbox # <<>>
  /\ maxRounds' = roundNum' + maxRounds
  /\ IF text
     THEN /\ pc' = "answer"
          /\ messages' = WithAnswer(empty)
          /\ owed' = owed + 1
          /\ UNCHANGED <<inbox, seen>>
     ELSE /\ pc' = "chat"
          /\ messages' = DrainInterjections(WithAnswer(empty), inbox)
          /\ seen' = seen \cup Carried(messages')
          /\ inbox' = <<>>
          /\ UNCHANGED owed
  /\ UNCHANGED <<nudges, delivered>>

\* Fault: the gate is not asked.
ReturnUnchecked(text, empty) ==
  /\ pc' = "returned"
  /\ messages' = WithAnswer(empty)
  /\ owed' = owed + (IF text THEN 1 ELSE 0)
  /\ delivered' = delivered + (IF text THEN 1 ELSE 0)
  /\ UNCHANGED <<inbox, maxRounds, nudges, seen>>

Return(text, empty) ==
  /\ inbox = <<>>
  /\ pc' = "returned"
  /\ messages' = WithAnswer(empty)
  /\ owed' = owed + (IF text THEN 1 ELSE 0)
  /\ delivered' = delivered + (IF text THEN 1 ELSE 0)
  /\ UNCHANGED <<inbox, maxRounds, nudges, seen>>

\* The model answers without a call, or with the summary it was asked for.
\* An answer that the intent guard may feed back has a text.
ReplyFinal ==
  /\ pc \in {"chat", "summary"}
  /\ roundNum' = roundNum + (IF pc = "chat" THEN 1 ELSE 0)
  /\ \/ Nudge
     \/ \E text, empty \in BOOLEAN :
          /\ text => ~empty
          /\ Reenter(text, empty) \/ Return(text, empty)
  /\ UNCHANGED <<arrived, sinceCheckpoint, callsLeft, toolResults, callCount>>

\* on_intermediate has sent the overtaken answer.
AnswerSent ==
  /\ pc = "answer"
  /\ delivered' = delivered + 1
  /\ NextRound(messages)
  /\ UNCHANGED <<arrived, roundNum, maxRounds, sinceCheckpoint, nudges,
                 callsLeft, toolResults, callCount, owed>>

\* chat() raises after its retries, or Matrix refuses the answer.
Fail ==
  /\ pc \in {"chat", "checkpoint", "summary", "answer"}
  /\ pc' = "failed"
  /\ UNCHANGED <<messages, inbox, arrived, roundNum, maxRounds,
                 sinceCheckpoint, nudges, callsLeft, toolResults, callCount,
                 seen, owed, delivered>>

-----------------------------------------------------------------------------
Step == \/ Begin \/ ReplyWithCalls \/ CallDone
        \/ CheckpointReply \/ ReportSent \/ ReplyFinal \/ AnswerSent \/ Fail

Terminated == Finished /\ UNCHANGED vars

Next == Step \/ Interject \/ Terminated

Spec == Init /\ [][Next]_vars

\* Every request, tool and send comes back (they all have timeouts).
FairSpec == Spec /\ WF_vars(Step)

-----------------------------------------------------------------------------
(* Properties *)

Interjections == 1..MaxInterjections

Awaits == {"start", "chat", "call", "checkpoint", "report", "summary",
           "answer", "returned", "failed"}

Messages == [role : {"user", "assistant"}, blocks : BOOLEAN,
             uses : SUBSET Nat, results : SUBSET Nat,
             carried : SUBSET Interjections]

\* Every variable has its type; the round, checkpoint and nudge counters stay
\* within the limits that chat_loop compares them with.
TypeOK ==
  /\ pc \in Awaits
  /\ messages \in Seq(Messages) /\ messages # <<>>
  /\ inbox \in Seq(Interjections)
  /\ arrived \in 0..MaxInterjections
  /\ roundNum \in Nat /\ maxRounds \in Nat
  /\ roundNum <= maxRounds
  /\ sinceCheckpoint \in 0..CheckpointEvery
  /\ nudges \in 0..MaxNudges
  /\ callsLeft \subseteq Nat /\ toolResults \subseteq Nat
  /\ callCount \in Nat
  /\ seen \subseteq Interjections
  /\ owed \in Nat /\ delivered \in Nat

\* The contract of the messages API: the calls of an assistant message are
\* answered, all of them and no others, by the message right after it.  Only
\* while the calls are being run is the last message unanswered, and no
\* request is made then.
CallsAnswered ==
  \A i \in DOMAIN messages :
    /\ messages[i].uses # {} =>
         \/ i = Len(messages) /\ pc = "call"
         \/ i < Len(messages) /\ messages[i + 1].results = messages[i].uses
    /\ messages[i].results # {} =>
         i > 1 /\ messages[i - 1].uses = messages[i].results

\* chat_loop does not return while a user message is pending, and every
\* interjection that arrived was in a request before the loop returned.
ExitGate ==
  pc = "returned" => inbox = <<>> /\ seen = 1..arrived

\* An interjection is merged into one message only, and only once it has
\* left the interject queue.
InterjectedOnce ==
  /\ \A i, j \in DOMAIN messages :
       i # j => messages[i].carried \cap messages[j].carried = {}
  /\ Elems(inbox) \cup Carried(messages) = 1..arrived
  /\ Elems(inbox) \cap Carried(messages) = {}

\* _drain_interjections says of consecutive user messages that the API rejects
\* them, and makes none.  chat_loop itself makes them, and only there: its
\* progress check, or its request for a summary, right behind the results of
\* the last calls.
UserMessagesApart ==
  \A i \in DOMAIN messages :
    i > 1 /\ messages[i - 1].role = "user" /\ messages[i].role = "user" =>
      messages[i - 1].results # {} /\ ~messages[i].blocks

\* Every call of the history is answered by the message behind it, the history
\* holds each interjection once, and no interjection makes two user messages
\* follow one another; the loop's own prompts may, whatever the comment of
\* _drain_interjections says of the API.
WellFormed == TypeOK /\ CallsAnswered /\ InterjectedOnce /\ UserMessagesApart

\* The user gets every final answer, those that an interjection overtook too.
AnswersDelivered ==
  pc = "returned" => delivered = owed

\* A turn comes to an end, whatever the model answers.
Terminates == <>Finished

\* What persist_response writes of the turn: the messages after start_len
\* whose content is a list of blocks.
Persisted ==
  UNION {messages[i].carried :
           i \in {j \in DOMAIN messages : j > StartLen /\ messages[j].blocks}}

\* An interjection that the agent has seen survives into the next session.
InterjectionsPersist ==
  pc = "returned" => seen \subseteq Persisted
=============================================================================

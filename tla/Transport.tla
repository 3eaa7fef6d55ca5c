----------------------------- MODULE Transport -----------------------------
(***************************************************************************)
(* _opencode_openai_completion as a whole: the login (CodexAuth), the      *)
(* request, and the stream that answers it (ReplyStream), in sessions that *)
(* ask at the same time.                                                   *)
(***************************************************************************)
EXTENDS CodexAuth, ReplyStream

CONSTANTS Pieces,  \* of text
          Replies  \* what the model may say: sequences of items

\* An item is a message whose parts are made of pieces, or a call.
ASSUME RepliesAssumption ==
  \A said \in Replies :
    /\ said \in Seq(ToSet(said))
    /\ \A item \in ToSet(said) :
         \/ item.parts \in Seq(Seq(Pieces)) /\ item = Message(item.parts)
         \/ item = Call(item.id)

Empty == [said |-> <<>>, items |-> TRUE, text |-> TRUE, got |-> Parsed(<<>>)]

VARIABLE answer  \* in the step in which chat() returns: what the model said, what
                 \* the stream showed of it, and what chat() returns

vars == <<authVars, answer>>

Init == AuthInit /\ answer = Empty

\* Fault: a stream that is cut off is an answer.
EndedAnyhow(acc) == TRUE

Ended(acc) == acc.completed

\* A stream lacks any of its events: those that the server does not send or
\* that are cut off, and those that cannot be read.
Streams ==
  UNION {[said : {said}, output : BOOLEAN, missing : SUBSET DOMAIN StreamOf(said, TRUE)] :
           said \in Replies}

At(a, event) ==
  LET stream == StreamOf(a.said, a.output)
  IN {k \in DOMAIN stream : stream[k].event = event}

\* The stream shows each item, or none and the response all of them.
ShowsItems(a) ==
  \/ At(a, "item") \cap a.missing = {}
  \/ At(a, "item") \subseteq a.missing /\ a.output

\* The stream shows all the text, and there is nothing else.
ShowsText(a) ==
  /\ At(a, "item") \subseteq a.missing /\ At(a, "delta") \cap a.missing = {}
  /\ \A k \in DOMAIN a.said : IsMessage(a.said[k])

\* What comes back; without the end of the stream it raises.
Answers ==
  LET Acc(a) == Read(Received(StreamOf(a.said, a.output), a.missing))
  IN {IF Ended(Acc(a))
      THEN [said |-> a.said, items |-> ShowsItems(a), text |-> ShowsText(a),
            got |-> Parsed(Output(Acc(a)))]
      ELSE Empty : a \in Streams}

Answer(s) ==
  /\ Serve(s)
  /\ answer' \in Answers

\* The next request of a session.
Ask(s) == Load(s) /\ answer' = Empty

Wait(s) ==
  /\ AuthStep(s)
  /\ answer' = Empty

Done == now = MaxNow /\ UNCHANGED vars

Next ==
  \/ \E s \in Sessions : Ask(s) \/ Wait(s) \/ Answer(s)
  \/ World /\ answer' = Empty
  \/ Done

Spec == Init /\ [][Next]_vars

\* A request ends, by its timeout at the latest.
FairSpec == Spec /\ \A s \in Sessions : WF_vars(Wait(s) \/ Answer(s))

-----------------------------------------------------------------------------
(* Properties *)

\* s is what is left of t when some of its elements are dropped.
Within(s, t) ==
  \E f \in [DOMAIN s -> DOMAIN t] :
    /\ \A i \in DOMAIN s : s[i] = t[f[i]]
    /\ \A i, j \in DOMAIN s : i < j => f[i] < f[j]

\* A session gets what the model said, text and calls, each once and in order,
\* if the stream shows all the items in one of the two ways that it has, and
\* the text but for the line breaks between its parts (client.py:420 joins
\* deltas with nothing, :518 parts with a newline) if it shows all the deltas
\* of a text and no item.  From any other stream that comes to its end a
\* session may get less, and does not know: events that cannot be read are
\* skipped (client.py:389-392), and the items that did come take the place of
\* a complete output (client.py:413-414).  But even then it gets nothing that
\* the model did not say, nothing twice, and nothing out of order.
AnswerIsWhatWasSaid ==
  LET said == Parsed(answer.said)
  IN /\ answer.items => answer.got = said
     /\ answer.text => /\ answer.got.calls = said.calls
                       /\ Text(answer.got.content) = Text(said.content)
     /\ Within(answer.got.calls, said.calls)
     /\ Within(Text(answer.got.content), Text(said.content))

\* No session waits for ever.
RequestsEnd == \A s \in Sessions : sess[s].phase # "idle" ~> sess[s].phase = "idle"
=============================================================================

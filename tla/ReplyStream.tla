---------------------------- MODULE ReplyStream ----------------------------
(***************************************************************************)
(* How _opencode_openai_completion puts the events of a stream together,   *)
(* and _parse_openai_responses_response what it says.  A reply is a        *)
(* sequence of items: messages, whose text comes in parts, each of some    *)
(* pieces, and tool calls.  A server sends the pieces as they come, the    *)
(* items as they are done, and at the end the response, with its output or *)
(* without; not every event is sent, and not every one can be read.        *)
(***************************************************************************)
EXTENDS Naturals, Sequences, SequencesExt

Message(parts) == [kind |-> "message", parts |-> parts, id |-> "none"]
Call(id) == [kind |-> "call", parts |-> <<>>, id |-> id]

IsMessage(item) == item.kind = "message"
IsCall(item) == item.kind = "call"

\* The text of some parts, without the line breaks between them.
Text(parts) == FlattenSeq(parts)

\* The events of a reply: text deltas, items, the completed response.
Delta(piece) == [event |-> "delta", content |-> <<piece>>]
ItemDone(item) == [event |-> "item", content |-> <<item>>]
Completed(output) == [event |-> "completed", content |-> output]

\* An event whose line is not JSON, as when its text holds a character at
\* which splitlines() cuts (U+2028, U+0085): what it carried is gone.
Garbled == [event |-> "garbled", content |-> <<>>]

Events(item) ==
  [k \in DOMAIN Text(item.parts) |-> Delta(Text(item.parts)[k])] \o <<ItemDone(item)>>

\* All that there is to say of a reply.
StreamOf(said, output) ==
  FlattenSeq([k \in DOMAIN said |-> Events(said[k])])
    \o <<Completed(IF output THEN said ELSE <<>>)>>

\* What comes of it, if some events are not sent or not readable: either way
\* the session reads on without them.
Received(stream, missing) ==
  [k \in DOMAIN stream |-> IF k \in missing THEN Garbled ELSE stream[k]]

-----------------------------------------------------------------------------
(* _opencode_openai_completion *)

Nothing == [text |-> <<>>, items |-> <<>>, output |-> <<>>, completed |-> FALSE]

\* except json.JSONDecodeError: continue
ReadEvent(acc, e) ==
  CASE e.event = "garbled" -> acc
    [] e.event = "delta" -> [acc EXCEPT !.text = @ \o e.content]
    [] e.event = "item"  -> [acc EXCEPT !.items = @ \o e.content]
    [] OTHER -> [acc EXCEPT !.output = e.content, !.completed = TRUE]

Read(stream) == FoldLeft(ReadEvent, Nothing, stream)

\* Fault: the text comes twice, from its deltas and from the items.
OutputTwice(acc) ==
  IF acc.text # <<>> THEN Append(acc.items, Message(<<acc.text>>))
  ELSE IF acc.items # <<>> THEN acc.items ELSE acc.output

\* Fault: what is not there as an item is taken from the deltas.
OutputPatched(acc) ==
  IF acc.items # <<>> THEN acc.items
  ELSE IF acc.text # <<>> THEN <<Message(<<acc.text>>)>>
  ELSE acc.output

\* The items of the stream, however few, else the output of the response, else
\* the deltas as one part.
Output(acc) ==
  IF acc.items # <<>> THEN acc.items
  ELSE IF acc.text # <<>> /\ acc.output = <<>> THEN <<Message(<<acc.text>>)>>
  ELSE acc.output

-----------------------------------------------------------------------------
(* _parse_openai_responses_response *)

Texts(item) == IF IsMessage(item) THEN item.parts ELSE <<>>
CallIds(item) == IF IsCall(item) THEN <<item.id>> ELSE <<>>

\* The content is its parts, with a line break between each and the next.
Parsed(output) ==
  [content |-> FlattenSeq([k \in DOMAIN output |-> Texts(output[k])]),
   calls   |-> FlattenSeq([k \in DOMAIN output |-> CallIds(output[k])])]
=============================================================================

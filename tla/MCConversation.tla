--------------------------- MODULE MCConversation ---------------------------
(***************************************************************************)
(* Small instances of Conversation: compaction from four messages on.      *)
(***************************************************************************)
EXTENDS Conversation

Answer       == <<"answer">>
ToolTurn     == <<"call", "result", "answer">>
Interjected  == <<"answer", "interjection", "answer">>
CutShort     == <<"call", "result">>
Silent       == <<>>

AllReplies   == {Answer, ToolTurn, Interjected, CutShort, Silent}
ShortReplies == {Answer, ToolTurn}

\* A message of five is over the budget of four.
ShortOrLong  == {1, 5}
Short        == {1}
UnitCost     == [r \in Roles |-> 1]
=============================================================================

---------------------------- MODULE MCToolCalls ----------------------------
(***************************************************************************)
(* Small instances of ToolCalls: a short text, three long ones of which    *)
(* one contains the two others, and a long one apart from these.           *)
(***************************************************************************)
EXTENDS ToolCalls

AllTexts  == {"ok", "first half", "second half", "both halves", "apart"}
LongTexts == AllTexts \ {"ok"}
Contained == {<<t, t>> : t \in AllTexts}
               \cup {<<"both halves", t>> : t \in LongTexts \ {"apart"}}
               \cup {<<t, "both halves">> : t \in LongTexts \ {"apart"}}
Reads     == {"read a", "read b"}
=============================================================================

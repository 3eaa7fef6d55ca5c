----------------------------- MODULE ToolCalls -----------------------------
(***************************************************************************)
(* The tool calls of one turn: the loop over response.tool_calls in        *)
(* KimiClient.chat_loop with its doom-loop check and MessageDeduplicator,  *)
(* the send_message tool, and the answers that chat_loop sends by itself   *)
(* (on_intermediate).  ChatLoop has the rounds around it.                  *)
(*                                                                         *)
(* A text is a model value; Overlaps says which normalized texts contain   *)
(* one another, Long which have MIN_DUPLICATE_LENGTH characters.           *)
(***************************************************************************)
EXTENDS Naturals, Sequences

CONSTANTS Texts, Long, Overlaps,
          OtherCalls,   \* calls of other tools, arguments included
          Threshold,    \* DOOM_LOOP_THRESHOLD
          MaxTracked,   \* MessageDeduplicator's max_tracked
          MaxCalls      \* bound on the calls and answers of a turn

ASSUME TextsAssumption ==
  /\ Long \subseteq Texts
  /\ Overlaps \subseteq Texts \X Texts
  /\ \A t \in Texts : <<t, t>> \in Overlaps
  /\ \A t, u \in Texts : <<t, u>> \in Overlaps => <<u, t>> \in Overlaps
  /\ Texts \cap OtherCalls = {}

ASSUME NumbersAssumption ==
  /\ Threshold \in Nat \ {0}
  /\ MaxTracked \in Nat \ {0}
  /\ MaxCalls \in Nat

\* A call is send_message with a text, or a call of another tool.
Calls == Texts \cup OtherCalls

None == "none"

VARIABLES
  pc,        \* "loop", or the await: "tool", "answer"
  current,   \* the call or answer being awaited
  recent,    \* recent_calls, with whether the call was run
  tracked,   \* dedup._sent_normalized, oldest first
  sent,      \* sent_messages
  delivered, \* history: texts that reached the room
  attempts,  \* history: send_message calls that were run, in order
  failed,    \* history: texts of those whose send raised
  refused,   \* history: texts refused as duplicates
  count      \* calls and answers so far

vars == <<pc, current, recent, tracked, sent, delivered, attempts, failed, refused,
          count>>

Duplicates(t, u) == t \in Long /\ u \in Long /\ <<t, u>> \in Overlaps

Elems(s) == {s[i] : i \in DOMAIN s}

Init ==
  /\ pc = "loop"
  /\ current = None
  /\ recent = <<>>
  /\ tracked = <<>>
  /\ sent = {}
  /\ delivered = {}
  /\ attempts = <<>>
  /\ failed = {}
  /\ refused = {}
  /\ count = 0

\* Fault: one call too many before the doom loop is seen.
IsDoomedLate(c) ==
  /\ Len(recent) >= Threshold
  /\ \A i \in (Len(recent) - Threshold + 1)..Len(recent) : recent[i].call = c

\* c would be the last of Threshold identical calls in a row.
IsDoomed(c) ==
  /\ Len(recent) >= Threshold - 1
  /\ \A i \in (Len(recent) - Threshold + 2)..Len(recent) : recent[i].call = c

\* Fault: the reports of the checkpoints count too.
IsKnown(c) == c \in Texts /\ \E u \in sent : Duplicates(c, u)

IsDuplicate(c) == c \in Texts /\ \E u \in Elems(tracked) : Duplicates(c, u)

Remember(c, run) == recent' = Append(recent, [call |-> c, run |-> run])

NewCall == pc = "loop" /\ count < MaxCalls /\ count' = count + 1

RefuseDoomed(c) ==
  /\ NewCall
  /\ IsDoomed(c)
  /\ Remember(c, FALSE)
  /\ UNCHANGED <<pc, current, tracked, sent, delivered, attempts, failed, refused>>

RefuseDuplicate(c) ==
  /\ NewCall
  /\ ~IsDoomed(c)
  /\ IsDuplicate(c)
  /\ Remember(c, FALSE)
  /\ refused' = refused \cup {c}
  /\ UNCHANGED <<pc, current, tracked, sent, delivered, attempts, failed>>

\* Fault: the tool does not note what it sends.
StartToolUnnoted(c) ==
  /\ NewCall
  /\ ~IsDoomed(c)
  /\ ~IsDuplicate(c)
  /\ Remember(c, TRUE)
  /\ pc' = "tool"
  /\ current' = c
  /\ UNCHANGED <<tracked, sent, delivered, attempts, failed, refused>>

\* registry.call(): send_message notes its text before it awaits the send.
StartTool(c) ==
  /\ NewCall
  /\ ~IsDoomed(c)
  /\ ~IsDuplicate(c)
  /\ Remember(c, TRUE)
  /\ pc' = "tool"
  /\ current' = c
  /\ sent' = IF c \in Texts THEN sent \cup {c} ELSE sent
  /\ UNCHANGED <<tracked, delivered, attempts, failed, refused>>

\* Fault: the deduplicator only ever keeps the first text.
TrackOnce(t) ==
  tracked' = IF t \in Long /\ tracked = <<>> THEN <<t>> ELSE tracked

\* dedup.track_sent(): short texts are not tracked, the oldest drops out.
TrackSent(t) ==
  tracked' = IF t \notin Long THEN tracked
             ELSE Append(IF Len(tracked) < MaxTracked THEN tracked
                         ELSE Tail(tracked), t)

\* The call returns.  A failed send raises and the registry makes an error
\* text of it, which chat_loop does not look at: its text is tracked as well.
ToolDone(ok) ==
  /\ pc = "tool"
  /\ pc' = "loop"
  /\ current' = None
  /\ IF current \in Texts
     THEN /\ TrackSent(current)
          /\ attempts' = Append(attempts, current)
          /\ delivered' = IF ok THEN delivered \cup {current} ELSE delivered
          /\ failed' = IF ok THEN failed ELSE failed \cup {current}
     ELSE UNCHANGED <<tracked, attempts, delivered, failed>>
  /\ UNCHANGED <<recent, sent, refused, count>>

\* A checkpoint's progress update goes to the send_message tool directly,
\* past the doom-loop check and the deduplicator.
Report(t, ok) ==
  /\ NewCall
  /\ sent' = sent \cup {t}
  /\ delivered' = IF ok THEN delivered \cup {t} ELSE delivered
  /\ UNCHANGED <<pc, current, recent, tracked, attempts, failed, refused>>

\* The loop is re-entered: recent_calls starts afresh.  After an answer that
\* an interjection overtook, on_intermediate sends it unless it is known.
Reenter ==
  /\ NewCall
  /\ recent # <<>>
  /\ recent' = <<>>
  /\ UNCHANGED <<pc, current, tracked, sent, delivered, attempts, failed, refused>>

Overtaken(t) ==
  /\ NewCall
  /\ recent' = <<>>
  /\ IF t \in sent
     THEN UNCHANGED <<pc, current>>
     ELSE /\ pc' = "answer"
          /\ current' = t
  /\ UNCHANGED <<tracked, sent, delivered, attempts, failed, refused>>

\* matrix.send_message() is done; if it raises, the turn is over (ChatLoop's
\* Fail) and nothing more happens here.
AnswerSent ==
  /\ pc = "answer"
  /\ pc' = "loop"
  /\ current' = None
  /\ sent' = sent \cup {current}
  /\ delivered' = delivered \cup {current}
  /\ UNCHANGED <<recent, tracked, attempts, failed, refused, count>>

\* The model stops once MaxCalls calls and answers have been made.
Terminated == pc = "loop" /\ count = MaxCalls /\ UNCHANGED vars

Next ==
  \/ \E c \in Calls : RefuseDoomed(c) \/ RefuseDuplicate(c) \/ StartTool(c)
  \/ \E ok \in BOOLEAN : ToolDone(ok)
  \/ \E t \in Texts, ok \in BOOLEAN : Report(t, ok)
  \/ Reenter
  \/ \E t \in Texts : Overtaken(t)
  \/ AnswerSent
  \/ Terminated

Spec == Init /\ [][Next]_vars

-----------------------------------------------------------------------------
(* Properties *)

\* Every variable has its type, and the deduplicator's list its limit.
TypeOK ==
  /\ pc \in {"loop", "tool", "answer"}
  /\ current \in Calls \cup {None}
  /\ recent \in Seq([call : Calls, run : BOOLEAN])
  /\ tracked \in Seq(Long) /\ Len(tracked) <= MaxTracked
  /\ sent \subseteq Texts
  /\ delivered \subseteq Texts
  /\ attempts \in Seq(Texts)
  /\ failed \subseteq Texts
  /\ refused \subseteq Texts
  /\ count \in 0..MaxCalls

\* Between two re-entries, no call is run that repeats the calls before it
\* so often that Threshold identical ones stand in a row.
NoDoomLoop ==
  \A i \in DOMAIN recent :
    (i >= Threshold /\ \A j \in (i - Threshold + 1)..i :
                         recent[j].call = recent[i].call)
      => ~recent[i].run

\* Of two send_message calls with overlapping texts, the second is not run
\* while the deduplicator still knows the first.
NoRepeatedSend ==
  \A i, j \in DOMAIN attempts :
    (i < j /\ j - i <= MaxTracked) => ~Duplicates(attempts[i], attempts[j])

\* on_intermediate does not send an answer that the user has already had, as
\* an update, a report or an answer.
NoRepeatedAnswer == pc = "answer" => current \notin delivered

\* The tool's own sends of the turn are the only reason to refuse one: the
\* text overlaps with one that reached the room, or with one whose send failed.
\* The second reason is not what MessageDeduplicator means ("so failed sends
\* don't suppress retries"): chat_loop calls track_sent() whatever came back,
\* and answers such a retry with "sent (deduplicated)".
RefusalsExplained ==
  \A t \in refused : \E u \in Elems(attempts) :
    Duplicates(t, u) /\ u \in delivered \cup failed
=============================================================================

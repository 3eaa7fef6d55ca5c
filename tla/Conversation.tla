---------------------------- MODULE Conversation ----------------------------
(***************************************************************************)
(* The stored conversation of the room and what one handle_message turn    *)
(* after the other does to it: load_conversation, should_compact,          *)
(* compact_messages, trim_messages, persist_response, and the commands     *)
(* that clear it.  MessageQueue runs one turn at a time, so no two turns   *)
(* overlap; a turn may fail at every await, or end with the process.       *)
(*                                                                         *)
(* A row keeps its id, its role, the tool exchange it belongs to (the id   *)
(* of the row with the calls, or 0), for a summary the ids of the rows     *)
(* whose text the summarizer was shown, and what estimate_tokens makes of  *)
(* it.  A message in memory is the row it was made from; the system prompt *)
(* is left out of the sequences.                                           *)
(***************************************************************************)
EXTENDS Naturals, Sequences, SequencesExt

CONSTANTS MinMessages,  \* MIN_MESSAGES_FOR_COMPACTION, the prompt included
          KeepRecent,   \* compaction_keep_recent
          Budget,       \* max_context_tokens, less the prompt
          UserCosts,    \* estimate_tokens of a message from the room
          Cost,         \* estimate_tokens of the other messages, by role
          Replies,      \* what chat_loop may return, as sequences of steps
          MaxRows       \* bound on the rows ever written

Roles == {"user", "assistant", "tool", "system"}
Steps == {"call", "result", "answer", "interjection"}

ASSUME ConversationAssumption ==
  /\ MinMessages \in Nat
  /\ KeepRecent \in Nat \ {0}
  /\ Budget \in Nat
  /\ Cost \in [Roles -> Nat]
  /\ MaxRows \in Nat
  /\ Replies \subseteq Seq(Steps)

ASSUME CostsAssumption == UserCosts \subseteq Nat

\* chat_loop answers every call message with one result message.
ASSUME RepliesAssumption ==
  \A r \in Replies : \A i \in DOMAIN r :
    /\ r[i] = "call" => i < Len(r) /\ r[i + 1] = "result"
    /\ r[i] = "result" => i > 1 /\ r[i - 1] = "call"

VARIABLES
  rows,       \* the messages table, ordered by created_at and id
  logs,       \* the tool_logs table: the message_ids
  nextId,     \* next primary key
  pc,         \* "idle", or the await of the running turn
  messages,   \* the messages for the model
  userId,     \* user_msg_id
  historyIds, \* history_ids
  oldRemoved, \* old_removed
  summary,    \* the ids the pending summary covers
  reply,      \* what chat_loop returned
  stored      \* history: ids of the rows written since the last reset

vars == <<rows, logs, nextId, pc, messages, userId, historyIds, oldRemoved,
          summary, reply, stored>>

Row(id, role, pair, covers) ==
  [id |-> id, role |-> role, pair |-> pair, covers |-> covers, cost |-> Cost[role]]

\* The batch that begins a turn, as long as the people in the room made it.
UserRow(id, cost) == [Row(id, "user", 0, {}) EXCEPT !.cost = cost]

Ids(s) == {s[i].id : i \in DOMAIN s}

Init ==
  /\ rows = <<>>
  /\ logs = {}
  /\ nextId = 1
  /\ pc = "idle"
  /\ messages = <<>>
  /\ userId = 0
  /\ historyIds = <<>>
  /\ oldRemoved = 0
  /\ summary = {}
  /\ reply = <<>>
  /\ stored = {}

-----------------------------------------------------------------------------
(* Scope 1a: command check, load, decide on compaction *)

\* handle_command: /reset and its synonyms delete the logs and the messages.
Reset ==
  /\ pc = "idle"
  /\ rows # <<>>
  /\ rows' = <<>>
  /\ logs' = {}
  /\ stored' = {}
  /\ UNCHANGED <<nextId, pc, messages, userId, historyIds, oldRemoved,
                 summary, reply>>

Total(s) == FoldSeq(LAMBDA m, sum : m.cost + sum, 0, s)

\* Fault: the newest messages are dropped first.
TrimNewest(s) ==
  LET fits == {n \in 0..Len(s) : Total(SubSeq(s, 1, n)) <= Budget}
  IN  SubSeq(s, 1, CHOOSE n \in fits : \A k \in fits : k <= n)

\* trim_messages: the longest run of newest messages within the budget.
Trim(s) ==
  LET fits == {n \in 0..Len(s) : Total(SubSeq(s, Len(s) - n + 1, Len(s))) <= Budget}
      kept == CHOOSE n \in fits : \A k \in fits : k <= n
  IN  SubSeq(s, Len(s) - kept + 1, Len(s))

\* Fault: the turn before leaves its compaction behind.
StaleTurn ==
  /\ userId' = nextId
  /\ UNCHANGED <<oldRemoved, summary>>
  /\ reply' = <<>>

\* The locals of handle_message, before anything is compacted.
FreshTurn ==
  /\ userId' = nextId
  /\ oldRemoved' = 0
  /\ summary' = {}
  /\ reply' = <<>>

\* The user message is committed before anything else happens to the turn.
\* should_compact goes by the provider's token count of the last turn, so
\* the model leaves it open; only the number of messages is a condition.
Load ==
  /\ pc = "idle"
  /\ nextId <= MaxRows
  /\ \E cost \in UserCosts :
       LET history == Append(rows, UserRow(nextId, cost)) IN
       /\ rows' = history
       /\ \/ /\ Len(history) + 1 >= MinMessages
             /\ pc' = "compact"
             /\ messages' = history
             /\ historyIds' = [i \in DOMAIN history |-> history[i].id]
          \/ /\ pc' = "chat"
             /\ messages' = Trim(history)
             /\ historyIds' = <<>>
  /\ FreshTurn
  /\ nextId' = nextId + 1
  /\ stored' = stored \cup {nextId}
  /\ UNCHANGED logs

-----------------------------------------------------------------------------
(* Compaction: LLM calls without a database handle *)

\* Fault: cut where keep_recent says, wherever that is.
SplitAsTold(s) == Len(s) - KeepRecent

\* _is_fresh_user_message: a tool result is a user message that is not.
IsFresh(m) == m.role = "user"

\* The boundary walks forward to a fresh user message, or to the end.
Split(s) ==
  LET from  == Len(s) - KeepRecent
      fresh == {n \in from..(Len(s) - 1) : IsFresh(s[n + 1])}
  IN  IF fresh = {} THEN Len(s) ELSE CHOOSE n \in fresh : \A k \in fresh : n <= k

\* build_compaction_prompt leaves system messages out, summaries included.
Summarised(s) == {s[i].id : i \in {k \in DOMAIN s : s[k].role # "system"}}

\* s without the rows that are deleted.
Keep(s, deleted) ==
  LET Upto[n \in 0..Len(s)] ==
        IF n = 0 THEN <<>>
        ELSE IF s[n].id \in deleted THEN Upto[n - 1]
        ELSE Append(Upto[n - 1], s[n])
  IN Upto[Len(s)]

\* The summary message that takes the place of the old ones in memory; its
\* row is written later.
SummaryMessage(covers) == Row(0, "system", 0, covers)

\* Fault: the old rows are deleted as soon as they are summarised.
CompactEagerly ==
  /\ pc = "compact"
  /\ Len(messages) > KeepRecent
  /\ LET n == Split(messages) IN
     /\ n > 0
     /\ oldRemoved' = n
     /\ summary' = Summarised(SubSeq(messages, 1, n))
     /\ messages' = Trim(<<SummaryMessage(summary')>>
                           \o SubSeq(messages, n + 1, Len(messages)))
     /\ rows' = Keep(rows, {historyIds[i] : i \in 1..n})
  /\ pc' = "chat"
  /\ UNCHANGED <<logs, nextId, userId, historyIds, reply, stored>>

\* The memory flush turn comes first; it swallows its exceptions and leaves
\* all of this alone.  Then the summarizer answers.
Compact ==
  /\ pc = "compact"
  /\ Len(messages) > KeepRecent
  /\ LET n == Split(messages) IN
     /\ n > 0
     /\ oldRemoved' = n
     /\ summary' = Summarised(SubSeq(messages, 1, n))
     /\ messages' = Trim(<<SummaryMessage(summary')>>
                           \o SubSeq(messages, n + 1, Len(messages)))
  /\ pc' = "chat"
  /\ UNCHANGED <<rows, logs, nextId, userId, historyIds, reply, stored>>

NothingToCompact ==
  /\ pc = "compact"
  /\ Len(messages) <= KeepRecent
  /\ messages' = Trim(messages)
  /\ pc' = "chat"
  /\ UNCHANGED <<rows, logs, nextId, userId, historyIds, oldRemoved, summary,
                 reply, stored>>

-----------------------------------------------------------------------------
(* The main LLM call, the answer to the room, and scope 2 *)

Chat ==
  /\ pc = "chat"
  /\ reply' \in Replies
  /\ pc' = "send"
  /\ UNCHANGED <<rows, logs, nextId, messages, userId, historyIds,
                 oldRemoved, summary, stored>>

Sent ==
  /\ pc = "send"
  /\ pc' = "persist"
  /\ UNCHANGED <<rows, logs, nextId, messages, userId, historyIds,
                 oldRemoved, summary, reply, stored>>

\* The rows of the reply, from the id n on.
ReplyRows(n) ==
  [i \in DOMAIN reply |->
     LET id == n + i - 1 IN
     CASE reply[i] = "call"         -> Row(id, "assistant", id, {})
       [] reply[i] = "result"       -> Row(id, "tool", id - 1, {})
       [] reply[i] = "answer"       -> Row(id, "assistant", 0, {})
       [] reply[i] = "interjection" -> Row(id, "user", 0, {})]

\* Fault: the logs of deleted messages stay.
AllLogs(deleted) == logs

RemainingLogs(deleted) == logs \ deleted

\* One transaction: if messages were compacted, old rows and their logs out
\* and the summary in; then the reply.  The tool calls of the turn are logged
\* under its user message.
Persist ==
  /\ pc = "persist"
  /\ LET deleted  == {historyIds[i] : i \in 1..oldRemoved}
         kept     == Keep(rows, deleted)
         written  == IF oldRemoved = 0 THEN ReplyRows(nextId)
                     ELSE <<Row(nextId, "system", 0, summary)>>
                            \o ReplyRows(nextId + 1)
     IN  /\ rows' = kept \o written
         /\ logs' = RemainingLogs(deleted)
                      \cup {userId : i \in {j \in DOMAIN reply : reply[j] = "call"}}
         /\ nextId' = nextId + Len(written)
         /\ stored' = stored \cup Ids(ReplyRows(nextId + Len(written) - Len(reply)))
  /\ pc' = "idle"
  /\ messages' = <<>>
  /\ UNCHANGED <<userId, historyIds, oldRemoved, summary, reply>>

\* An exception in the summarizer, the LLM call, the send or the commit, or
\* the end of the process: what the turn had not committed is gone.
Abort ==
  /\ pc # "idle"
  /\ pc' = "idle"
  /\ messages' = <<>>
  /\ UNCHANGED <<rows, logs, nextId, userId, historyIds, oldRemoved, summary,
                 reply, stored>>

\* The model stops once MaxRows rows have been written.
Full == pc = "idle" /\ nextId > MaxRows /\ UNCHANGED vars

Next == \/ Reset \/ Load \/ Compact \/ NothingToCompact \/ Chat \/ Sent
        \/ Persist \/ Abort \/ Full

Spec == Init /\ [][Next]_vars

-----------------------------------------------------------------------------
(* Properties *)

RowType == [id : Nat, role : Roles, pair : Nat, covers : SUBSET Nat, cost : Nat]

\* Every variable has its type, and a compaction covers no more messages
\* than the turn has the ids of.
TypeOK ==
  /\ rows \in Seq(RowType)
  /\ logs \subseteq Nat
  /\ nextId \in Nat
  /\ pc \in {"idle", "compact", "chat", "send", "persist"}
  /\ messages \in Seq(RowType)
  /\ userId \in Nat
  /\ historyIds \in Seq(Nat)
  /\ oldRemoved \in 0..Len(historyIds)
  /\ summary \subseteq Nat
  /\ reply \in Seq(Steps)
  /\ stored \subseteq Nat

\* In s, the result of a tool exchange stands right behind its calls.
Paired(s) ==
  \A i \in DOMAIN s :
    /\ s[i].role = "tool" => /\ i > 1
                             /\ s[i - 1].role = "assistant"
                             /\ s[i - 1].pair = s[i].pair
    /\ s[i].role = "assistant" /\ s[i].pair # 0 =>
         i < Len(s) /\ s[i + 1].role = "tool"

\* Compaction, aborted turns and resets never leave half a tool exchange in
\* the table, which every later request would replay.
RowsPaired == Paired(rows)

\* No tool log refers to a deleted message, and the message a running turn
\* will log under is still there.
LogsHaveMessage ==
  /\ logs \subseteq Ids(rows)
  /\ pc # "idle" => userId \in Ids(rows)

\* The table and the logs can be replayed: exchanges are whole, references hold.
WellFormed == TypeOK /\ RowsPaired /\ LogsHaveMessage

\* The exchanges of s are whole, except that s may begin with a result whose
\* calls were before it.
PairedFromStart(s) ==
  \/ Paired(s)
  \/ s[1].role = "tool" /\ Paired(SubSeq(s, 2, Len(s)))

\* The request contains the message it is about, unless that message alone is
\* over the budget: trim_messages then drops it (context.py:57), and the model
\* is asked without it.  Nowhere in the request is a call without its result
\* or a result without its call, but for a result right at the start, where
\* the budget may end in the middle of an exchange; compact_messages avoids
\* such a start because "the API rejects" it (compaction.py:227-231), trim
\* does not.
RequestHasMessage ==
  pc = "chat" =>
    LET asked == rows[Len(rows)] IN
    /\ asked.id = userId
    /\ userId \in Ids(messages) \/ asked.cost > Budget
    /\ PairedFromStart(messages)

\* Rows disappear in one step with the summary that stands for them, or by a
\* reset: a turn that fails after summarising loses nothing.
CompactionAtomic ==
  [][ \/ Ids(rows) \subseteq Ids(rows')
      \/ rows' = <<>> /\ logs' = {}
      \/ \E m \in {rows'[i] : i \in DOMAIN rows'} :
           /\ m.id \notin Ids(rows)
           /\ \A i \in DOMAIN rows :
                rows[i].role # "system" /\ rows[i].id \notin Ids(rows')
                  => rows[i].id \in m.covers ]_vars

\* What was stored is still in the table or covered by a summary there.
NothingForgotten ==
  stored \subseteq Ids(rows) \cup UNION {rows[i].covers : i \in DOMAIN rows}
=============================================================================

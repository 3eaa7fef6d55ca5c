----------------------------- MODULE Heartbeat -----------------------------
(***************************************************************************)
(* The heartbeat: heartbeat_tick_loop with the filters of HeartbeatRunner, *)
(* and MatrixConnector.send_message, which cuts the response into chunks.  *)
(* Texts are sequences of characters, of which the newline matters; they   *)
(* are stripped, as should_deliver and send_message strip them, so that a  *)
(* response of white space is <<>>.  The session in between is chat_loop   *)
(* (module ChatLoop), what HEARTBEAT.md says is up to the user.            *)
(***************************************************************************)
EXTENDS Naturals, Sequences, SequencesExt

CONSTANTS Responses,     \* what the session may answer
          AllFine,       \* HEARTBEAT_OK
          Footers,       \* what the tools used may add below it
          NL,            \* the newline
          MaxLen,        \* max_len of _chunk_message
          Minutes,       \* minutes of the day
          OpensAt, ClosesAt,  \* active_hours_start, active_hours_end
          MaxTrouble     \* bound on restarts and on sends that fail

ASSUME HeartbeatAssumption ==
  /\ AllFine \in Responses
  /\ \A r \in Responses \cup Footers : r \in Seq(ToSet(r))
  /\ \A r \in Responses \cup Footers : r # <<>> => r[1] # NL /\ r[Len(r)] # NL
  /\ MaxLen \in Nat \ {0} /\ MaxTrouble \in Nat
  /\ Minutes \subseteq Nat /\ {OpensAt, ClosesAt} \subseteq Nat

VARIABLES
  tick,     \* where the loop waits: its sleep, chat_loop or room_send; or it is over
  last,     \* _last_response
  reply,    \* the response and the message of this tick
  body,
  put,      \* chunks that were handed to room_send, and those still to be
  chunks,
  whole,    \* history: no chunk of this message was refused
  posted,   \* history: the last response that got to the room whole
  excused,  \* history: since then a send failed, the memory was lost or cleared
  trouble

heartVars == <<tick, last, reply, body, put, chunks, whole, posted, excused, trouble>>

HeartInit ==
  /\ tick = "sleep"
  /\ last = <<>> /\ posted = <<>>
  /\ reply = <<>> /\ body = <<>> /\ put = <<>> /\ chunks = <<>>
  /\ whole = TRUE /\ excused = FALSE
  /\ trouble = 0

-----------------------------------------------------------------------------
(* _chunk_message *)

NewLine(c) == c = NL

\* The length of the chunk that starts at i: up to the last newline that
\* leaves it no longer than MaxLen, if there is one.
Cut(t, i) ==
  LET breaks == {p \in (i + 1)..(i + MaxLen - 1) : NewLine(t[p])} IN
  IF breaks = {} THEN MaxLen ELSE (CHOOSE p \in breaks : \A q \in breaks : q <= p) - i

\* Fault: what is at the cut is taken for the newline.
SkipOne(t, i) == i + 1

\* The first position from i on that is no newline.
SkipLines(t, i) ==
  CHOOSE j \in i..(Len(t) + 1) :
    /\ \A k \in i..(j - 1) : NewLine(t[k])
    /\ j <= Len(t) => ~NewLine(t[j])

Chunked(t) ==
  LET From[i \in 1..(Len(t) + 1)] ==
        IF i > Len(t) THEN <<>>
        ELSE IF Len(t) - i < MaxLen THEN <<SubSeq(t, i, Len(t))>>
        ELSE LET end == i + Cut(t, i) IN
             <<SubSeq(t, i, end - 1)>> \o From[SkipLines(t, end)]
  IN From[1]

-----------------------------------------------------------------------------
(* The loop *)

\* _in_active_hours: a window over midnight is never open.
ActiveAt(minute) == OpensAt <= minute /\ minute <= ClosesAt

\* should_run.  The loop does not pass agent_busy: a turn may be running.
Fire ==
  /\ tick = "sleep"
  /\ \E minute \in Minutes : ActiveAt(minute)
  /\ tick' = "chat"
  /\ UNCHANGED <<last, reply, body, put, chunks, whole, posted, excused, trouble>>

\* The message of the tick is over, or there is none.
Rest ==
  /\ tick' = "sleep"
  /\ reply' = <<>> /\ body' = <<>> /\ put' = <<>> /\ chunks' = <<>>
  /\ whole' = TRUE

\* The session fails, or its content is empty.
ChatFails == tick = "chat" /\ Rest /\ UNCHANGED <<last, posted, excused, trouble>>

\* Fault: every response is remembered, the silent one too.
RememberAll(r) == last' = r

\* Fault: the filter forgets.
RememberNot(r) == UNCHANGED last

\* should_deliver; it remembers before anything is sent.
Remember(r) == last' = IF r = AllFine THEN last ELSE r

Deliverable(r) == r # AllFine /\ r # last

Footed(r, foot) == IF foot = <<>> \/ r = <<>> THEN r \o foot ELSE r \o <<NL, NL>> \o foot

\* chat_loop returns r; what passes the filter is cut and sent.
Answered(r, foot) ==
  /\ tick = "chat"
  /\ Remember(r)
  /\ excused' = (excused \/ (r = <<>> /\ Deliverable(r)))
  /\ IF Deliverable(r) /\ Footed(r, foot) # <<>>
     THEN /\ tick' = "send"
          /\ reply' = r
          /\ body' = Footed(r, foot)
          /\ chunks' = Chunked(Footed(r, foot))
          /\ UNCHANGED <<put, whole>>
     ELSE Rest
  /\ UNCHANGED <<posted, trouble>>

\* room_send has answered; the last chunk ends the tick.  An answer that is an
\* error is not looked at.
ChunkSent(taken) ==
  /\ tick = "send" /\ chunks # <<>>
  /\ ~taken => trouble < MaxTrouble
  /\ trouble' = IF taken THEN trouble ELSE trouble + 1
  /\ LET through == whole /\ taken IN
     IF Len(chunks) > 1
     THEN /\ put' = Append(put, Head(chunks))
          /\ chunks' = Tail(chunks)
          /\ whole' = through
          /\ excused' = (excused \/ ~taken)
          /\ UNCHANGED <<tick, reply, body, posted>>
     ELSE /\ Rest
          /\ posted' = IF through THEN reply ELSE posted
          /\ excused' = ~through
  /\ UNCHANGED last

\* Fault: the exception ends the loop.
SendRaisesOut ==
  /\ tick = "send"
  /\ trouble < MaxTrouble
  /\ trouble' = trouble + 1
  /\ excused' = TRUE
  /\ tick' = "ended"
  /\ UNCHANGED <<last, reply, body, put, chunks, whole, posted>>

\* Fault: the tick ends, its message does not.
SendRaisesHalf ==
  /\ tick = "send"
  /\ trouble < MaxTrouble
  /\ trouble' = trouble + 1
  /\ excused' = TRUE
  /\ tick' = "sleep"
  /\ UNCHANGED <<last, reply, body, put, chunks, whole, posted>>

\* room_send raises: half a message, and the next tick.
SendRaises ==
  /\ tick = "send"
  /\ trouble < MaxTrouble
  /\ trouble' = trouble + 1
  /\ excused' = TRUE
  /\ Rest
  /\ UNCHANGED <<last, posted>>

\* The process is restarted: nothing is remembered.
Restarted ==
  /\ trouble < MaxTrouble
  /\ trouble' = trouble + 1
  /\ excused' = TRUE
  /\ last' = <<>>
  /\ Rest
  /\ UNCHANGED posted

ChatEnds == ChatFails \/ \E r \in Responses, foot \in Footers : Answered(r, foot)

Send == SendRaises \/ \E taken \in BOOLEAN : ChunkSent(taken)

-----------------------------------------------------------------------------
(* Properties *)

\* The variables have their types; a message is there exactly while it is sent.
HeartTypeOK ==
  /\ tick \in {"sleep", "chat", "send", "ended"}
  /\ {last, posted, reply} \subseteq Responses \cup {<<>>}
  /\ tick \in {"send", "ended"} <=> chunks # <<>>
  /\ chunks = <<>> => reply = <<>> /\ body = <<>> /\ put = <<>> /\ whole
  /\ trouble \in 0..MaxTrouble

\* A text without its newlines.
Inked(t) == FlattenSeq([k \in DOMAIN t |-> IF NewLine(t[k]) THEN <<>> ELSE <<t[k]>>])

\* Chunks fit, and together, in their order, they are the message but for
\* newlines.  (The code drops only those that follow a cut; the property does
\* not tell these from other newlines, and says what is cut, not what the
\* homeserver accepts of it.)
ChunksMakeMessage ==
  LET all == put \o chunks IN
  /\ \A k \in DOMAIN all : Len(all[k]) \in 1..MaxLen
  /\ Inked(FlattenSeq(all)) = Inked(body)

\* What the filter remembers, and so suppresses from now on, did get to the
\* room whole, or something went wrong in the meantime.
RememberedWasPosted ==
  last # <<>> /\ tick # "send" => posted = last \/ excused

\* The room does not get the same response twice in a row, unless a send
\* failed, the process was restarted or a blank response came in between.
NoRepeats == tick = "send" => reply # posted \/ excused
=============================================================================

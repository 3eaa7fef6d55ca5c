------------------------------ MODULE Gateway ------------------------------
(***************************************************************************)
(* MessageQueue with the handler that app.lifespan() registers:            *)
(* handle_message.  The queue's handler call becomes the stages of a turn, *)
(* one per await of handle_message, with chat_loop as a stage of its own   *)
(* (ChatLoop has its inside).  What a turn reads and writes is kept in     *)
(* history variables: sets of messages, by their number of arrival.        *)
(***************************************************************************)
EXTENDS MessageQueue

CONSTANTS Commands,  \* kinds whose body is one of _COMMAND_WORDS
          Silent     \* kinds with suppress_text_response

ASSUME CommandsAssumption ==
  /\ Commands \subseteq Interjectable
  /\ Silent \subseteq Interjectable
  /\ Commands \cap Silent = {}

VARIABLES
  stage,     \* the await the running turn is in
  covered,   \* messages the running turn is about
  stored,    \* messages that the rows of the conversation hold
  late,      \* history: interjected when the turn would not read them any more
  failed,    \* history: messages a turn had not written when it raised
  cleared,   \* history: commands, and the messages whose rows they deleted
  unwritten  \* history: interjections merged into a prompt that gets no row

turnHistory == <<stored, failed, cleared, unwritten>>
gatewayVars == <<vars, stage, covered, late, turnHistory>>

\* The merged message takes everything but its body from the last of its
\* group, and the body of a merged message is no command.
IsCommand(group) == Len(group) = 1 /\ arrivals[group[1]] \in Commands

IsSilent(group) == arrivals[group[Len(group)]] \in Silent

GatewayInit ==
  /\ Init
  /\ stage = "idle"
  /\ covered = {}
  /\ stored = {}
  /\ late = {}
  /\ failed = {}
  /\ cleared = {}
  /\ unwritten = {}

-----------------------------------------------------------------------------
(* Around the turn *)

\* The stages before chat_loop has asked its exit gate.
Listening == stage \in {"load", "read", "loop", "overtaken"}

Receive(k) ==
  /\ Enqueue(k)
  /\ late' = IF interject' = interject \/ Listening THEN late
             ELSE late \cup {Len(arrivals')}
  /\ UNCHANGED <<stage, covered, turnHistory>>

\* What handle_message does first, if a turn starts at all.
Enter ==
  /\ covered' = Elems(turn')
  /\ stage' = IF turn' = <<>> THEN "idle"
              ELSE IF IsCommand(turn') THEN "clear" ELSE "load"

\* A task gets past its sleep, or the lock, and may start a turn.
Resume ==
  /\ LockHandoff \/ \E t \in Tasks : Wake(t)
  /\ IF turn' = turn THEN UNCHANGED <<stage, covered>> ELSE Enter
  /\ UNCHANGED <<late, turnHistory>>

-----------------------------------------------------------------------------
(* handle_message *)

\* handle_command deletes the conversation, then tells the room.
Clear ==
  /\ stage = "clear"
  /\ stage' = "confirm"
  /\ stored' = {}
  /\ cleared' = cleared \cup covered \cup stored
  /\ UNCHANGED <<vars, covered, late, failed, unwritten>>

\* load_conversation commits the row of the user's message, long before the
\* transaction that stores the answer.
Record ==
  /\ stage = "load"
  /\ stage' = "read"
  /\ stored' = stored \cup Elems(turn)
  /\ UNCHANGED <<vars, covered, late, failed, cleared, unwritten>>

\* Fault: a round takes one interjection.
PullFirst ==
  /\ accepting
  /\ interject # <<>>
  /\ pulled' = pulled \cup {Head(interject)}
  /\ covered' = covered \cup {Head(interject)}
  /\ interject' = Tail(interject)
  /\ unwritten' = unwritten
  /\ UNCHANGED <<arrivals, queue, debounceTask, drain, lockVars, batch, turn,
                 accepting, handled, evicted, abandoned>>

\* chat_loop drains the interject queue into the request of a round.  What is
\* merged into the prompt of the turn or into a nudge gets no row; what goes
\* into blocks that chat_loop added does (ChatLoop says which is which).
Pull ==
  /\ HandlerPull
  /\ covered' = covered \cup Elems(interject)
  /\ unwritten' \in {unwritten, unwritten \cup Elems(interject)}

\* The conversation is read and, if need be, compacted; chat_loop drains the
\* interject queue into its first request.
LoadDone ==
  /\ stage = "read"
  /\ stage' = "loop"
  /\ \/ Pull
     \/ interject = <<>> /\ UNCHANGED <<vars, covered, unwritten>>
  /\ UNCHANGED <<late, stored, failed, cleared>>

LoopPull ==
  /\ stage = "loop"
  /\ Pull
  /\ UNCHANGED <<stage, late, stored, failed, cleared>>

\* The exit gate found an interjection: on_intermediate sends the answer,
\* whatever suppress_text_response says, and the loop goes on.
Overtaken ==
  /\ stage = "loop"
  /\ interject # <<>>
  /\ stage' = "overtaken"
  /\ UNCHANGED <<vars, covered, late, turnHistory>>

OvertakenSent ==
  /\ stage = "overtaken"
  /\ stage' = "loop"
  /\ Pull
  /\ UNCHANGED <<late, stored, failed, cleared>>

\* Fault: the loop returns without asking its exit gate.
LoopLeave ==
  /\ stage = "loop"
  /\ stage' = "store"
  /\ UNCHANGED <<vars, covered, late, turnHistory>>

\* chat_loop returns.  An answer with a text goes to the room, unless the
\* message suppresses it.
LoopReturn ==
  /\ stage = "loop"
  /\ interject = <<>>
  /\ stage' \in (IF IsSilent(turn) THEN {"store"} ELSE {"send", "store"})
  /\ UNCHANGED <<vars, covered, late, turnHistory>>

AnswerSent ==
  /\ stage = "send"
  /\ stage' = "store"
  /\ UNCHANGED <<vars, covered, late, turnHistory>>

\* Fault: the turn ends without a transaction for its answer.
FinishUnstored ==
  /\ stage \in {"store", "confirm"}
  /\ \E t \in Tasks : HandlerEnd(t)
  /\ Enter
  /\ UNCHANGED <<late, turnHistory>>

\* The last await of the turn is over: scope 2 is committed, with a row for
\* each message that chat_loop added and whose content is a list, or the
\* reply to a command is sent.
Finish ==
  /\ stage \in {"store", "confirm"}
  /\ \E t \in Tasks : HandlerEnd(t)
  /\ Enter
  /\ stored' = IF stage = "store" THEN stored \cup (covered \ unwritten) ELSE stored
  /\ UNCHANGED <<late, failed, cleared, unwritten>>

\* Fault: an exception of the handler ends its task.
RaiseToTask ==
  /\ stage # "idle"
  /\ stage' = "idle"
  /\ UNCHANGED <<vars, covered, late, turnHistory>>

\* What a turn that raises now has not written: its interjections, and its
\* own messages as long as their row is not committed.
Unsaved ==
  LET interjections == (covered \ Elems(turn)) \cup Elems(interject)
  IN interjections \cup IF stage \in {"clear", "load"} THEN Elems(turn) ELSE {}

\* An exception at any await of the turn; _drain swallows it.
Raise ==
  /\ stage # "idle"
  /\ \E t \in Tasks : HandlerEnd(t)
  /\ Enter
  /\ failed' = failed \cup Unsaved
  /\ UNCHANGED <<late, stored, cleared, unwritten>>

\* A turn goes on by itself, once what it awaits has come.
Proceed == Clear \/ Record \/ LoadDone \/ LoopPull \/ Overtaken \/ OvertakenSent
             \/ LoopReturn \/ AnswerSent \/ Finish \/ Raise

GatewayNext ==
  \/ \E k \in Kinds : Receive(k)
  \/ Resume
  \/ Proceed
  \/ Terminated /\ UNCHANGED gatewayVars

GatewaySpec == GatewayInit /\ [][GatewayNext]_gatewayVars

\* Sleeps end and woken tasks are resumed, each in its turn; every await of
\* a turn ends, by its timeout at the latest.
GatewayFairSpec ==
  /\ GatewaySpec
  /\ \A t \in Tasks : WF_gatewayVars(Resume /\ Wake(t))
  /\ WF_gatewayVars(Resume /\ LockHandoff)
  /\ WF_gatewayVars(Proceed)

-----------------------------------------------------------------------------
(* Properties *)

Stages == {"idle", "clear", "confirm", "load", "read", "loop", "overtaken",
           "send", "store"}

\* Every variable has its type, and a turn is in a stage if and only if the
\* queue runs a handler call.
GatewayTypeOK ==
  /\ TypeOK
  /\ stage \in Stages
  /\ (stage = "idle") <=> ~accepting
  /\ covered \subseteq Messages
  /\ late \subseteq Messages
  /\ \A i \in DOMAIN turnHistory : turnHistory[i] \subseteq Messages

\* An interjection is lost only if its turn raised, or if it arrived when the
\* turn was past chat_loop's exit gate or handled a command.
LostOnlyWhenLate == abandoned \subseteq late \cup failed

\* When a turn reads the conversation, its own messages and everything that
\* earlier turns were about are in it, except what a command deleted, what a
\* turn that raised had not written yet, and interjections merged into a
\* prompt that persist_response skips: no turn reads while the rows of
\* another are still to come, and a turn that fails keeps its user's message.
TurnsSeeEachOther ==
  stage = "read" =>
    handled \cup pulled \subseteq stored \cup cleared \cup failed \cup unwritten

\* handle_message is a handler as MessageQueue assumes it: it takes its
\* interjections from its own queue, and every call ends.
ImplementsQueue == FairSpec
=============================================================================

------------------------------ MODULE Sessions ------------------------------
(***************************************************************************)
(* The heartbeat's session beside a turn of the user, on one knowledge     *)
(* graph.  The loop never passes agent_busy to should_run, so both run at  *)
(* once; within a session tool calls are made one after the other.         *)
(***************************************************************************)
EXTENDS Facts, Heartbeat

Turn == "turn"
Beat == "heartbeat"

ASSUME CallersAssumption == Callers = {Turn, Beat}

vars == <<factVars, heartVars>>

Init == FactsInit /\ HeartInit

\* A tool call of a session that is running.
Works(c) ==
  /\ c = Beat => tick = "chat"
  /\ FactStep(c)
  /\ UNCHANGED heartVars

\* chat_loop returns once its tool calls have.
Heartbeats ==
  /\ Fire \/ (call[Beat] = Quiet /\ ChatEnds) \/ Send
  /\ UNCHANGED factVars

\* Transactions that were open are rolled back.
Restart ==
  /\ Restarted
  /\ call' = [c \in Callers |-> Quiet]
  /\ ended' = [c \in Callers |-> {}]
  /\ UNCHANGED <<rows, overlap, calls>>

Next == Heartbeats \/ Restart \/ \E c \in Callers : Works(c)

\* A tool call returns, a session ends, room_send answers.
Fairness ==
  /\ WF_vars(Heartbeats)
  /\ \A c \in Callers : WF_vars(UNCHANGED heartVars /\ (Commit(c) \/ CallFails(c)))

Spec == Init /\ [][Next]_vars /\ Fairness

-----------------------------------------------------------------------------
(* Properties *)

\* What the knowledge graph answers holds, and holds once, up to overlaps.
FactsConsistent == FactsTypeOK /\ AnswersAreActive /\ DuplicatesNeedOverlap

\* The delivery filter and the room agree on what was said last.
FilterMatchesRoom == HeartTypeOK /\ RememberedWasPosted /\ NoRepeats

\* Whatever happens in a tick, the loop gets back to its sleep.
TicksGoOn == tick # "sleep" ~> tick = "sleep"
=============================================================================

--------------------------- MODULE BackgroundTask ---------------------------
(***************************************************************************)
(* Background tasks: BackgroundTaskManager.spawn, run_bash with its        *)
(* timeout, and the injection of the result.                               *)
(*                                                                         *)
(* A command runs in a session of its own: the shell, and possibly a       *)
(* process it started, which holds the shell's output pipe.  communicate() *)
(* ends when both have: the pipe is closed and the shell is reaped.        *)
(***************************************************************************)
EXTENDS Injection

CONSTANTS Tasks  \* task ids, each used once

Members == {"shell", "child"}

\* Who runs, and who of them ignores SIGTERM.
Command == [members : {{"shell"}, Members}, stubborn : SUBSET Members]

Commands == {c \in Command : c.stubborn \subseteq c.members}

VARIABLES
  at,       \* the await that the task's _run is in
  alive,    \* the processes of its group
  stubborn, \* those of them that ignore SIGTERM
  result,   \* TaskRecord.result, and "none" while it is not finished
  reports   \* history: how often the result was injected

taskVars == <<at, alive, stubborn, result, reports>>

TaskInit ==
  /\ at = [t \in Tasks |-> "unborn"]
  /\ alive = [t \in Tasks |-> {}]
  /\ stubborn = [t \in Tasks |-> {}]
  /\ result = [t \in Tasks |-> "none"]
  /\ reports = [t \in Tasks |-> 0]

-----------------------------------------------------------------------------

\* spawn: the record is made; the shell starts when _run does, or fails to.
Spawn(t) ==
  /\ process = "up"
  /\ at[t] = "unborn"
  /\ at' = [at EXCEPT ![t] = "start"]
  /\ UNCHANGED <<shared, alive, stubborn, result, reports>>

Started(t) ==
  /\ at[t] = "start"
  /\ at' = [at EXCEPT ![t] = "communicate"]
  /\ \E c \in Commands :
       /\ alive' = [alive EXCEPT ![t] = c.members]
       /\ stubborn' = [stubborn EXCEPT ![t] = c.stubborn]
  /\ UNCHANGED <<shared, result, reports>>

Awaits == {"start", "communicate", "terminate", "drain"}

Survive(t, members) ==
  /\ alive' = [alive EXCEPT ![t] = members]
  /\ stubborn' = [stubborn EXCEPT ![t] = @ \cap members]

\* A process ends by itself, as long as it matters to somebody.
Exit(t, m) ==
  /\ at[t] \in Awaits /\ m \in alive[t]
  /\ Survive(t, alive[t] \ {m})
  /\ UNCHANGED <<shared, at, result, reports>>

Note(t) == <<"task", t>>

\* run_bash returns: the record is finished and the result injected, and
\* nothing is awaited in between.
Report(t, text) ==
  /\ at' = [at EXCEPT ![t] = "done"]
  /\ result' = [result EXCEPT ![t] = text]
  /\ reports' = [reports EXCEPT ![t] = @ + 1]
  /\ Inject(Note(t))

NotStarted(t) ==
  /\ at[t] = "start"
  /\ Report(t, "error")
  /\ UNCHANGED <<alive, stubborn>>

Completed(t) ==
  /\ at[t] = "communicate"
  /\ alive[t] = {}
  /\ Report(t, "output")
  /\ UNCHANGED <<alive, stubborn>>

\* Fault: the signal goes to the shell only.
TimeoutShell(t) ==
  /\ at[t] = "communicate"
  /\ at' = [at EXCEPT ![t] = "terminate"]
  /\ Survive(t, (alive[t] \ {"shell"}) \cup stubborn[t])
  /\ UNCHANGED <<shared, result, reports>>

\* communicate() timed out: SIGTERM to the group.
Timeout(t) ==
  /\ at[t] = "communicate"
  /\ at' = [at EXCEPT ![t] = "terminate"]
  /\ Survive(t, stubborn[t])
  /\ UNCHANGED <<shared, result, reports>>

\* Fault: the record is finished before run_bash has returned.
TerminatedAtOnce(t) ==
  /\ at[t] = "terminate"
  /\ at' = [at EXCEPT ![t] = "drain"]
  /\ Survive(t, {})
  /\ result' = [result EXCEPT ![t] = "timeout"]
  /\ UNCHANGED <<shared, reports>>

\* Fault: nothing but SIGTERM is sent.
NoSigkill(t) ==
  /\ at[t] = "terminate"
  /\ at' = [at EXCEPT ![t] = "drain"]
  /\ UNCHANGED <<shared, alive, stubborn, result, reports>>

\* proc.wait() ends when the shell does, or its five seconds are over, and
\* then SIGKILL goes to the group.
Terminated(t) ==
  /\ at[t] = "terminate"
  /\ at' = [at EXCEPT ![t] = "drain"]
  /\ \/ "shell" \notin alive[t] /\ UNCHANGED <<alive, stubborn>>
     \/ Survive(t, {})
  /\ UNCHANGED <<shared, result, reports>>

\* Fault: the pipe is drained without a timeout.
DrainedToTheEnd(t) ==
  /\ at[t] = "drain"
  /\ alive[t] = {}
  /\ Report(t, "timeout")
  /\ UNCHANGED <<alive, stubborn>>

\* Fault: the timeout is reported at once, and then the command is awaited
\* again.
DrainedTwice(t) ==
  /\ at[t] = "drain"
  /\ at' = [at EXCEPT ![t] = "communicate"]
  /\ reports' = [reports EXCEPT ![t] = @ + 1]
  /\ Inject(Note(t))
  /\ UNCHANGED <<alive, stubborn, result>>

\* The second communicate() ends, or its five seconds do.
Drained(t) ==
  /\ at[t] = "drain"
  /\ Report(t, "timeout")
  /\ UNCHANGED <<alive, stubborn>>

\* The records die with the process; so do the commands, in its container.
TaskDie ==
  /\ at' = [t \in Tasks |-> IF at[t] = "unborn" THEN at[t] ELSE "gone"]
  /\ alive' = [t \in Tasks |-> {}]
  /\ stubborn' = [t \in Tasks |-> {}]
  /\ result' = [t \in Tasks |-> "none"]
  /\ UNCHANGED reports

Run(t) == Started(t) \/ NotStarted(t) \/ Completed(t) \/ Timeout(t)
            \/ Terminated(t) \/ Drained(t)

TaskNext == \E t \in Tasks : Spawn(t) \/ Run(t) \/ \E m \in Members : Exit(t, m)

-----------------------------------------------------------------------------
(* Properties *)

TaskTypeOK ==
  /\ at \in [Tasks -> {"unborn", "done", "gone"} \cup Awaits]
  /\ alive \in [Tasks -> SUBSET Members]
  /\ stubborn \in [Tasks -> SUBSET Members]
  /\ result \in [Tasks -> {"none", "error", "output", "timeout"}]
  /\ \A t \in Tasks : (result[t] # "none") <=> (at[t] = "done")

\* A result is injected once, exactly when get_task_result begins to call the
\* task finished, whatever way the command ended.
ReportedOnce ==
  \A t \in Tasks : reports[t] = (IF at[t] = "done" THEN 1 ELSE 0) \/ at[t] = "gone"

\* A task that is reported has no process left, except one that ignores
\* SIGTERM while its shell does not.
OnlyStubbornSurvive ==
  \A t \in Tasks : result[t] # "none" => alive[t] \subseteq stubborn[t] \ {"shell"}

\* Every task is reported, though its processes ignore signals and keep the
\* pipe open for ever, and the report leaves the queue: it is heard, unless
\* other messages push it out or the process dies.
ResultsArrive ==
  \A t \in Tasks :
    at[t] \in Awaits ~>
      \/ at[t] = "gone"
      \/ at[t] = "done" /\ Note(t) \notin ToSet(inbox)
=============================================================================

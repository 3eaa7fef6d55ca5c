-------------------------------- MODULE Cron --------------------------------
(***************************************************************************)
(* Cron jobs: the cron_jobs and cron_runs tables, the job store of the     *)
(* scheduler (CronScheduler over APScheduler), the runs in flight          *)
(* (run_cron_job), the agent's tools that create, update and delete jobs,  *)
(* and restarts of the process.  Only the tables survive a restart.        *)
(*                                                                         *)
(* A job's row is a Setting.  The scheduler and a run in flight have the   *)
(* Setting that was current when the job was scheduled (args=[job]).  The  *)
(* run of a job holds a database transaction while it talks to the model;  *)
(* its uncommitted cron_runs row refers to the job's row, which PostgreSQL *)
(* therefore does not let anybody delete.                                  *)
(***************************************************************************)
EXTENDS Naturals, Sequences, FiniteSets

CONSTANTS Jobs,        \* primary keys, each used once
          Settings,    \* what the agent may ask for, a set of Setting
          MaxTime,     \* bound on the clock
          MaxFires,    \* bound on the times a schedule fires
          MaxUpdates,  \* bound on update_cron_job calls
          MaxCrashes   \* bound on restarts

\* "every" stands for both recurring kinds, "invalid" for an expression that
\* the trigger's constructor refuses; only "at" has a date.
Setting == [kind : {"every", "at", "invalid"}, at : 0..MaxTime,
            delete_after_run : BOOLEAN, enabled : BOOLEAN]

ASSUME CronAssumption ==
  /\ Settings \subseteq Setting
  /\ {MaxTime, MaxFires, MaxUpdates, MaxCrashes} \subseteq Nat

None   == [kind |-> "none"]
Unused == [kind |-> "unused"]  \* the key of a row that does not exist yet
Gone   == [kind |-> "gone"]    \* the key of a deleted row
NoJob  == "no job"

VARIABLES
  process,   \* "down", "up", or "failed" in its startup
  now,       \* the clock, in grace periods of APScheduler
  rows,      \* cron_jobs
  failures,  \* consecutive_failures
  records,   \* cron_runs: the committed statuses of each job, in order
  schedule,  \* APScheduler's job store
  run,       \* the one run of a job: its await and its snapshot
  op,        \* the cron tool call in progress
  delivered, \* history: the snapshots whose output reached the room
  fires, updates, crashes

vars == <<process, now, rows, failures, records, schedule, run, op, delivered,
          fires, updates, crashes>>

database == <<rows, failures, records>>
counters == <<fires, updates, crashes>>

HasRow(j) == rows[j] \notin {Unused, Gone}

NoOp == [job |-> NoJob, stage |-> "idle", snap |-> None, others |-> FALSE]

Op(j, stage, snap) == [job |-> j, stage |-> stage, snap |-> snap, others |-> FALSE]

NoRun == [stage |-> "none", snap |-> None]

Init ==
  /\ process = "down"
  /\ now = 0
  /\ rows = [j \in Jobs |-> Unused]
  /\ failures = [j \in Jobs |-> 0]
  /\ records = [j \in Jobs |-> <<>>]
  /\ schedule = [j \in Jobs |-> None]
  /\ run = [j \in Jobs |-> NoRun]
  /\ op = NoOp
  /\ delivered = [j \in Jobs |-> <<>>]
  /\ fires = 0
  /\ updates = 0
  /\ crashes = 0

-----------------------------------------------------------------------------
(* The process: load_jobs at startup, loss of everything in memory *)

Loaded == {j \in Jobs : HasRow(j) /\ rows[j].enabled}

Refused(s) == s.kind = "invalid"

\* load_jobs: all enabled jobs are scheduled before the scheduler starts.
Start ==
  /\ process = "down"
  /\ \A j \in Loaded : ~Refused(rows[j])
  /\ process' = "up"
  /\ schedule' = [j \in Jobs |-> IF j \in Loaded THEN rows[j] ELSE None]
  /\ UNCHANGED <<now, database, run, op, delivered, counters>>

\* add_job raises in lifespan, which has no handler: the application does
\* not start, and neither does a later attempt.
StartFails ==
  /\ process = "down"
  /\ \E j \in Loaded : Refused(rows[j])
  /\ process' = "failed"
  /\ UNCHANGED <<now, database, schedule, run, op, delivered, counters>>

\* Shutdown or crash: transactions in flight are rolled back.
Crash ==
  /\ process = "up"
  /\ crashes < MaxCrashes
  /\ crashes' = crashes + 1
  /\ process' = "down"
  /\ schedule' = [j \in Jobs |-> None]
  /\ run' = [j \in Jobs |-> NoRun]
  /\ op' = NoOp
  /\ UNCHANGED <<now, database, delivered, fires, updates>>

Tick ==
  /\ now < MaxTime
  /\ now' = now + 1
  /\ UNCHANGED <<process, database, schedule, run, op, delivered, counters>>

-----------------------------------------------------------------------------
(* APScheduler *)

Due(s) == s # None /\ (s.kind = "at" => s.at = now)

\* The trigger fires.  A date fires once; max_instances is 1, so nothing is
\* submitted while the job's last run is in flight.
Fire(j) ==
  /\ process = "up"
  /\ Due(schedule[j])
  /\ fires < MaxFires
  /\ fires' = fires + 1
  /\ schedule' = [schedule EXCEPT ![j] = IF @.kind = "at" THEN None ELSE @]
  /\ run' = IF run[j] # NoRun THEN run
            ELSE [run EXCEPT ![j] = [stage |-> "submitted", snap |-> schedule[j]]]
  /\ UNCHANGED <<process, now, database, op, delivered, updates, crashes>>

\* A date that is further back than misfire_grace_time is dropped.
Misfire(j) ==
  /\ process = "up"
  /\ schedule[j] # None
  /\ schedule[j].kind = "at" /\ schedule[j].at < now
  /\ schedule' = [schedule EXCEPT ![j] = None]
  /\ UNCHANGED <<process, now, database, run, op, delivered, counters>>

-----------------------------------------------------------------------------
(* run_cron_job *)

EndRun(j) == run' = [run EXCEPT ![j] = NoRun]

\* Fault: the row of the run is not flushed before the model is called.
BeginUnflushed(j) ==
  /\ run[j].stage = "submitted"
  /\ run' = [run EXCEPT ![j].stage = "chat"]
  /\ UNCHANGED <<process, now, database, schedule, op, delivered, counters>>

\* The flush inserts the run's row.  Without the job's row it fails outside
\* of the try block and _run_job logs it.
Begin(j) ==
  /\ run[j].stage = "submitted"
  /\ IF HasRow(j) THEN run' = [run EXCEPT ![j].stage = "chat"] ELSE EndRun(j)
  /\ UNCHANGED <<process, now, database, schedule, op, delivered, counters>>

DeleteWaits(j) == op.job = j /\ op.stage = "blocked"

\* The run commits, and a delete that waits for it goes on.  If the run has
\* deleted the row, the delete finds none and is content, unless the two
\* waited for each other over the job's older runs; if not, the committed
\* run refers to the row and the delete fails.
Unblock(j, rowDeleted) ==
  op' = IF ~DeleteWaits(j) THEN op
        ELSE IF rowDeleted /\ ~op.others THEN Op(j, "unschedule", None)
        ELSE NoOp

\* Fault: the output is sent before anything is committed.
ChatOkUncommitted(j, output) ==
  /\ run[j].stage = "chat"
  /\ output
  /\ run' = [run EXCEPT ![j].stage = "send"]
  /\ UNCHANGED <<process, now, database, schedule, op, delivered, counters>>

\* Fault: delete_after_run is taken to concern dates only.
DeletesAtOnly(s) == s.delete_after_run /\ s.kind = "at"

\* Whether the run deletes its job goes by the snapshot, not by the row.
Deletes(s) == s.delete_after_run

\* The model has answered.  One transaction: the run's status, the counter
\* and, for one-shots, the job with all its runs.  Only then the output, if
\* there is any, is sent.
ChatOk(j, output) ==
  /\ run[j].stage = "chat"
  /\ IF Deletes(run[j].snap)
     THEN /\ rows' = [rows EXCEPT ![j] = Gone]
          /\ records' = [records EXCEPT ![j] = <<>>]
     ELSE /\ rows' = rows
          /\ records' = [records EXCEPT ![j] = Append(@, "success")]
  /\ failures' = [failures EXCEPT ![j] = 0]
  /\ IF output THEN run' = [run EXCEPT ![j].stage = "send"] ELSE EndRun(j)
  /\ Unblock(j, Deletes(run[j].snap))
  /\ UNCHANGED <<process, now, schedule, delivered, counters>>

\* The run and a delete wait for each other and PostgreSQL aborts the run:
\* its exception handler cannot use the session and raises, nothing is left
\* of the run, and the delete succeeds.
RunAborted(j) ==
  /\ run[j].stage = "chat"
  /\ Deletes(run[j].snap)
  /\ DeleteWaits(j) /\ op.others
  /\ EndRun(j)
  /\ rows' = [rows EXCEPT ![j] = Gone]
  /\ records' = [records EXCEPT ![j] = <<>>]
  /\ failures' = [failures EXCEPT ![j] = 0]
  /\ op' = Op(j, "unschedule", None)
  /\ UNCHANGED <<process, now, schedule, delivered, counters>>

ChatFail(j) ==
  /\ run[j].stage = "chat"
  /\ records' = [records EXCEPT ![j] = Append(@, "failure")]
  /\ failures' = [failures EXCEPT ![j] = @ + 1]
  /\ EndRun(j)
  /\ Unblock(j, FALSE)
  /\ UNCHANGED <<process, now, rows, schedule, delivered, counters>>

Sent(j) ==
  /\ run[j].stage = "send"
  /\ delivered' = [delivered EXCEPT ![j] = Append(@, run[j].snap)]
  /\ EndRun(j)
  /\ UNCHANGED <<process, now, database, schedule, op, counters>>

\* Fault: the failed send is recorded, but not counted.
SendFailUncounted(j) ==
  /\ run[j].stage = "send"
  /\ records' = [records EXCEPT ![j] =
                   IF HasRow(j) THEN [@ EXCEPT ![Len(@)] = "failure"] ELSE @]
  /\ EndRun(j)
  /\ UNCHANGED <<process, now, rows, failures, schedule, op, delivered, counters>>

\* send_message raises: the same handler as for the model's failure turns
\* the run into a failure; if the job is gone, it raises itself.
SendFail(j) ==
  /\ run[j].stage = "send"
  /\ IF HasRow(j)
     THEN /\ records' = [records EXCEPT ![j][Len(records[j])] = "failure"]
          /\ failures' = [failures EXCEPT ![j] = @ + 1]
     ELSE UNCHANGED <<records, failures>>
  /\ EndRun(j)
  /\ UNCHANGED <<process, now, rows, schedule, op, delivered, counters>>

-----------------------------------------------------------------------------
(* The cron tools, one call at a time: chat_loop runs calls in sequence, and *)
(* only the registry of the room's turns has these tools.                    *)

ToolCall == process = "up" /\ op = NoOp

Create(j, s) ==
  /\ ToolCall
  /\ rows[j] = Unused
  /\ s.enabled
  /\ rows' = [rows EXCEPT ![j] = s]
  /\ op' = Op(j, "refresh", None)
  /\ UNCHANGED <<process, now, failures, records, schedule, run, delivered, counters>>

\* Any of the columns may be given, so any setting may result.
Update(j, s) ==
  /\ ToolCall
  /\ HasRow(j)
  /\ updates < MaxUpdates
  /\ updates' = updates + 1
  /\ rows' = [rows EXCEPT ![j] = s]
  /\ op' = Op(j, "refresh", None)
  /\ UNCHANGED <<process, now, failures, records, schedule, run, delivered,
                 fires, crashes>>

\* Fault: refresh is tried again until it finds the row.
RefreshRetrying ==
  /\ op.stage = "refresh"
  /\ op' = IF HasRow(op.job) THEN Op(op.job, "schedule", rows[op.job]) ELSE op
  /\ UNCHANGED <<process, now, database, schedule, run, delivered, counters>>

\* db.refresh() after the commit: it raises if a run has deleted the row, and
\* the call ends with an error.
Refresh ==
  /\ op.stage = "refresh"
  /\ op' = IF HasRow(op.job) THEN Op(op.job, "schedule", rows[op.job]) ELSE NoOp
  /\ UNCHANGED <<process, now, database, schedule, run, delivered, counters>>

\* Fault: the old schedule is only ever replaced.
RescheduleReplacing ==
  /\ op.stage = "schedule"
  /\ schedule' = [schedule EXCEPT ![op.job] =
                    IF op.snap.enabled /\ ~Refused(op.snap) THEN op.snap ELSE @]
  /\ op' = NoOp
  /\ UNCHANGED <<process, now, database, run, delivered, counters>>

\* Fault: a disabled job is scheduled like any other.
RescheduleAnyway ==
  /\ op.stage = "schedule"
  /\ schedule' = [schedule EXCEPT ![op.job] =
                    IF ~Refused(op.snap) THEN op.snap ELSE None]
  /\ op' = NoOp
  /\ UNCHANGED <<process, now, database, run, delivered, counters>>

\* After the session is closed: remove_job, and add_job if the job is enabled
\* (a new job is, and was not scheduled).  A refused expression is reported.
Reschedule ==
  /\ op.stage = "schedule"
  /\ schedule' = [schedule EXCEPT ![op.job] =
                    IF op.snap.enabled /\ ~Refused(op.snap) THEN op.snap ELSE None]
  /\ op' = NoOp
  /\ UNCHANGED <<process, now, database, run, delivered, counters>>

\* The job and its runs are deleted, unless a run of it is in its transaction.
Delete(j) ==
  /\ ToolCall
  /\ HasRow(j)
  /\ IF run[j].stage = "chat"
     THEN /\ op' = [Op(j, "blocked", None) EXCEPT !.others = records[j] # <<>>]
          /\ UNCHANGED database
     ELSE /\ op' = Op(j, "unschedule", None)
          /\ rows' = [rows EXCEPT ![j] = Gone]
          /\ records' = [records EXCEPT ![j] = <<>>]
          /\ failures' = [failures EXCEPT ![j] = 0]
  /\ UNCHANGED <<process, now, schedule, run, delivered, counters>>

Unschedule ==
  /\ op.stage = "unschedule"
  /\ schedule' = [schedule EXCEPT ![op.job] = None]
  /\ op' = NoOp
  /\ UNCHANGED <<process, now, database, run, delivered, counters>>

-----------------------------------------------------------------------------

\* Nothing is under way: the scheduler and the tools wait, for ever if the
\* startup failed.
Idle ==
  /\ process # "down"
  /\ op = NoOp
  /\ \A j \in Jobs : run[j] = NoRun
  /\ UNCHANGED vars

Run(j) ==
  \/ Begin(j)
  \/ \E output \in BOOLEAN : ChatOk(j, output)
  \/ ChatFail(j)
  \/ Sent(j)
  \/ SendFail(j)

Tool == Refresh \/ Reschedule \/ Unschedule

Next ==
  \/ Start \/ StartFails \/ Crash \/ Tick
  \/ \E j \in Jobs : \/ Fire(j) \/ Misfire(j)
                     \/ Run(j) \/ RunAborted(j)
                     \/ \E s \in Settings : Create(j, s) \/ Update(j, s)
                     \/ Delete(j)
  \/ Tool
  \/ Idle

\* A run ends because chat_loop does and requests have timeouts, a tool call
\* because the database answers.  Nothing makes a trigger fire or the agent
\* call a tool.
Fairness ==
  /\ \A j \in Jobs : WF_vars(Run(j))
  /\ WF_vars(Tool)

Spec == Init /\ [][Next]_vars /\ Fairness

-----------------------------------------------------------------------------
(* Properties *)

\* Every variable has its type; what is scheduled is enabled and valid.
TypeOK ==
  /\ process \in {"down", "up", "failed"}
  /\ now \in 0..MaxTime
  /\ rows \in [Jobs -> Settings \cup {Unused, Gone}]
  /\ failures \in [Jobs -> 0..MaxFires]
  /\ \A j \in Jobs : records[j] \in Seq({"success", "failure"})
  /\ schedule \in [Jobs -> {s \in Settings : s.enabled /\ ~Refused(s)} \cup {None}]
  /\ run \in [Jobs -> [stage : {"submitted", "chat", "send"}, snap : Settings]
                        \cup {NoRun}]
  /\ op.job \in Jobs \cup {NoJob}
  /\ op.stage \in {"idle", "refresh", "schedule", "blocked", "unschedule"}
  /\ op.snap \in Settings \cup {None}
  /\ \A j \in Jobs : delivered[j] \in Seq(Settings)

\* No model session runs for a job that has been deleted, although neither
\* tools nor runs look at one another and a deleted job may stay scheduled.
NoOrphanRun == \A j \in Jobs : run[j].stage = "chat" => HasRow(j)

\* Between tool calls the scheduler agrees with the table about the jobs the
\* table has: disabled jobs are not scheduled, recurring ones are, and nothing
\* is scheduled as it was before an update.
ScheduleFollowsTable ==
  process = "up" => \A j \in Jobs : HasRow(j) /\ op.job # j =>
    /\ schedule[j] \in {None, rows[j]}
    /\ schedule[j] # None => rows[j].enabled
    /\ rows[j].enabled /\ rows[j].kind = "every" => schedule[j] # None

\* The successful run of a one-shot job is its last, across restarts, updates
\* and schedules that outlive the row.
OneShotOnce ==
  \A j \in Jobs : \A i \in DOMAIN delivered[j] :
    i < Len(delivered[j]) => ~delivered[j][i].delete_after_run

Successes(j) == Cardinality({i \in DOMAIN records[j] : records[j][i] = "success"})

\* Whatever reached the room for a job that exists is on record as a success,
\* also if the process ends right after the send.
DeliveredIsRecorded ==
  \A j \in Jobs : HasRow(j) => Len(delivered[j]) <= Successes(j)

\* The counter is zero exactly if the last recorded run, sends included, was
\* not a failure.
FailuresCounted ==
  \A j \in Jobs : failures[j] = 0 <=>
    records[j] = <<>> \/ records[j][Len(records[j])] = "success"

\* The two tables tell the truth about each other and about the room.
RecordsAgree == TypeOK /\ DeliveredIsRecorded /\ FailuresCounted

\* A cron tool call ends, also a delete that waits for a run.
ToolCallsEnd == op # NoOp ~> op = NoOp
=============================================================================

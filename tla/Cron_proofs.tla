----------------------------- MODULE Cron_proofs -----------------------------
(***************************************************************************)
(* Proofs about Cron for every set of jobs and settings and every number   *)
(* of fires, updates and restarts: what keeps a run and its job together,  *)
(* the scheduler and the table, and the two tables and what was sent.      *)
(***************************************************************************)
EXTENDS Cron, SequenceTheorems, FiniteSetTheorems, TLAPS

Stages == {"none", "submitted", "chat", "send"}

\* The part of TypeOK that does not depend on the bounds.
Shape ==
  /\ rows \in [Jobs -> Settings \cup {Unused, Gone}]
  /\ schedule \in [Jobs -> Settings \cup {None}]
  /\ run \in [Jobs -> [stage : Stages, snap : Settings \cup {None}]]
  /\ \A j \in Jobs : run[j].stage # "none" => run[j].snap \in Settings
  /\ op.stage = "schedule" => op.job \in Jobs /\ op.snap \in Settings
  /\ op.stage \in {"refresh", "blocked", "unschedule"} => op.job \in Jobs
  /\ delivered \in [Jobs -> Seq(Settings)]

LEMMA SettingsAreRows ==
  /\ Unused \notin Settings /\ Gone \notin Settings /\ None \notin Settings
  /\ Unused # Gone
<1>1. \A s \in Settings : s.kind \in {"every", "at", "invalid"}
  BY CronAssumption DEF Setting
<1>2. Unused.kind = "unused" /\ Gone.kind = "gone" /\ None.kind = "none"
  BY DEF Unused, Gone, None
<1> QED BY <1>1, <1>2

LEMMA InitShape == Init => Shape
<1> SUFFICES ASSUME Init PROVE Shape
  OBVIOUS
<1>1. <<>> \in Seq(Settings)
  BY EmptySeq
<1> QED BY <1>1 DEF Init, Shape, NoRun, NoOp, Stages

\* Nothing but a run that ends, or moves on, changes run.
LEMMA EndRunShape ==
  ASSUME Shape, NEW j \in Jobs, EndRun(j)
  PROVE  /\ run' \in [Jobs -> [stage : Stages, snap : Settings \cup {None}]]
         /\ \A k \in Jobs : run'[k].stage # "none" => run'[k].snap \in Settings
         /\ run'[j].stage = "none"
         /\ \A k \in Jobs \ {j} : run'[k] = run[k]
BY DEF Shape, EndRun, NoRun, Stages

LEMMA MoveRunShape ==
  ASSUME Shape, NEW j \in Jobs, run[j].stage # "none", NEW to \in Stages,
         run' = [run EXCEPT ![j].stage = to]
  PROVE  /\ run' \in [Jobs -> [stage : Stages, snap : Settings \cup {None}]]
         /\ \A k \in Jobs : run'[k].stage # "none" => run'[k].snap \in Settings
         /\ run'[j].stage = to /\ run'[j].snap = run[j].snap
         /\ \A k \in Jobs \ {j} : run'[k] = run[k]
BY DEF Shape

\* What the commit of a run does to a delete that waits for it.
LEMMA UnblockShape ==
  ASSUME Shape, NEW j \in Jobs, NEW rowDeleted, Unblock(j, rowDeleted)
  PROVE  /\ op'.stage = "schedule" => op'.job \in Jobs /\ op'.snap \in Settings
         /\ op'.stage \in {"refresh", "blocked", "unschedule"} => op'.job \in Jobs
<1>1. Op(j, "unschedule", None).stage = "unschedule"
      /\ Op(j, "unschedule", None).job = j
  BY DEF Op
<1>2. NoOp.stage = "idle"
  BY DEF NoOp
<1> QED BY <1>1, <1>2 DEF Shape, Unblock

LEMMA NextShape == Shape /\ [Next]_vars => Shape'
<1> SUFFICES ASSUME Shape, [Next]_vars PROVE Shape'
  OBVIOUS
<1> USE SettingsAreRows
<1>0. ASSUME UNCHANGED <<rows, schedule, run, op, delivered>> PROVE Shape'
  BY <1>0 DEF Shape
<1>1. CASE Start \/ StartFails
  BY <1>1 DEF Start, StartFails, database, counters, Shape, Loaded, HasRow
<1>2. CASE Crash
  BY <1>2 DEF Crash, database, Shape, NoRun, NoOp, Stages
<1>3. CASE Tick \/ Idle \/ UNCHANGED vars
  BY <1>3, <1>0 DEF Tick, Idle, vars, database
<1>4. ASSUME NEW j \in Jobs, Fire(j) PROVE Shape'
  <2>1. schedule[j] \in Settings
    BY <1>4 DEF Fire, Due, Shape
  <2>2. schedule' \in [Jobs -> Settings \cup {None}]
    BY <1>4, <2>1 DEF Fire, Shape
  <2>3. /\ run' \in [Jobs -> [stage : Stages, snap : Settings \cup {None}]]
        /\ \A k \in Jobs : run'[k].stage # "none" => run'[k].snap \in Settings
    BY <1>4, <2>1 DEF Fire, Shape, Stages
  <2> QED BY <1>4, <2>2, <2>3 DEF Fire, Shape, database
<1>5. ASSUME NEW j \in Jobs, Misfire(j) PROVE Shape'
  BY <1>5 DEF Misfire, Shape, database
<1>6. ASSUME NEW j \in Jobs, Begin(j) PROVE Shape'
  <2>1. /\ run' \in [Jobs -> [stage : Stages, snap : Settings \cup {None}]]
        /\ \A k \in Jobs : run'[k].stage # "none" => run'[k].snap \in Settings
    BY <1>6, EndRunShape, MoveRunShape DEF Begin, Stages
  <2> QED BY <1>6, <2>1 DEF Begin, Shape, database
<1>7. ASSUME NEW j \in Jobs, NEW output \in BOOLEAN, ChatOk(j, output)
      PROVE  Shape'
  <2>1. /\ run' \in [Jobs -> [stage : Stages, snap : Settings \cup {None}]]
        /\ \A k \in Jobs : run'[k].stage # "none" => run'[k].snap \in Settings
    BY <1>7, EndRunShape, MoveRunShape DEF ChatOk, Stages
  <2>2. rows' \in [Jobs -> Settings \cup {Unused, Gone}]
    BY <1>7 DEF ChatOk, Shape
  <2>3. /\ op'.stage = "schedule" => op'.job \in Jobs /\ op'.snap \in Settings
        /\ op'.stage \in {"refresh", "blocked", "unschedule"} => op'.job \in Jobs
    BY <1>7, UnblockShape DEF ChatOk
  <2> QED BY <1>7, <2>1, <2>2, <2>3 DEF ChatOk, Shape
<1>8. ASSUME NEW j \in Jobs, RunAborted(j) PROVE Shape'
  <2>1. /\ run' \in [Jobs -> [stage : Stages, snap : Settings \cup {None}]]
        /\ \A k \in Jobs : run'[k].stage # "none" => run'[k].snap \in Settings
    BY <1>8, EndRunShape DEF RunAborted
  <2> QED BY <1>8, <2>1 DEF RunAborted, Shape, Op
<1>9. ASSUME NEW j \in Jobs, ChatFail(j) PROVE Shape'
  <2>1. /\ run' \in [Jobs -> [stage : Stages, snap : Settings \cup {None}]]
        /\ \A k \in Jobs : run'[k].stage # "none" => run'[k].snap \in Settings
    BY <1>9, EndRunShape DEF ChatFail
  <2>2. /\ op'.stage = "schedule" => op'.job \in Jobs /\ op'.snap \in Settings
        /\ op'.stage \in {"refresh", "blocked", "unschedule"} => op'.job \in Jobs
    BY <1>9, UnblockShape DEF ChatFail
  <2> QED BY <1>9, <2>1, <2>2 DEF ChatFail, Shape
<1>10. ASSUME NEW j \in Jobs, Sent(j) PROVE Shape'
  <2>1. /\ run' \in [Jobs -> [stage : Stages, snap : Settings \cup {None}]]
        /\ \A k \in Jobs : run'[k].stage # "none" => run'[k].snap \in Settings
    BY <1>10, EndRunShape DEF Sent
  <2>2. Append(delivered[j], run[j].snap) \in Seq(Settings)
    BY <1>10, AppendProperties DEF Sent, Shape
  <2>3. delivered' \in [Jobs -> Seq(Settings)]
    BY <1>10, <2>2 DEF Sent, Shape
  <2> QED BY <1>10, <2>1, <2>3 DEF Sent, Shape, database
<1>11. ASSUME NEW j \in Jobs, SendFail(j) PROVE Shape'
  <2>1. /\ run' \in [Jobs -> [stage : Stages, snap : Settings \cup {None}]]
        /\ \A k \in Jobs : run'[k].stage # "none" => run'[k].snap \in Settings
    BY <1>11, EndRunShape DEF SendFail
  <2> QED BY <1>11, <2>1 DEF SendFail, Shape
<1>12. ASSUME NEW j \in Jobs, NEW s \in Settings, Create(j, s) \/ Update(j, s)
       PROVE  Shape'
  <2>1. op'.stage = "refresh" /\ op'.job = j
    BY <1>12 DEF Create, Update, Op
  <2>2. rows' \in [Jobs -> Settings \cup {Unused, Gone}]
    BY <1>12 DEF Create, Update, Shape
  <2>3. UNCHANGED <<schedule, run, delivered>>
    BY <1>12 DEF Create, Update
  <2> QED BY <2>1, <2>2, <2>3 DEF Shape
<1>13. ASSUME NEW j \in Jobs, Delete(j) PROVE Shape'
  <2>1. op'.stage \in {"blocked", "unschedule"} /\ op'.job = j
    BY <1>13 DEF Delete, Op
  <2>2. rows' \in [Jobs -> Settings \cup {Unused, Gone}]
    BY <1>13 DEF Delete, Shape, database
  <2>3. UNCHANGED <<schedule, run, delivered>>
    BY <1>13 DEF Delete
  <2> QED BY <2>1, <2>2, <2>3 DEF Shape
<1>14. CASE Refresh
  BY <1>14 DEF Refresh, Shape, Op, NoOp, HasRow, database
<1>15. CASE Reschedule \/ Unschedule
  BY <1>15 DEF Reschedule, Unschedule, Shape, NoOp, database
<1> QED BY <1>1, <1>2, <1>3, <1>4, <1>5, <1>6, <1>7, <1>8, <1>9, <1>10, <1>11,
           <1>12, <1>13, <1>14, <1>15 DEF Next, Run, Tool

(***************************************************************************)
(* No session without a job                                                *)
(***************************************************************************)

LEMMA NextNoOrphan == Shape /\ NoOrphanRun /\ [Next]_vars => NoOrphanRun'
<1> SUFFICES ASSUME Shape, NoOrphanRun, [Next]_vars, NEW k \in Jobs,
                    run'[k].stage = "chat"
             PROVE  HasRow(k)'
  BY DEF NoOrphanRun
<1> USE SettingsAreRows
<1>0. ASSUME rows' = rows, run[k].stage = "chat" PROVE HasRow(k)'
  BY <1>0 DEF NoOrphanRun, HasRow
<1>1. CASE Start \/ StartFails \/ Tick \/ Idle \/ UNCHANGED vars \/ Tool
  BY <1>1, <1>0 DEF Start, StartFails, Tick, Idle, vars, Tool, Refresh, Reschedule,
                    Unschedule, database
<1>2. CASE Crash
  BY <1>2 DEF Crash, NoRun
<1>3. ASSUME NEW j \in Jobs, Fire(j) PROVE HasRow(k)'
  BY <1>3, <1>0 DEF Fire, Shape, database
<1>4. ASSUME NEW j \in Jobs, Misfire(j) PROVE HasRow(k)'
  BY <1>4, <1>0 DEF Misfire, database
<1>5. ASSUME NEW j \in Jobs, Begin(j) PROVE HasRow(k)'
  <2>1. CASE k # j
    BY <1>5, <2>1, <1>0, EndRunShape, MoveRunShape DEF Begin, database, Stages
  <2>2. CASE k = j
    BY <1>5, <2>2, EndRunShape DEF Begin, database, HasRow
  <2> QED BY <2>1, <2>2
<1>6. ASSUME NEW j \in Jobs, NEW output \in BOOLEAN, ChatOk(j, output)
      PROVE  HasRow(k)'
  <2>1. k # j /\ run'[k] = run[k]
    BY <1>6, EndRunShape, MoveRunShape DEF ChatOk, Stages
  <2>2. rows'[k] = rows[k]
    BY <1>6, <2>1 DEF ChatOk, Shape
  <2> QED BY <2>1, <2>2 DEF NoOrphanRun, HasRow
<1>7. ASSUME NEW j \in Jobs, RunAborted(j) PROVE HasRow(k)'
  <2>1. k # j /\ run'[k] = run[k]
    BY <1>7, EndRunShape DEF RunAborted
  <2>2. rows'[k] = rows[k]
    BY <1>7, <2>1 DEF RunAborted, Shape
  <2> QED BY <2>1, <2>2 DEF NoOrphanRun, HasRow
<1>8. ASSUME NEW j \in Jobs, ChatFail(j) \/ Sent(j) \/ SendFail(j)
      PROVE  HasRow(k)'
  <2>1. k # j /\ run'[k] = run[k] /\ rows' = rows
    BY <1>8, EndRunShape DEF ChatFail, Sent, SendFail, database
  <2> QED BY <2>1, <1>0
<1>9. ASSUME NEW j \in Jobs, NEW s \in Settings, Create(j, s) \/ Update(j, s)
      PROVE  HasRow(k)'
  BY <1>9 DEF Create, Update, Shape, NoOrphanRun, HasRow
<1>10. ASSUME NEW j \in Jobs, Delete(j) PROVE HasRow(k)'
  BY <1>10, <1>0 DEF Delete, Shape, NoOrphanRun, HasRow, database
<1> QED BY <1>1, <1>2, <1>3, <1>4, <1>5, <1>6, <1>7, <1>8, <1>9, <1>10
        DEF Next, Run

\* No model session runs for a job that has been deleted.
THEOREM NoSessionWithoutJob == Spec => []NoOrphanRun
<1>1. Init => Shape /\ NoOrphanRun
  BY InitShape DEF Init, NoOrphanRun, NoRun
<1>2. (Shape /\ NoOrphanRun) /\ [Next]_vars => (Shape /\ NoOrphanRun)'
  BY NextShape, NextNoOrphan
<1> QED BY <1>1, <1>2, PTL DEF Spec

(***************************************************************************)
(* One-shots                                                               *)
(***************************************************************************)

\* A one-shot whose output is being sent, or was, has no row any more; keys
\* are used once, so no run of that job will get a session again.
OneShotGone ==
  \A j \in Jobs :
    /\ run[j].stage = "send" /\ run[j].snap.delete_after_run => rows[j] = Gone
    /\ \A i \in DOMAIN delivered[j] :
         delivered[j][i].delete_after_run =>
           rows[j] = Gone /\ run[j].stage # "send"

\* One job's part of it, for a step that delivers nothing for this job.
LEMMA GoneStays ==
  ASSUME Shape, NoOrphanRun, OneShotGone, NEW k \in Jobs,
         delivered'[k] = delivered[k],
         rows[k] = Gone => rows'[k] = Gone,
         run'[k] = run[k] \/ run'[k].stage # "send"
  PROVE  /\ run'[k].stage = "send" /\ run'[k].snap.delete_after_run
              => rows'[k] = Gone
         /\ \A i \in DOMAIN delivered'[k] :
              delivered'[k][i].delete_after_run =>
                rows'[k] = Gone /\ run'[k].stage # "send"
BY DEF OneShotGone

LEMMA NextOneShotGone ==
  Shape /\ NoOrphanRun /\ OneShotGone /\ [Next]_vars => OneShotGone'
<1> SUFFICES ASSUME Shape, NoOrphanRun, OneShotGone, [Next]_vars
             PROVE  OneShotGone'
  OBVIOUS
<1> USE SettingsAreRows
<1>0. ASSUME delivered' = delivered,
             \A k \in Jobs : rows[k] = Gone => rows'[k] = Gone,
             \A k \in Jobs : run'[k] = run[k] \/ run'[k].stage # "send"
      PROVE  OneShotGone'
  BY <1>0, GoneStays DEF OneShotGone
<1>1. CASE Start \/ StartFails \/ Tick \/ Idle \/ UNCHANGED vars \/ Tool
  BY <1>1, <1>0 DEF Start, StartFails, Tick, Idle, vars, Tool, Refresh, Reschedule,
                    Unschedule, database
<1>2. CASE Crash
  BY <1>2, <1>0 DEF Crash, NoRun, database
<1>3. ASSUME NEW j \in Jobs, Fire(j) \/ Misfire(j) PROVE OneShotGone'
  BY <1>3, <1>0 DEF Fire, Misfire, Shape, database
<1>4. ASSUME NEW j \in Jobs, Begin(j) PROVE OneShotGone'
  <2>1. \A k \in Jobs : run'[k] = run[k] \/ run'[k].stage # "send"
    BY <1>4, EndRunShape, MoveRunShape DEF Begin, Stages
  <2> QED BY <2>1, <1>4, <1>0 DEF Begin, database
<1>5. ASSUME NEW j \in Jobs, NEW output \in BOOLEAN, ChatOk(j, output)
      PROVE  OneShotGone'
  <2>1. /\ \A k \in Jobs \ {j} : run'[k] = run[k] /\ rows'[k] = rows[k]
        /\ run'[j].stage = "send" => run'[j].snap = run[j].snap
        /\ rows[j] # Gone
        /\ delivered' = delivered
    <3>1. /\ \A k \in Jobs \ {j} : run'[k] = run[k]
          /\ run'[j].stage = "send" => run'[j].snap = run[j].snap
      BY <1>5, EndRunShape, MoveRunShape DEF ChatOk, Stages
    <3>2. rows[j] # Gone
      BY <1>5 DEF ChatOk, NoOrphanRun, HasRow
    <3> QED BY <3>1, <3>2, <1>5 DEF ChatOk, Shape
  <2>2. run[j].snap.delete_after_run => rows'[j] = Gone
    BY <1>5 DEF ChatOk, Deletes, Shape
  <2>3. \A i \in DOMAIN delivered[j] : ~delivered[j][i].delete_after_run
    BY <2>1 DEF OneShotGone
  <2> QED BY <2>1, <2>2, <2>3 DEF OneShotGone
<1>6. ASSUME NEW j \in Jobs, RunAborted(j) PROVE OneShotGone'
  <2>1. \A k \in Jobs : run'[k] = run[k] \/ run'[k].stage # "send"
    BY <1>6, EndRunShape DEF RunAborted
  <2> QED BY <2>1, <1>6, <1>0 DEF RunAborted, Shape
<1>7. ASSUME NEW j \in Jobs, ChatFail(j) \/ SendFail(j) PROVE OneShotGone'
  <2>1. \A k \in Jobs : run'[k] = run[k] \/ run'[k].stage # "send"
    BY <1>7, EndRunShape DEF ChatFail, SendFail
  <2> QED BY <2>1, <1>7, <1>0 DEF ChatFail, SendFail
<1>8. ASSUME NEW j \in Jobs, Sent(j) PROVE OneShotGone'
  <2>1. /\ \A k \in Jobs \ {j} : run'[k] = run[k] /\ delivered'[k] = delivered[k]
        /\ run'[j].stage = "none"
        /\ rows' = rows
        /\ run[j].stage = "send"
    BY <1>8, EndRunShape DEF Sent, Shape, database
  <2>2. /\ delivered'[j] = Append(delivered[j], run[j].snap)
        /\ delivered[j] \in Seq(Settings) /\ run[j].snap \in Settings
    BY <1>8 DEF Sent, Shape
  <2>3. \A i \in DOMAIN delivered'[j] :
          delivered'[j][i] = run[j].snap \/ (i \in DOMAIN delivered[j] /\ delivered'[j][i] = delivered[j][i])
    BY <2>2, AppendProperties, LenProperties
  <2>4. \A i \in DOMAIN delivered'[j] :
          delivered'[j][i].delete_after_run => rows'[j] = Gone
    BY <2>1, <2>3 DEF OneShotGone
  <2> QED BY <2>1, <2>4 DEF OneShotGone
<1>9. ASSUME NEW j \in Jobs, NEW s \in Settings, Create(j, s) \/ Update(j, s)
      PROVE  OneShotGone'
  BY <1>9, <1>0 DEF Create, Update, HasRow, Shape
<1>10. ASSUME NEW j \in Jobs, Delete(j) PROVE OneShotGone'
  BY <1>10, <1>0 DEF Delete, Shape, database
<1> QED BY <1>1, <1>2, <1>3, <1>4, <1>5, <1>6, <1>7, <1>8, <1>9, <1>10
        DEF Next, Run

\* Only Sent lengthens the list, and not once a one-shot is in it.
LEMMA NextOneShotOnce ==
  Shape /\ OneShotGone /\ OneShotOnce /\ [Next]_vars => OneShotOnce'
<1> SUFFICES ASSUME Shape, OneShotGone, OneShotOnce, [Next]_vars
             PROVE  OneShotOnce'
  OBVIOUS
<1>1. ASSUME delivered' = delivered PROVE OneShotOnce'
  BY <1>1 DEF OneShotOnce
<1>2. ASSUME NEW j \in Jobs, Sent(j) PROVE OneShotOnce'
  <2>1. /\ \A k \in Jobs \ {j} : delivered'[k] = delivered[k]
        /\ delivered'[j] = Append(delivered[j], run[j].snap)
        /\ delivered[j] \in Seq(Settings) /\ run[j].snap \in Settings
        /\ run[j].stage = "send"
    BY <1>2 DEF Sent, Shape
  <2>2. \A i \in DOMAIN delivered[j] : ~delivered[j][i].delete_after_run
    BY <2>1 DEF OneShotGone
  <2>3. \A i \in DOMAIN delivered'[j] : i < Len(delivered'[j]) =>
          i \in DOMAIN delivered[j] /\ delivered'[j][i] = delivered[j][i]
    BY <2>1, AppendProperties, LenProperties
  <2> QED BY <2>1, <2>2, <2>3 DEF OneShotOnce
<1>3. (\A j \in Jobs : ~Sent(j)) => delivered' = delivered
  BY DEF Next, Start, StartFails, Crash, Tick, Fire, Misfire, Run, Begin, ChatOk,
         ChatFail, SendFail, RunAborted, Create, Update, Delete, Tool, Refresh,
         Reschedule, Unschedule, Idle, vars
<1> QED BY <1>1, <1>2, <1>3

\* The successful run of a one-shot job is its last.
THEOREM OneShotsRunOnce == Spec => []OneShotOnce
<1> DEFINE Inv == Shape /\ NoOrphanRun /\ OneShotGone /\ OneShotOnce
<1>1. Init => Inv
  <2> SUFFICES ASSUME Init PROVE OneShotGone /\ OneShotOnce
    BY InitShape DEF Init, NoOrphanRun, NoRun
  <2> QED BY EmptySeq DEF Init, NoRun, OneShotGone, OneShotOnce
<1>2. Inv /\ [Next]_vars => Inv'
  BY NextShape, NextNoOrphan, NextOneShotGone, NextOneShotOnce
<1>3. Inv => OneShotOnce
  OBVIOUS
<1> QED BY <1>1, <1>2, <1>3, PTL DEF Spec

(***************************************************************************)
(* The scheduler and the table                                             *)
(***************************************************************************)

\* What ScheduleFollowsTable says of one job.
Follows(j) ==
  /\ schedule[j] \in {None, rows[j]}
  /\ schedule[j] # None => rows[j].enabled
  /\ rows[j].enabled /\ rows[j].kind = "every" => schedule[j] # None

\* What a tool call is about to do to the job store is still right: nobody
\* else updates the row it has read, and a run can only delete it.
OpFollows ==
  /\ op.stage = "schedule" /\ HasRow(op.job) => op.snap = rows[op.job]
  /\ op.stage = "unschedule" => ~HasRow(op.job)

\* A delete that waits for a run has changed nothing yet: it may still fail,
\* so the job it is about must already agree.
AllFollow ==
  process = "up" => \A j \in Jobs :
    HasRow(j) /\ (op.job # j \/ op.stage \in {"idle", "blocked"}) => Follows(j)

LEMMA InitFollow == Init => OpFollows /\ AllFollow
BY DEF Init, OpFollows, AllFollow, NoOp

\* A step that leaves the rows, the job store and the tool call alone.
LEMMA FollowStays ==
  ASSUME OpFollows, AllFollow, UNCHANGED <<rows, schedule, op>>,
         process' = process \/ process' # "up"
  PROVE  OpFollows' /\ AllFollow'
BY DEF OpFollows, AllFollow, Follows, HasRow

\* A date that has fired or has been dropped leaves the job store.
LEMMA FollowDropped ==
  ASSUME Shape, OpFollows, AllFollow, NEW j \in Jobs,
         process' = process, rows' = rows, op' = op,
         schedule[j] # None,
         schedule' = [schedule EXCEPT ![j] = IF @.kind = "at" THEN None ELSE @]
  PROVE  OpFollows' /\ AllFollow'
<1>1. OpFollows'
  BY DEF OpFollows, HasRow
<1>2. ASSUME NEW k \in Jobs, Follows(k) PROVE Follows(k)'
  BY <1>2 DEF Shape, Follows
<1> QED BY <1>1, <1>2 DEF AllFollow, HasRow

\* The end of a model session, whatever becomes of the job's row and of a
\* delete that waits for it.
LEMMA FollowUnblock ==
  ASSUME Shape, OpFollows, AllFollow, NEW j \in Jobs, NEW gone \in BOOLEAN,
         process' = process, schedule' = schedule,
         rows' = IF gone THEN [rows EXCEPT ![j] = Gone] ELSE rows,
         Unblock(j, gone)
  PROVE  OpFollows' /\ AllFollow'
<1>1. ASSUME NEW k \in Jobs, HasRow(k)' PROVE HasRow(k) /\ rows'[k] = rows[k]
  BY <1>1 DEF HasRow, Shape
<1>2. gone => ~HasRow(j)'
  BY DEF HasRow, Shape
<1>3. ASSUME NEW k \in Jobs, HasRow(k)', Follows(k) PROVE Follows(k)'
  BY <1>1, <1>3 DEF Follows
<1>4. CASE ~DeleteWaits(j)
  <2>1. op' = op
    BY <1>4 DEF Unblock
  <2>2. OpFollows'
    <3>1. op.stage \in {"schedule", "unschedule"} => op.job \in Jobs
      BY DEF Shape
    <3>2. ASSUME NEW k \in Jobs, op.job = k
          PROVE  /\ op.stage = "schedule" /\ HasRow(k)' => op.snap = rows'[k]
                 /\ op.stage = "unschedule" => ~HasRow(k)'
      BY <3>2, <1>1 DEF OpFollows
    <3> QED BY <2>1, <3>1, <3>2 DEF OpFollows, HasRow
  <2> QED BY <2>1, <2>2, <1>1, <1>3 DEF AllFollow
<1>5. CASE DeleteWaits(j)
  <2>1. op.job = j /\ op.stage = "blocked"
    BY <1>5 DEF DeleteWaits
  <2>2. process = "up" => \A k \in Jobs : HasRow(k) => Follows(k)
    BY <2>1 DEF AllFollow
  <2>3. AllFollow'
    BY <2>2, <1>1, <1>3 DEF AllFollow
  <2>4. \/ op'.stage = "unschedule" /\ op'.job = j /\ gone
        \/ op'.stage = "idle"
    BY <1>5 DEF Unblock, Op, NoOp
  <2> QED BY <2>3, <2>4, <1>2 DEF OpFollows
<1> QED BY <1>4, <1>5

LEMMA NextFollow ==
  Shape /\ OpFollows /\ AllFollow /\ [Next]_vars => OpFollows' /\ AllFollow'
<1> SUFFICES ASSUME Shape, OpFollows, AllFollow, [Next]_vars
             PROVE  OpFollows' /\ AllFollow'
  OBVIOUS
<1> USE SettingsAreRows
<1>1. CASE Start
  <2>1. /\ schedule' = [j \in Jobs |-> IF j \in Loaded THEN rows[j] ELSE None]
        /\ rows' = rows /\ op' = op
    BY <1>1 DEF Start, database
  <2>2. ASSUME NEW j \in Jobs, HasRow(j) PROVE Follows(j)'
    <3>1. rows[j] \in Settings
      BY <2>2 DEF HasRow, Shape
    <3> QED BY <2>1, <2>2, <3>1 DEF Follows, Loaded
  <2> QED BY <2>1, <2>2 DEF OpFollows, AllFollow, HasRow
<1>2. CASE StartFails \/ Tick \/ Idle \/ UNCHANGED vars
  BY <1>2, FollowStays DEF StartFails, Tick, Idle, vars, database
<1>3. CASE Crash
  BY <1>3 DEF Crash, OpFollows, AllFollow, NoOp
<1>4. ASSUME NEW j \in Jobs, Fire(j) \/ Misfire(j) PROVE OpFollows' /\ AllFollow'
  <2>1. /\ process' = process /\ rows' = rows /\ op' = op
        /\ schedule[j] # None
        /\ schedule' = [schedule EXCEPT ![j] = IF @.kind = "at" THEN None ELSE @]
    BY <1>4 DEF Fire, Misfire, Due, database
  <2> QED BY <2>1, FollowDropped
<1>5. ASSUME NEW j \in Jobs, Begin(j) \/ Sent(j) \/ SendFail(j)
      PROVE  OpFollows' /\ AllFollow'
  BY <1>5, FollowStays DEF Begin, Sent, SendFail, database
<1>6. ASSUME NEW j \in Jobs, NEW output \in BOOLEAN, ChatOk(j, output)
      PROVE  OpFollows' /\ AllFollow'
  <2> DEFINE gone == Deletes(run[j].snap)
  <2>1. gone \in BOOLEAN
    <3>1. run[j].snap \in Settings
      BY <1>6 DEF ChatOk, Shape
    <3> QED BY <3>1, CronAssumption DEF Deletes, Setting
  <2>2. /\ process' = process /\ schedule' = schedule /\ Unblock(j, gone)
        /\ rows' = IF gone THEN [rows EXCEPT ![j] = Gone] ELSE rows
    BY <1>6 DEF ChatOk
  <2> HIDE DEF gone
  <2> QED BY <2>1, <2>2, FollowUnblock
<1>7. ASSUME NEW j \in Jobs, RunAborted(j) PROVE OpFollows' /\ AllFollow'
  <2>1. /\ process' = process /\ schedule' = schedule
        /\ rows' = [rows EXCEPT ![j] = Gone]
        /\ op.job = j /\ op.stage = "blocked"
        /\ op'.job = j /\ op'.stage = "unschedule"
    BY <1>7 DEF RunAborted, DeleteWaits, Op
  <2>2. ASSUME NEW k \in Jobs, HasRow(k)'
        PROVE  HasRow(k) /\ rows'[k] = rows[k] /\ k # j
    BY <2>1, <2>2 DEF HasRow, Shape
  <2> QED BY <2>1, <2>2 DEF OpFollows, AllFollow, Follows
<1>8. ASSUME NEW j \in Jobs, ChatFail(j) PROVE OpFollows' /\ AllFollow'
  BY <1>8, FollowUnblock DEF ChatFail
<1>9. ASSUME NEW j \in Jobs, NEW s \in Settings, Create(j, s) \/ Update(j, s)
      PROVE  OpFollows' /\ AllFollow'
  <2>1. /\ process' = process /\ schedule' = schedule /\ op = NoOp
        /\ rows' = [rows EXCEPT ![j] = s]
        /\ op'.job = j /\ op'.stage = "refresh"
    BY <1>9 DEF Create, Update, ToolCall, Op
  <2>2. ASSUME NEW k \in Jobs \ {j} PROVE rows'[k] = rows[k]
    BY <2>1 DEF Shape
  <2> QED BY <2>1, <2>2 DEF OpFollows, AllFollow, Follows, HasRow, NoOp
<1>10. ASSUME NEW j \in Jobs, Delete(j) PROVE OpFollows' /\ AllFollow'
  <2>1. process' = process /\ schedule' = schedule /\ op = NoOp /\ op'.job = j
    BY <1>10 DEF Delete, ToolCall, Op
  <2>2. CASE run[j].stage = "chat"
    <3>1. op'.stage = "blocked" /\ rows' = rows
      BY <1>10, <2>2 DEF Delete, Op, database
    <3> QED BY <2>1, <3>1 DEF OpFollows, AllFollow, Follows, HasRow, NoOp
  <2>3. CASE run[j].stage # "chat"
    <3>1. op'.stage = "unschedule" /\ rows' = [rows EXCEPT ![j] = Gone]
      BY <1>10, <2>3 DEF Delete, Op
    <3>2. ASSUME NEW k \in Jobs, HasRow(k)'
          PROVE  HasRow(k) /\ rows'[k] = rows[k] /\ k # j
      BY <3>1, <3>2 DEF HasRow, Shape
    <3> QED BY <2>1, <3>1, <3>2 DEF OpFollows, AllFollow, Follows, NoOp
  <2> QED BY <2>2, <2>3
<1>11. CASE Refresh
  <2>1. /\ process' = process /\ schedule' = schedule /\ rows' = rows
        /\ op.stage = "refresh" /\ op.job \in Jobs
    BY <1>11 DEF Refresh, database, Shape
  <2>2. CASE HasRow(op.job)
    <3>1. op'.job = op.job /\ op'.stage = "schedule" /\ op'.snap = rows[op.job]
      BY <1>11, <2>2 DEF Refresh, Op
    <3> QED BY <2>1, <3>1 DEF OpFollows, AllFollow, Follows, HasRow
  <2>3. CASE ~HasRow(op.job)
    <3>1. op'.stage = "idle"
      BY <1>11, <2>3 DEF Refresh, NoOp
    <3> QED BY <2>1, <2>3, <3>1 DEF OpFollows, AllFollow, Follows, HasRow
  <2> QED BY <2>2, <2>3
<1>12. CASE Reschedule
  <2>1. /\ process' = process /\ rows' = rows /\ op'.stage = "idle"
        /\ op.stage = "schedule" /\ op.job \in Jobs /\ op.snap \in Settings
        /\ schedule' = [schedule EXCEPT ![op.job] =
             IF op.snap.enabled /\ ~Refused(op.snap) THEN op.snap ELSE None]
    BY <1>12 DEF Reschedule, database, Shape, NoOp
  <2>2. ASSUME NEW k \in Jobs, k = op.job, HasRow(k) PROVE Follows(k)'
    <3>1. op.snap = rows[k]
      BY <2>1, <2>2 DEF OpFollows
    <3> QED BY <2>1, <2>2, <3>1 DEF Follows, Refused, Shape
  <2>3. ASSUME NEW k \in Jobs, k # op.job, Follows(k) PROVE Follows(k)'
    BY <2>1, <2>3 DEF Follows, Shape
  <2> QED BY <2>1, <2>2, <2>3 DEF OpFollows, AllFollow, HasRow
<1>13. CASE Unschedule
  <2>1. /\ process' = process /\ rows' = rows /\ op'.stage = "idle"
        /\ op.stage = "unschedule" /\ op.job \in Jobs
        /\ schedule' = [schedule EXCEPT ![op.job] = None]
    BY <1>13 DEF Unschedule, database, Shape, NoOp
  <2>2. ~HasRow(op.job)
    BY <2>1 DEF OpFollows
  <2>3. ASSUME NEW k \in Jobs, k # op.job, Follows(k) PROVE Follows(k)'
    BY <2>1, <2>3 DEF Follows, Shape
  <2> QED BY <2>1, <2>2, <2>3 DEF OpFollows, AllFollow, HasRow
<1> QED BY <1>1, <1>2, <1>3, <1>4, <1>5, <1>6, <1>7, <1>8, <1>9, <1>10, <1>11,
           <1>12, <1>13 DEF Next, Run, Tool

\* Between tool calls the job store agrees with the table about every job the
\* table has, whatever runs and restarts have done to the two meanwhile.
THEOREM SchedulerFollows == Spec => []ScheduleFollowsTable
<1> DEFINE Inv == Shape /\ OpFollows /\ AllFollow
<1>1. Init => Inv
  BY InitShape, InitFollow
<1>2. Inv /\ [Next]_vars => Inv'
  BY NextShape, NextFollow
<1>3. Inv => ScheduleFollowsTable
  BY DEF AllFollow, Follows, ScheduleFollowsTable
<1> QED BY <1>1, <1>2, <1>3, PTL DEF Spec

(***************************************************************************)
(* The records of the runs                                                 *)
(***************************************************************************)

Statuses == {"success", "failure"}

\* The successful runs in a list of statuses, and whether the last is one.
Good(s) == {i \in DOMAIN s : s[i] = "success"}

EndsWell(s) == s = <<>> \/ s[Len(s)] = "success"

LEMMA GoodIsFinite ==
  ASSUME NEW s \in Seq(Statuses)
  PROVE  IsFiniteSet(Good(s)) /\ Cardinality(Good(s)) \in Nat
<1>1. Len(s) \in Nat /\ Good(s) \in SUBSET (1..Len(s))
  BY LenProperties DEF Good
<1>2. IsFiniteSet(1..Len(s))
  <2>1. 1 \in Int /\ Len(s) \in Int
    BY <1>1
  <2> QED BY <2>1, FS_Interval
<1>3. IsFiniteSet(Good(s))
  BY <1>1, <1>2, FS_Subset
<1> QED BY <1>3, FS_CardinalityType

LEMMA AddSuccess ==
  ASSUME NEW s \in Seq(Statuses)
  PROVE  /\ Append(s, "success") \in Seq(Statuses)
         /\ EndsWell(Append(s, "success"))
         /\ Cardinality(Good(Append(s, "success"))) = Cardinality(Good(s)) + 1
<1> DEFINE t == Append(s, "success")
           n == Len(s)
<1>1. /\ n \in Nat /\ DOMAIN s = 1..n
      /\ t \in Seq(Statuses) /\ Len(t) = n + 1 /\ DOMAIN t = 1..Len(t)
      /\ \A i \in 1..n : t[i] = s[i]
      /\ t[n + 1] = "success"
  BY AppendProperties, LenProperties DEF Statuses
<1> HIDE DEF t, n
<1>2. \A i \in 1..(n + 1) : i \in 1..n \/ i = n + 1
  BY <1>1
<1>3. Good(t) = Good(s) \cup {n + 1} /\ n + 1 \notin Good(s)
  BY <1>1, <1>2 DEF Good
<1>4. Cardinality(Good(t)) = Cardinality(Good(s)) + 1
  BY <1>3, GoodIsFinite, FS_AddElement
<1>5. EndsWell(t)
  BY <1>1 DEF EndsWell
<1> QED BY <1>1, <1>4, <1>5 DEF t

LEMMA AddFailure ==
  ASSUME NEW s \in Seq(Statuses)
  PROVE  /\ Append(s, "failure") \in Seq(Statuses)
         /\ ~EndsWell(Append(s, "failure"))
         /\ Good(Append(s, "failure")) = Good(s)
<1> DEFINE t == Append(s, "failure")
           n == Len(s)
<1>1. /\ n \in Nat /\ DOMAIN s = 1..n
      /\ t \in Seq(Statuses) /\ Len(t) = n + 1 /\ DOMAIN t = 1..Len(t) /\ t # <<>>
      /\ \A i \in 1..n : t[i] = s[i]
      /\ t[n + 1] = "failure"
  BY AppendProperties, LenProperties DEF Statuses
<1> HIDE DEF t, n
<1>2. \A i \in 1..(n + 1) : i \in 1..n \/ i = n + 1
  BY <1>1
<1>3. Good(t) = Good(s)
  BY <1>1, <1>2 DEF Good
<1>4. ~EndsWell(t)
  BY <1>1 DEF EndsWell
<1> QED BY <1>1, <1>3, <1>4 DEF t

\* A success that is taken back: the last run becomes a failure.
LEMMA TakeBack ==
  ASSUME NEW s \in Seq(Statuses), s # <<>>, s[Len(s)] = "success"
  PROVE  /\ [s EXCEPT ![Len(s)] = "failure"] \in Seq(Statuses)
         /\ ~EndsWell([s EXCEPT ![Len(s)] = "failure"])
         /\ Cardinality(Good([s EXCEPT ![Len(s)] = "failure"])) + 1
              = Cardinality(Good(s))
<1> DEFINE n == Len(s)
           t == [s EXCEPT ![n] = "failure"]
<1>1. n \in Nat \ {0} /\ DOMAIN s = 1..n /\ n \in 1..n
  BY EmptySeq, LenProperties
<1>2. /\ t \in Seq(Statuses) /\ Len(t) = n
      /\ \A i \in 1..n : t[i] = IF i = n THEN "failure" ELSE s[i]
  BY <1>1, ExceptSeq DEF Statuses
<1>3. DOMAIN t = 1..n
  BY <1>2, LenProperties
<1>4. t # <<>>
  BY <1>1, <1>2, EmptySeq
<1>5. s[n] = "success"
  OBVIOUS
<1> HIDE DEF t, n
<1>6. Good(t) = Good(s) \ {n} /\ n \in Good(s)
  BY <1>1, <1>2, <1>3, <1>5 DEF Good
<1>7. Cardinality(Good(t)) = Cardinality(Good(s)) - 1
  BY <1>6, GoodIsFinite, FS_RemoveElement
<1>8. Cardinality(Good(t)) + 1 = Cardinality(Good(s))
  <2>1. \A a, b \in Nat : a = b - 1 => a + 1 = b
    OBVIOUS
  <2> QED BY <2>1, <1>2, <1>7, GoodIsFinite
<1>9. ~EndsWell(t)
  BY <1>1, <1>2, <1>4 DEF EndsWell
<1> QED BY <1>2, <1>8, <1>9 DEF t, n

\* The rest of TypeOK, without the bound on failures.
ClockTypes ==
  /\ process \in {"down", "up", "failed"}
  /\ now \in 0..MaxTime
  /\ fires \in 0..MaxFires

StoreTypes ==
  schedule \in [Jobs -> {s \in Settings : s.enabled /\ ~Refused(s)} \cup {None}]

RunTypes == \A j \in Jobs : run[j].stage = "none" => run[j] = NoRun

OpTypes ==
  /\ op.job \in Jobs \cup {NoJob}
  /\ op.stage \in {"idle", "refresh", "schedule", "blocked", "unschedule"}
  /\ op.snap \in Settings \cup {None}

RecordTypes ==
  /\ failures \in [Jobs -> Nat]
  /\ records \in [Jobs -> Seq(Statuses)]

LedgerTypes == ClockTypes /\ StoreTypes /\ RunTypes /\ OpTypes /\ RecordTypes

LEMMA Bounds == MaxTime \in Nat /\ MaxFires \in Nat
BY CronAssumption

LEMMA InitLedgerTypes == Init => LedgerTypes
<1> SUFFICES ASSUME Init PROVE LedgerTypes
  OBVIOUS
<1>1. <<>> \in Seq(Statuses)
  BY EmptySeq
<1> QED BY <1>1, Bounds DEF Init, LedgerTypes, ClockTypes, StoreTypes, RunTypes, OpTypes,
           RecordTypes, NoRun, NoOp

LEMMA NextClockTypes == ClockTypes /\ [Next]_vars => ClockTypes'
<1> SUFFICES ASSUME ClockTypes, [Next]_vars PROVE ClockTypes'
  OBVIOUS
<1>0. ASSUME UNCHANGED <<process, now, fires>> PROVE ClockTypes'
  BY <1>0 DEF ClockTypes
<1>1. CASE Start \/ StartFails \/ Crash
  BY <1>1 DEF Start, StartFails, Crash, ClockTypes, counters
<1>2. CASE Tick
  BY <1>2, Bounds DEF Tick, ClockTypes, counters
<1>3. ASSUME NEW j \in Jobs, Fire(j) PROVE ClockTypes'
  BY <1>3, Bounds DEF Fire, ClockTypes
<1>4. ASSUME NEW j \in Jobs, Misfire(j) \/ Run(j) \/ RunAborted(j) \/ Delete(j)
      PROVE  ClockTypes'
  BY <1>4, <1>0 DEF Misfire, Run, Begin, ChatOk, ChatFail, Sent, SendFail, RunAborted,
                    Delete, counters
<1>5. ASSUME NEW j \in Jobs, NEW s \in Settings, Create(j, s) \/ Update(j, s)
      PROVE  ClockTypes'
  BY <1>5, <1>0 DEF Create, Update, counters
<1>6. CASE Tool \/ Idle \/ UNCHANGED vars
  BY <1>6, <1>0 DEF Tool, Refresh, Reschedule, Unschedule, Idle, vars, counters
<1> QED BY <1>1, <1>2, <1>3, <1>4, <1>5, <1>6 DEF Next

LEMMA NextStoreTypes == Shape /\ StoreTypes /\ [Next]_vars => StoreTypes'
<1> SUFFICES ASSUME Shape, StoreTypes, [Next]_vars PROVE StoreTypes'
  OBVIOUS
<1>0. ASSUME schedule' = schedule PROVE StoreTypes'
  BY <1>0 DEF StoreTypes
<1>1. CASE Start
  <2>1. \A j \in Loaded : rows[j] \in {s \in Settings : s.enabled /\ ~Refused(s)}
    BY <1>1 DEF Start, Loaded, HasRow, Shape
  <2> QED BY <1>1, <2>1 DEF Start, StoreTypes
<1>2. CASE Crash
  BY <1>2 DEF Crash, StoreTypes
<1>3. ASSUME NEW j \in Jobs, Fire(j) \/ Misfire(j) PROVE StoreTypes'
  BY <1>3 DEF Fire, Misfire, StoreTypes
<1>4. CASE Reschedule \/ Unschedule
  <2>1. op.stage = "schedule" => op.snap \in Settings
    BY DEF Shape
  <2> QED BY <1>4, <2>1 DEF Reschedule, Unschedule, StoreTypes
<1>5. CASE StartFails \/ Tick \/ Idle \/ UNCHANGED vars \/ Refresh
  BY <1>5, <1>0 DEF StartFails, Tick, Idle, vars, Refresh
<1>6. ASSUME NEW j \in Jobs, Run(j) \/ RunAborted(j) \/ Delete(j) PROVE StoreTypes'
  BY <1>6, <1>0 DEF Run, Begin, ChatOk, ChatFail, Sent, SendFail, RunAborted, Delete
<1>7. ASSUME NEW j \in Jobs, NEW s \in Settings, Create(j, s) \/ Update(j, s)
      PROVE  StoreTypes'
  BY <1>7, <1>0 DEF Create, Update
<1> QED BY <1>1, <1>2, <1>3, <1>4, <1>5, <1>6, <1>7 DEF Next, Tool

LEMMA NextRunTypes == Shape /\ RunTypes /\ [Next]_vars => RunTypes'
<1> SUFFICES ASSUME Shape, RunTypes, [Next]_vars PROVE RunTypes'
  OBVIOUS
<1>0. ASSUME run' = run PROVE RunTypes'
  BY <1>0 DEF RunTypes
<1>1. ASSUME NEW j \in Jobs, EndRun(j) PROVE RunTypes'
  BY <1>1 DEF EndRun, Shape, RunTypes
<1>2. ASSUME NEW j \in Jobs, NEW to \in {"chat", "send"}, run[j].stage # "none",
             run' = [run EXCEPT ![j].stage = to]
      PROVE  RunTypes'
  <2>1. to \in Stages /\ to # "none"
    BY DEF Stages
  <2> QED BY <1>2, <2>1, MoveRunShape DEF RunTypes
<1>3. ASSUME NEW j \in Jobs, Fire(j) PROVE RunTypes'
  BY <1>3 DEF Fire, Shape, RunTypes
<1>4. ASSUME NEW j \in Jobs, Run(j) \/ RunAborted(j) PROVE RunTypes'
  BY <1>4, <1>0, <1>1, <1>2 DEF Run, Begin, ChatOk, ChatFail, Sent, SendFail, RunAborted
<1>5. CASE Crash
  BY <1>5 DEF Crash, RunTypes
<1>6. CASE Start \/ StartFails \/ Tick \/ Idle \/ UNCHANGED vars \/ Tool
  BY <1>6, <1>0 DEF Start, StartFails, Tick, Idle, vars, Tool, Refresh, Reschedule,
                    Unschedule
<1>7. ASSUME NEW j \in Jobs, \/ Misfire(j) \/ Delete(j)
                              \/ \E s \in Settings : Create(j, s) \/ Update(j, s)
      PROVE  RunTypes'
  BY <1>7, <1>0 DEF Misfire, Delete, Create, Update
<1> QED BY <1>3, <1>4, <1>5, <1>6, <1>7 DEF Next

LEMMA NextOpTypes == Shape /\ OpTypes /\ [Next]_vars => OpTypes'
<1> SUFFICES ASSUME Shape, OpTypes, [Next]_vars PROVE OpTypes'
  OBVIOUS
<1>0. ASSUME op' = op PROVE OpTypes'
  BY <1>0 DEF OpTypes
<1>1. ASSUME op' = NoOp PROVE OpTypes'
  BY <1>1 DEF OpTypes, NoOp
<1>2. ASSUME NEW j \in Jobs, NEW snap \in Settings \cup {None},
             NEW stage \in {"refresh", "schedule", "blocked", "unschedule"},
             op'.job = j, op'.stage = stage, op'.snap = snap
      PROVE  OpTypes'
  BY <1>2 DEF OpTypes
<1>3. ASSUME NEW j \in Jobs, NEW rowDeleted, Unblock(j, rowDeleted) PROVE OpTypes'
  <2>1. /\ Op(j, "unschedule", None).job = j /\ Op(j, "unschedule", None).snap = None
        /\ Op(j, "unschedule", None).stage = "unschedule"
    BY DEF Op
  <2> QED BY <1>3, <2>1, <1>0, <1>1, <1>2 DEF Unblock
<1>4. ASSUME NEW j \in Jobs, Run(j) \/ RunAborted(j) \/ Fire(j) \/ Misfire(j)
      PROVE  OpTypes'
  <2>1. CASE RunAborted(j)
    BY <2>1, <1>2 DEF RunAborted, Op
  <2> QED BY <2>1, <1>4, <1>0, <1>3 DEF Run, Begin, ChatOk, ChatFail, Sent, SendFail,
                                        Fire, Misfire
<1>5. ASSUME NEW j \in Jobs, NEW s \in Settings, Create(j, s) \/ Update(j, s)
      PROVE  OpTypes'
  BY <1>5, <1>2 DEF Create, Update, Op
<1>6. ASSUME NEW j \in Jobs, Delete(j) PROVE OpTypes'
  <2>1. op'.job = j /\ op'.snap = None /\ op'.stage \in {"blocked", "unschedule"}
    BY <1>6 DEF Delete, Op
  <2> QED BY <2>1, <1>2
<1>7. CASE Refresh
  <2>1. CASE HasRow(op.job)
    <3>1. op.job \in Jobs /\ rows[op.job] \in Settings
      BY <1>7, <2>1 DEF Refresh, HasRow, Shape
    <3> QED BY <1>7, <2>1, <3>1, <1>2 DEF Refresh, Op
  <2> QED BY <1>7, <2>1, <1>1 DEF Refresh
<1>8. CASE \/ Start \/ StartFails \/ Tick \/ Idle \/ UNCHANGED vars \/ Crash
           \/ Reschedule \/ Unschedule
  BY <1>8, <1>0, <1>1 DEF Start, StartFails, Tick, Idle, vars, Crash, Reschedule, Unschedule
<1> QED BY <1>4, <1>5, <1>6, <1>7, <1>8 DEF Next, Tool

InFlight(j) == IF run[j].stage = "none" THEN 0 ELSE 1

ToSend(j) == IF run[j].stage = "send" THEN 1 ELSE 0

\* One job's books.  Each failure used up a fire, and so does a run that may
\* still fail; a key nobody has used is blank, so that a job starts with
\* clean books; an output on its way is on record as the last run, and
\* counts as sent.
Ledger(j) ==
  /\ failures[j] + InFlight(j) <= fires
  /\ rows[j] = Unused => run[j].stage \notin {"chat", "send"} /\ delivered[j] = <<>>
  /\ HasRow(j) => Len(delivered[j]) + ToSend(j) <= Cardinality(Good(records[j]))
  /\ HasRow(j) /\ run[j].stage = "send" =>
       records[j] # <<>> /\ records[j][Len(records[j])] = "success"
  /\ failures[j] = 0 <=> EndsWell(records[j])

\* What Ledger and RecordTypes say of one job after a step, from what the
\* step does to its books.
Books(j) == Ledger(j) /\ failures[j] \in Nat /\ records[j] \in Seq(Statuses)

LEMMA LedgerNumbers ==
  ASSUME Shape, ClockTypes, NEW j \in Jobs, records[j] \in Seq(Statuses)
  PROVE  /\ fires \in Nat /\ Len(delivered[j]) \in Nat
         /\ Cardinality(Good(records[j])) \in Nat
         /\ InFlight(j) \in {0, 1} /\ ToSend(j) \in {0, 1}
<1>1. delivered[j] \in Seq(Settings)
  BY DEF Shape
<1> QED BY <1>1, GoodIsFinite, LenProperties, Bounds
        DEF ClockTypes, InFlight, ToSend

\* A step that leaves a job's books alone may fire, start or end its run, as
\* long as it opens no session and sends nothing, and may delete its row.
LEMMA BooksStay ==
  ASSUME Shape, ClockTypes, NEW j \in Jobs, Books(j),
         failures'[j] = failures[j], records'[j] = records[j],
         delivered'[j] = delivered[j], fires' \in Nat, fires <= fires',
         run'[j].stage \in {run[j].stage, "none"},
         HasRow(j)' => HasRow(j), rows'[j] = Unused => rows[j] = Unused
  PROVE  Books(j)'
<1> DEFINE f == failures[j]   l == Len(delivered[j])   g == Cardinality(Good(records[j]))
<1>1. /\ f \in Nat /\ fires \in Nat /\ l \in Nat /\ g \in Nat
      /\ InFlight(j) \in {0, 1} /\ ToSend(j) \in {0, 1}
  BY LedgerNumbers DEF Books
<1>2. /\ InFlight(j)' \in {0, InFlight(j)} /\ ToSend(j)' \in {0, ToSend(j)}
  BY DEF InFlight, ToSend
<1>3. failures'[j] + InFlight(j)' <= fires'
  <2>1. f + InFlight(j) <= fires
    BY DEF Books, Ledger
  <2> HIDE DEF f
  <2>2. f + InFlight(j)' <= fires'
    BY <1>1, <1>2, <2>1
  <2> QED BY <2>2 DEF f
<1>4. HasRow(j)' => Len(delivered'[j]) + ToSend(j)' <= Cardinality(Good(records'[j]))
  <2>1. HasRow(j)' => l + ToSend(j) <= g
    BY DEF Books, Ledger
  <2> HIDE DEF l, g
  <2>2. HasRow(j)' => l + ToSend(j)' <= g
    BY <1>1, <1>2, <2>1
  <2> QED BY <2>2 DEF l, g
<1> QED BY <1>3, <1>4 DEF Books, Ledger

LEMMA InitBooks == Init => RecordTypes /\ \A j \in Jobs : Ledger(j)
<1> SUFFICES ASSUME Init PROVE RecordTypes /\ \A j \in Jobs : Ledger(j)
  OBVIOUS
<1>1. RecordTypes
  BY EmptySeq DEF Init, RecordTypes
<1> QED BY <1>1 DEF Init, Ledger, InFlight, NoRun, HasRow, EndsWell

\* A step that only concerns one job's books.
LEMMA OneLedger ==
  ASSUME Shape, ClockTypes, RecordTypes, \A k \in Jobs : Ledger(k), NEW j \in Jobs,
         fires' \in Nat, fires <= fires',
         failures' \in [Jobs -> Nat], records' \in [Jobs -> Seq(Statuses)],
         \A k \in Jobs \ {j} :
           /\ failures'[k] = failures[k] /\ records'[k] = records[k]
           /\ delivered'[k] = delivered[k]
           /\ run'[k] = run[k] /\ rows'[k] = rows[k],
         Ledger(j)'
  PROVE  RecordTypes' /\ \A k \in Jobs : Ledger(k)'
<1>1. RecordTypes'
  BY DEF RecordTypes
<1>2. ASSUME NEW k \in Jobs \ {j} PROVE Ledger(k)'
  <2>1. Books(k)
    BY DEF Books, RecordTypes
  <2> QED BY <2>1, BooksStay DEF Books, HasRow
<1> QED BY <1>1, <1>2

\* A step that leaves all the books alone.
LEMMA LedgersStay ==
  ASSUME Shape, ClockTypes, RecordTypes, \A k \in Jobs : Ledger(k),
         UNCHANGED <<failures, records, delivered>>, fires' = fires,
         \A k \in Jobs : /\ run'[k].stage \in {run[k].stage, "none"}
                         /\ HasRow(k)' => HasRow(k)
                         /\ rows'[k] = Unused => rows[k] = Unused
  PROVE  RecordTypes' /\ \A k \in Jobs : Ledger(k)'
<1>1. RecordTypes'
  BY DEF RecordTypes
<1>2. ASSUME NEW k \in Jobs PROVE Ledger(k)'
  <2>1. Books(k)
    BY DEF Books, RecordTypes
  <2>2. fires' \in Nat /\ fires <= fires'
    BY Bounds DEF ClockTypes
  <2> QED BY <2>1, <2>2, BooksStay DEF Books
<1> QED BY <1>1, <1>2

LEMMA NextBooks ==
  ASSUME Shape, NoOrphanRun, ClockTypes, RecordTypes, \A k \in Jobs : Ledger(k),
         [Next]_vars
  PROVE  RecordTypes' /\ \A k \in Jobs : Ledger(k)'
<1> DEFINE Goal == RecordTypes' /\ \A k \in Jobs : Ledger(k)'
<1> USE SettingsAreRows
<1>0. fires \in Nat /\ \A j \in Jobs : /\ failures[j] \in Nat
                                       /\ records[j] \in Seq(Statuses)
                                       /\ Len(delivered[j]) \in Nat
                                       /\ Cardinality(Good(records[j])) \in Nat
  BY LedgerNumbers, Bounds DEF ClockTypes, RecordTypes
<1>1. CASE Start \/ StartFails \/ Tick \/ Idle \/ UNCHANGED vars \/ Tool
  BY <1>1, LedgersStay DEF Start, StartFails, Tick, Idle, vars, Tool, Refresh, Reschedule,
     Unschedule, database, counters, HasRow
<1>2. CASE Crash
  BY <1>2, LedgersStay DEF Crash, database, NoRun, HasRow
<1>3. ASSUME NEW j \in Jobs, Misfire(j) PROVE Goal
  BY <1>3, LedgersStay DEF Misfire, database, counters, HasRow
<1>4. ASSUME NEW j \in Jobs, Fire(j) PROVE Goal
  <2>1. /\ UNCHANGED <<rows, failures, records, delivered>>
        /\ fires' = fires + 1
    BY <1>4 DEF Fire, database
  <2>2. /\ \A k \in Jobs \ {j} : run'[k] = run[k]
        /\ \/ run'[j] = run[j]
           \/ run[j] = NoRun /\ run'[j].stage = "submitted"
    BY <1>4 DEF Fire, Shape
  <2>3. failures'[j] + InFlight(j)' <= fires'
    <3>1. failures[j] + InFlight(j) <= fires
      BY DEF Ledger
    <3>2. InFlight(j) \in {0, 1} /\ InFlight(j)' \in {InFlight(j), InFlight(j) + 1}
      BY <2>2 DEF InFlight, NoRun
    <3>3. \A f, n \in Nat : \A a, b \in {0, 1, 2} :
            f + a <= n /\ b \in {a, a + 1} => f + b <= n + 1
      OBVIOUS
    <3> QED BY <2>1, <3>1, <3>2, <3>3, <1>0
  <2>4. Ledger(j)'
    <3>1. /\ ToSend(j)' = ToSend(j)
          /\ run'[j].stage \in {"chat", "send"} => run'[j] = run[j]
      BY <2>2 DEF ToSend, NoRun
    <3>2. Len(delivered'[j]) = Len(delivered[j])
      BY <2>1
    <3>3. Ledger(j) /\ HasRow(j)' = HasRow(j)
      BY <2>1 DEF HasRow
    <3> HIDE <2>2
    <3> QED BY <2>1, <2>3, <3>1, <3>2, <3>3 DEF Ledger
  <2>5. fires' \in Nat /\ fires <= fires'
    BY <2>1, <1>0
  <2> QED BY <2>1, <2>2, <2>4, <2>5, OneLedger DEF RecordTypes
<1>5. ASSUME NEW j \in Jobs, Begin(j) PROVE Goal
  <2>1. /\ UNCHANGED <<rows, failures, records, delivered, fires>>
        /\ run[j].stage = "submitted"
    BY <1>5 DEF Begin, database, counters
  <2>2. CASE ~HasRow(j)
    <3>1. \A k \in Jobs : run'[k].stage \in {run[k].stage, "none"}
      BY <1>5, <2>2, EndRunShape DEF Begin
    <3> QED BY <2>1, <3>1, LedgersStay DEF HasRow
  <2>3. CASE HasRow(j)
    <3>1. run'[j].stage = "chat" /\ \A k \in Jobs \ {j} : run'[k] = run[k]
      BY <1>5, <2>1, <2>3, MoveRunShape DEF Begin, Stages
    <3>2. Ledger(j)'
      BY <2>1, <2>3, <3>1 DEF Ledger, InFlight, ToSend, HasRow
    <3>3. fires' \in Nat /\ fires <= fires'
      BY <2>1, <1>0
    <3> QED BY <2>1, <3>1, <3>2, <3>3, OneLedger DEF RecordTypes
  <2> QED BY <2>2, <2>3
<1>6. ASSUME NEW j \in Jobs, NEW output \in BOOLEAN, ChatOk(j, output) PROVE Goal
  <2> DEFINE gone == Deletes(run[j].snap)
  <2>1. /\ run[j].stage = "chat" /\ HasRow(j)
        /\ UNCHANGED <<delivered, fires>>
        /\ failures' = [failures EXCEPT ![j] = 0]
    BY <1>6 DEF ChatOk, counters, NoOrphanRun
  <2>2. run'[j].stage \in {"send", "none"} /\ \A k \in Jobs \ {j} : run'[k] = run[k]
    BY <1>6, EndRunShape, MoveRunShape DEF ChatOk, Stages
  <2>3. /\ InFlight(j) = 1 /\ InFlight(j)' \in {0, 1} /\ ToSend(j) = 0
        /\ ToSend(j)' \in {0, 1} /\ failures'[j] = 0
        /\ failures[j] + InFlight(j) <= fires
    BY <2>1, <2>2 DEF InFlight, ToSend, Ledger, RecordTypes
  <2>4. failures'[j] + InFlight(j)' <= fires'
    <3>1. \A f, n \in Nat : \A b \in {0, 1} : f + 1 <= n => 0 + b <= n
      OBVIOUS
    <3> QED BY <2>1, <2>3, <3>1, <1>0
  <2>5. CASE gone
    <3>1. rows' = [rows EXCEPT ![j] = Gone] /\ records' = [records EXCEPT ![j] = <<>>]
      BY <1>6, <2>5 DEF ChatOk
    <3>2. records' \in [Jobs -> Seq(Statuses)] /\ records'[j] = <<>>
      BY <3>1, EmptySeq DEF RecordTypes
    <3>3. ~HasRow(j)' /\ rows'[j] # Unused
      BY <3>1 DEF Shape, HasRow
    <3>4. Ledger(j)'
      BY <2>3, <2>4, <3>2, <3>3 DEF Ledger, EndsWell
    <3>5. fires' \in Nat /\ fires <= fires' /\ failures' \in [Jobs -> Nat]
      BY <2>1, <1>0 DEF RecordTypes
    <3> QED BY <2>1, <2>2, <3>1, <3>2, <3>4, <3>5, OneLedger DEF RecordTypes, Shape
  <2>6. CASE ~gone
    <3>1. /\ rows' = rows
          /\ records' = [records EXCEPT ![j] = Append(records[j], "success")]
      BY <1>6, <2>6 DEF ChatOk
    <3>2. /\ records' \in [Jobs -> Seq(Statuses)]
          /\ records'[j] = Append(records[j], "success")
      BY <3>1, <1>0, AddSuccess DEF RecordTypes
    <3>3. /\ EndsWell(records'[j])
          /\ Cardinality(Good(records'[j])) = Cardinality(Good(records[j])) + 1
          /\ records'[j] # <<>>
      BY <3>2, <1>0, AddSuccess, AppendProperties DEF Statuses
    <3>4. Len(delivered'[j]) + ToSend(j)' <= Cardinality(Good(records'[j]))
      <4>1. Len(delivered[j]) + 0 <= Cardinality(Good(records[j]))
        BY <2>1, <2>3 DEF Ledger
      <4>2. \A l, g \in Nat : \A b \in {0, 1} : l + 0 <= g => l + b <= g + 1
        OBVIOUS
      <4> QED BY <4>1, <4>2, <2>1, <2>3, <3>3, <1>0
    <3>5. Ledger(j)'
      <4>1. records'[j][Len(records'[j])] = "success"
        BY <3>3 DEF EndsWell
      <4>2. rows'[j] # Unused
        BY <2>1, <3>1 DEF HasRow
      <4> QED BY <2>3, <2>4, <3>3, <3>4, <4>1, <4>2 DEF Ledger
    <3>6. fires' \in Nat /\ fires <= fires' /\ failures' \in [Jobs -> Nat]
      BY <2>1, <1>0 DEF RecordTypes
    <3> QED BY <2>1, <2>2, <3>1, <3>2, <3>5, <3>6, OneLedger DEF RecordTypes
  <2> QED BY <2>5, <2>6
<1>7. ASSUME NEW j \in Jobs, RunAborted(j) PROVE Goal
  <2>1. /\ run[j].stage = "chat" /\ UNCHANGED <<delivered, fires>>
        /\ failures' = [failures EXCEPT ![j] = 0]
        /\ rows' = [rows EXCEPT ![j] = Gone]
        /\ records' = [records EXCEPT ![j] = <<>>]
    BY <1>7 DEF RunAborted, counters
  <2>2. run'[j].stage = "none" /\ \A k \in Jobs \ {j} : run'[k] = run[k]
    BY <1>7, EndRunShape DEF RunAborted
  <2>3. /\ failures' \in [Jobs -> Nat] /\ failures'[j] = 0
        /\ records' \in [Jobs -> Seq(Statuses)] /\ records'[j] = <<>>
        /\ ~HasRow(j)' /\ rows'[j] # Unused
    BY <2>1, EmptySeq DEF RecordTypes, Shape, HasRow
  <2>4. fires' \in Nat /\ fires <= fires'
    BY <2>1, <1>0
  <2>5. Ledger(j)'
    BY <2>2, <2>3, <2>4 DEF Ledger, InFlight, EndsWell
  <2> QED BY <2>1, <2>2, <2>3, <2>4, <2>5, OneLedger DEF RecordTypes, Shape
<1>8. ASSUME NEW j \in Jobs, ChatFail(j) PROVE Goal
  <2>1. /\ run[j].stage = "chat" /\ HasRow(j)
        /\ UNCHANGED <<rows, delivered, fires>>
        /\ failures' = [failures EXCEPT ![j] = failures[j] + 1]
        /\ records' = [records EXCEPT ![j] = Append(records[j], "failure")]
    BY <1>8 DEF ChatFail, counters, NoOrphanRun
  <2>2. run'[j].stage = "none" /\ \A k \in Jobs \ {j} : run'[k] = run[k]
    BY <1>8, EndRunShape DEF ChatFail
  <2>3. failures' \in [Jobs -> Nat] /\ failures'[j] = failures[j] + 1
    BY <2>1, <1>0 DEF RecordTypes
  <2>4. /\ records' \in [Jobs -> Seq(Statuses)]
        /\ records'[j] = Append(records[j], "failure")
    BY <2>1, <1>0, AddFailure DEF RecordTypes
  <2>5. ~EndsWell(records'[j]) /\ Good(records'[j]) = Good(records[j])
    BY <2>4, <1>0, AddFailure
  <2>6. failures'[j] # 0 /\ failures'[j] + InFlight(j)' <= fires'
    <3>1. failures[j] + 1 <= fires /\ InFlight(j)' = 0
      BY <2>1, <2>2 DEF Ledger, InFlight
    <3>2. \A f, n \in Nat : f + 1 <= n => f + 1 # 0 /\ (f + 1) + 0 <= n
      OBVIOUS
    <3> QED BY <2>1, <2>3, <3>1, <3>2, <1>0
  <2>7. Len(delivered'[j]) + ToSend(j)' <= Cardinality(Good(records'[j]))
    <3>1. Len(delivered[j]) + 0 <= Cardinality(Good(records[j])) /\ ToSend(j)' = 0
      BY <2>1, <2>2 DEF Ledger, ToSend
    <3> QED BY <2>1, <2>5, <3>1
  <2>8. Ledger(j)'
    BY <2>1, <2>2, <2>5, <2>6, <2>7 DEF Ledger, HasRow
  <2>9. fires' \in Nat /\ fires <= fires'
    BY <2>1, <1>0
  <2> QED BY <2>1, <2>2, <2>3, <2>4, <2>8, <2>9, OneLedger DEF RecordTypes
<1>9. ASSUME NEW j \in Jobs, Sent(j) PROVE Goal
  <2>1. /\ run[j].stage = "send"
        /\ UNCHANGED <<rows, failures, records, fires>>
        /\ delivered' = [delivered EXCEPT ![j] = Append(delivered[j], run[j].snap)]
    BY <1>9 DEF Sent, counters, database
  <2>2. run'[j].stage = "none" /\ \A k \in Jobs \ {j} : run'[k] = run[k]
    BY <1>9, EndRunShape DEF Sent
  <2>3. Len(delivered'[j]) = Len(delivered[j]) + 1
    <3>1. delivered[j] \in Seq(Settings) /\ run[j].snap \in Settings
      BY <2>1 DEF Shape
    <3>2. delivered'[j] = Append(delivered[j], run[j].snap)
      BY <2>1 DEF Shape
    <3> QED BY <3>1, <3>2, AppendProperties
  <2>4. HasRow(j) => Len(delivered'[j]) + ToSend(j)' <= Cardinality(Good(records[j]))
    <3>1. HasRow(j) => Len(delivered[j]) + 1 <= Cardinality(Good(records[j]))
      BY <2>1 DEF Ledger, ToSend
    <3>2. ToSend(j)' = 0
      BY <2>2 DEF ToSend
    <3>3. \A l, g \in Nat : l + 1 <= g => (l + 1) + 0 <= g
      OBVIOUS
    <3> QED BY <2>3, <3>1, <3>2, <3>3, <1>0
  <2>5. failures'[j] + InFlight(j)' <= fires'
    <3>1. failures[j] + 1 <= fires /\ InFlight(j)' = 0
      BY <2>1, <2>2 DEF Ledger, InFlight
    <3> QED BY <2>1, <3>1, <1>0
  <2>6. Ledger(j)'
    <3>1. rows[j] # Unused
      BY <2>1 DEF Ledger
    <3> QED BY <2>1, <2>2, <2>4, <2>5, <3>1 DEF Ledger, HasRow
  <2>7. fires' \in Nat /\ fires <= fires'
    BY <2>1, <1>0
  <2>8. \A k \in Jobs \ {j} : delivered'[k] = delivered[k]
    BY <2>1 DEF Shape
  <2> QED BY <2>1, <2>2, <2>6, <2>7, <2>8, OneLedger DEF RecordTypes
<1>10. ASSUME NEW j \in Jobs, SendFail(j) PROVE Goal
  <2>1. run[j].stage = "send" /\ UNCHANGED <<rows, delivered, fires>>
    BY <1>10 DEF SendFail, counters
  <2>2. run'[j].stage = "none" /\ \A k \in Jobs \ {j} : run'[k] = run[k]
    BY <1>10, EndRunShape DEF SendFail
  <2>3. CASE ~HasRow(j)
    <3>1. UNCHANGED <<failures, records>>
      BY <1>10, <2>3 DEF SendFail
    <3> QED BY <2>1, <2>2, <3>1, LedgersStay DEF HasRow
  <2>4. CASE HasRow(j)
    <3> DEFINE last == Len(records[j])
    <3>1. /\ failures' = [failures EXCEPT ![j] = failures[j] + 1]
          /\ records' = [records EXCEPT ![j] = [records[j] EXCEPT ![last] = "failure"]]
      BY <1>10, <2>4 DEF SendFail
    <3>2. /\ records[j] # <<>> /\ records[j][last] = "success"
          /\ failures[j] + 1 <= fires
          /\ Len(delivered[j]) + 1 <= Cardinality(Good(records[j]))
      BY <2>1, <2>4 DEF Ledger, ToSend, InFlight
    <3>3. /\ [records[j] EXCEPT ![last] = "failure"] \in Seq(Statuses)
          /\ ~EndsWell([records[j] EXCEPT ![last] = "failure"])
          /\ Cardinality(Good([records[j] EXCEPT ![last] = "failure"])) + 1
               = Cardinality(Good(records[j]))
      BY <3>2, <1>0, TakeBack
    <3>4. /\ records' \in [Jobs -> Seq(Statuses)]
          /\ records'[j] = [records[j] EXCEPT ![last] = "failure"]
          /\ failures' \in [Jobs -> Nat] /\ failures'[j] = failures[j] + 1
          /\ \A k \in Jobs \ {j} : records'[k] = records[k]
                                  /\ failures'[k] = failures[k]
      BY <3>1, <3>3, <1>0 DEF RecordTypes
    <3> HIDE DEF last
    <3>5. failures'[j] # 0 /\ failures'[j] + InFlight(j)' <= fires'
      <4>1. InFlight(j)' = 0
        BY <2>2 DEF InFlight
      <4>2. \A f, n \in Nat : f + 1 <= n => f + 1 # 0 /\ (f + 1) + 0 <= n
        OBVIOUS
      <4> QED BY <2>1, <3>2, <3>4, <4>1, <4>2, <1>0
    <3>6. Len(delivered'[j]) + ToSend(j)' <= Cardinality(Good(records'[j]))
      <4>1. ToSend(j)' = 0 /\ Len(delivered'[j]) = Len(delivered[j])
        BY <2>1, <2>2 DEF ToSend
      <4>2. Cardinality(Good(records'[j])) \in Nat
        BY <3>4, <3>3, GoodIsFinite
      <4>3. Cardinality(Good(records'[j])) + 1 = Cardinality(Good(records[j]))
        BY <3>3, <3>4
      <4>4. \A l, g, h \in Nat : l + 1 <= g /\ h + 1 = g => l + 0 <= h
        OBVIOUS
      <4> QED BY <3>2, <4>1, <4>2, <4>3, <4>4, <1>0
    <3>7. Ledger(j)'
      <4>1. ~EndsWell(records'[j])
        BY <3>3, <3>4
      <4>2. rows'[j] # Unused
        BY <2>1, <2>4 DEF HasRow
      <4> QED BY <2>2, <3>5, <3>6, <4>1, <4>2 DEF Ledger
    <3>8. fires' \in Nat /\ fires <= fires'
      BY <2>1, <1>0
    <3> QED BY <2>1, <2>2, <3>4, <3>7, <3>8, OneLedger
  <2> QED BY <2>3, <2>4
<1>11. ASSUME NEW j \in Jobs, NEW s \in Settings, Create(j, s) PROVE Goal
  <2>1. /\ UNCHANGED <<failures, records, delivered, run, fires>>
        /\ rows[j] = Unused /\ rows' = [rows EXCEPT ![j] = s]
    BY <1>11 DEF Create, counters
  <2>2. rows'[j] # Unused
    BY <2>1 DEF Shape
  <2>3. Len(delivered'[j]) + ToSend(j)' <= Cardinality(Good(records'[j]))
    <3>1. delivered'[j] = <<>> /\ ToSend(j)' = 0
      BY <2>1 DEF Ledger, ToSend
    <3>2. Len(delivered'[j]) = 0
      BY <3>1, EmptySeq
    <3>3. \A g \in Nat : 0 + 0 <= g
      OBVIOUS
    <3> QED BY <2>1, <3>1, <3>2, <3>3, <1>0
  <2>4. Ledger(j)'
    <3>1. run'[j].stage \notin {"chat", "send"} /\ InFlight(j)' = InFlight(j)
      BY <2>1 DEF Ledger, InFlight
    <3> QED BY <2>1, <2>2, <2>3, <3>1 DEF Ledger
  <2>5. fires' \in Nat /\ fires <= fires'
    BY <2>1, <1>0
  <2> QED BY <2>1, <2>4, <2>5, OneLedger DEF RecordTypes, Shape
<1>12. ASSUME NEW j \in Jobs, NEW s \in Settings, Update(j, s) PROVE Goal
  <2>1. /\ UNCHANGED <<failures, records, delivered, run, fires>>
        /\ HasRow(j) /\ rows' = [rows EXCEPT ![j] = s]
    BY <1>12 DEF Update
  <2>2. \A k \in Jobs : /\ HasRow(k)' => HasRow(k)
                        /\ rows'[k] = Unused => rows[k] = Unused
    BY <2>1 DEF Shape, HasRow
  <2> QED BY <2>1, <2>2, LedgersStay
<1>13. ASSUME NEW j \in Jobs, Delete(j) PROVE Goal
  <2>1. UNCHANGED <<delivered, run, fires>>
    BY <1>13 DEF Delete, counters
  <2>2. CASE run[j].stage = "chat"
    BY <1>13, <2>1, <2>2, LedgersStay DEF Delete, database, HasRow
  <2>3. CASE run[j].stage # "chat"
    <3>1. /\ rows' = [rows EXCEPT ![j] = Gone]
          /\ records' = [records EXCEPT ![j] = <<>>]
          /\ failures' = [failures EXCEPT ![j] = 0]
      BY <1>13, <2>3 DEF Delete
    <3>2. /\ failures' \in [Jobs -> Nat] /\ failures'[j] = 0
          /\ records' \in [Jobs -> Seq(Statuses)] /\ records'[j] = <<>>
          /\ ~HasRow(j)' /\ rows'[j] # Unused
      BY <3>1, EmptySeq DEF RecordTypes, Shape, HasRow
    <3>3. failures'[j] + InFlight(j)' <= fires'
      <4>1. failures[j] + InFlight(j) <= fires /\ InFlight(j) \in {0, 1}
        BY DEF Ledger, InFlight
      <4>2. InFlight(j)' = InFlight(j)
        BY <2>1 DEF InFlight
      <4>3. \A f, n \in Nat : \A a \in {0, 1} : f + a <= n => 0 + a <= n
        OBVIOUS
      <4> QED BY <2>1, <3>2, <4>1, <4>2, <4>3, <1>0
    <3>4. Ledger(j)'
      BY <3>2, <3>3 DEF Ledger, EndsWell
    <3>5. fires' \in Nat /\ fires <= fires'
      BY <2>1, <1>0
    <3> QED BY <2>1, <3>1, <3>2, <3>4, <3>5, OneLedger DEF RecordTypes, Shape
  <2> QED BY <2>2, <2>3
<1> HIDE DEF Goal
<1>14. Goal
  BY <1>1, <1>2, <1>3, <1>4, <1>5, <1>6, <1>7, <1>8, <1>9, <1>10, <1>11, <1>12, <1>13
     DEF Next, Run, Goal
<1> QED BY <1>14 DEF Goal

\* The tables tell the truth about each other and about the room: what was
\* delivered is on record as a success, and the counter of failures is zero
\* exactly after a success.
THEOREM TablesAgree == Spec => []RecordsAgree
<1> DEFINE Inv == Shape /\ NoOrphanRun /\ LedgerTypes /\ \A j \in Jobs : Ledger(j)
<1>1. Init => Inv
  BY InitShape, InitLedgerTypes, InitBooks DEF Init, NoOrphanRun, NoRun
<1>2. Inv /\ [Next]_vars => Inv'
  BY NextShape, NextNoOrphan, NextClockTypes, NextStoreTypes, NextRunTypes, NextOpTypes,
     NextBooks DEF LedgerTypes
<1>3. Inv => RecordsAgree
  <2> SUFFICES ASSUME Inv PROVE RecordsAgree
    OBVIOUS
  <2>1. \A j \in Jobs : failures[j] \in 0..MaxFires
    <3> SUFFICES ASSUME NEW j \in Jobs PROVE failures[j] \in 0..MaxFires
      OBVIOUS
    <3>1. failures[j] + InFlight(j) <= fires /\ InFlight(j) \in {0, 1}
      BY DEF Ledger, InFlight
    <3> QED BY <3>1, Bounds DEF LedgerTypes, RecordTypes, ClockTypes
  <2>2. run \in [Jobs -> [stage : {"submitted", "chat", "send"}, snap : Settings]
                           \cup {NoRun}]
    BY DEF LedgerTypes, RunTypes, Shape, Stages
  <2>3. failures \in [Jobs -> 0..MaxFires]
    BY <2>1 DEF LedgerTypes, RecordTypes
  <2>4. TypeOK
    BY <2>2, <2>3 DEF LedgerTypes, ClockTypes, StoreTypes, OpTypes, RecordTypes, Statuses,
       Shape, TypeOK
  <2>5. DeliveredIsRecorded
    <3> SUFFICES ASSUME NEW j \in Jobs, HasRow(j)
                 PROVE  Len(delivered[j]) <= Successes(j)
      BY DEF DeliveredIsRecorded
    <3>1. Successes(j) = Cardinality(Good(records[j]))
      BY DEF Successes, Good
    <3>2. /\ Len(delivered[j]) \in Nat /\ Cardinality(Good(records[j])) \in Nat
          /\ ToSend(j) \in {0, 1}
      BY LedgerNumbers DEF LedgerTypes, RecordTypes
    <3>3. Len(delivered[j]) + ToSend(j) <= Cardinality(Good(records[j]))
      BY DEF Ledger
    <3>4. \A l, g \in Nat : \A b \in {0, 1} : l + b <= g => l <= g
      OBVIOUS
    <3> QED BY <3>1, <3>2, <3>3, <3>4
  <2>6. FailuresCounted
    BY DEF Ledger, EndsWell, FailuresCounted
  <2> QED BY <2>4, <2>5, <2>6 DEF RecordsAgree
<1> QED BY <1>1, <1>2, <1>3, PTL DEF Spec
=============================================================================

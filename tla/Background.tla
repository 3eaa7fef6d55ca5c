----------------------------- MODULE Background -----------------------------
(***************************************************************************)
(* The producers of synthetic messages in one process: the RSS poller and  *)
(* the background tasks inject into the same queue, and a crash takes what *)
(* is in it, the tasks and the place of the poll, but not rss_seen_items.  *)
(***************************************************************************)
EXTENDS Rss, BackgroundTask

backgroundVars == <<shared, rssVars, taskVars>>

BackgroundInit == InboxInit /\ RssInit /\ TaskInit

Start == Boot /\ RssBoot /\ UNCHANGED taskVars

Crash == Die /\ RssDie /\ TaskDie

Turn == Hear /\ UNCHANGED <<rssVars, taskVars>>

\* The feed may stay as it is for ever, and nobody is told of a quiet feed.
BackgroundNext ==
  \/ Start \/ Crash \/ Turn
  \/ RssNext /\ UNCHANGED taskVars
  \/ TaskNext /\ UNCHANGED rssVars

\* Requests and transactions end or fail, timeouts expire, turns begin.
\* Processes of a command need not end, feeds need not publish.
BackgroundSpec ==
  /\ BackgroundInit /\ [][BackgroundNext]_backgroundVars
  /\ WF_backgroundVars(Turn)
  /\ WF_backgroundVars(Poller /\ UNCHANGED taskVars)
  /\ \A t \in Tasks : WF_backgroundVars(Run(t) /\ UNCHANGED rssVars)

-----------------------------------------------------------------------------
(* Properties *)

\* News is announced once and a backlog never, across failing fetches, failing
\* transactions, cleanups and restarts of the poller; what is marked and was
\* not announced has been lost by a failure or a crash.
RssAnnounces == RssTypeOK /\ AnnouncedOnce /\ BacklogIsSilent /\ MarkedIsAnnounced

\* A background command is reported once, when it is finished, and leaves no
\* process but those that ignore the signals of run_bash.
TasksReported == TaskTypeOK /\ ReportedOnce /\ OnlyStubbornSurvive

\* What the poller and the tasks have to tell gets told: neither a failing
\* poll nor a command that hangs keeps the other from the queue.
Heard == NewsGetsThrough /\ ResultsArrive
=============================================================================

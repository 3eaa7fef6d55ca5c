-------------------------- MODULE Producers_proofs --------------------------
(***************************************************************************)
(* Proofs about what puts messages into the queue: the RSS poller and the  *)
(* background tasks (Background), for every set of items and tasks, every  *)
(* size of the deque and every number of crashes, failures and rows that   *)
(* age, and the Matrix connector (MatrixSession), for every number of      *)
(* events, tokens, crashes, shutdowns and failures.                        *)
(***************************************************************************)
EXTENDS Background, MatrixSession, SequenceTheorems, FiniteSetTheorems, TLAPS

USE RssAssumption, InjectionAssumption

(***************************************************************************)
(* The RSS poller                                                          *)
(***************************************************************************)

\* An item that is marked, and announced next.
Pending(i) == IF loop = "reply" /\ item = i THEN 1 ELSE 0
Unmarked(i) == IF i \in seen THEN 0 ELSE 1
Backlog(i) == IF i \in seeded THEN 1 ELSE 0

\* A row that ages pays for one announcement more.  An item that is not
\* marked has one to come, and a seed has used the first one up.
Counted(i) == given[i] + Pending(i) + Unmarked(i) + Backlog(i) <= 1 + aged[i]

\* Marked, not seeded and not at hand, and nobody was told.
Unannounced == {i \in seen : given[i] = 0} \ (seeded \cup {item})

PollerTypes ==
  /\ RssTypeOK
  /\ given \in [Items -> Nat] /\ aged \in [Items -> Nat]
  /\ deaths \in Nat
  /\ process = "down" => loop = "off"

RssInv ==
  /\ PollerTypes
  /\ loop = "mark" => item \notin seen
  /\ \A i \in Items : Counted(i)
  /\ IsFiniteSet(Unannounced)
  /\ Cardinality(Unannounced) <= faults + deaths

LEMMA PollerCounts ==
  ASSUME PollerTypes
  PROVE  /\ faults \in Nat /\ deaths \in Nat
         /\ \A i \in Items : given[i] \in Nat /\ aged[i] \in Nat
<1>1. MaxFailures \in Nat
  OBVIOUS
<1>2. faults \in 0..MaxFailures
  BY DEF PollerTypes, RssTypeOK
<1>3. faults \in Nat
  BY <1>1, <1>2
<1> QED BY <1>3 DEF PollerTypes

LEMMA PollerCountsNext ==
  ASSUME PollerTypes'
  PROVE  /\ faults' \in Nat /\ deaths' \in Nat
         /\ \A i \in Items : given'[i] \in Nat /\ aged'[i] \in Nat
<1>1. MaxFailures \in Nat
  OBVIOUS
<1>2. faults' \in 0..MaxFailures
  BY DEF PollerTypes, RssTypeOK
<1>3. faults' \in Nat
  BY <1>1, <1>2
<1> QED BY <1>3 DEF PollerTypes

\* An invariant that does not read the queue is kept by whoever only uses it.
LEMMA PollerUndisturbed ==
  ASSUME RssInv, UNCHANGED <<rssVars, process, deaths>>
  PROVE  RssInv'
<1>1. Unannounced' = Unannounced
  BY DEF Unannounced, rssVars
<1>2. PollerTypes'
  BY DEF RssInv, PollerTypes, RssTypeOK, rssVars
<1> QED BY <1>1, <1>2 DEF RssInv, Counted, Pending, Unmarked, Backlog, rssVars

\* A step that loses nothing.
LEMMA NothingLost ==
  ASSUME RssInv, Unannounced' \subseteq Unannounced, PollerTypes',
         faults' = faults, deaths' = deaths
  PROVE  /\ IsFiniteSet(Unannounced')
         /\ Cardinality(Unannounced') <= faults' + deaths'
<1>1. /\ IsFiniteSet(Unannounced')
      /\ Cardinality(Unannounced') <= Cardinality(Unannounced)
  BY FS_Subset DEF RssInv
<1>2. Cardinality(Unannounced') \in Nat /\ Cardinality(Unannounced) \in Nat
  BY <1>1, FS_CardinalityType DEF RssInv
<1>3. /\ faults \in Nat /\ deaths \in Nat /\ faults' \in Nat /\ deaths' \in Nat
      /\ Cardinality(Unannounced) <= faults + deaths
  BY PollerCounts, PollerCountsNext DEF RssInv
<1>4. \A x, y, z \in Nat : x <= y /\ y <= z => x <= z
  OBVIOUS
<1> QED BY <1>1, <1>2, <1>3, <1>4

\* A step that gives the current item up.
LEMMA OneLost ==
  ASSUME RssInv, Unannounced' \subseteq Unannounced \cup {item}, PollerTypes',
         \/ faults' = faults + 1 /\ deaths' = deaths
         \/ faults' = faults /\ deaths' = deaths + 1
  PROVE  /\ IsFiniteSet(Unannounced')
         /\ Cardinality(Unannounced') <= faults' + deaths'
<1>1. /\ IsFiniteSet(Unannounced \cup {item})
      /\ \/ Cardinality(Unannounced \cup {item}) = Cardinality(Unannounced)
         \/ Cardinality(Unannounced \cup {item}) = Cardinality(Unannounced) + 1
  BY FS_AddElement DEF RssInv
<1>2. /\ IsFiniteSet(Unannounced')
      /\ Cardinality(Unannounced') <= Cardinality(Unannounced \cup {item})
  BY <1>1, FS_Subset
<1>3. /\ Cardinality(Unannounced') \in Nat /\ Cardinality(Unannounced) \in Nat
      /\ Cardinality(Unannounced \cup {item}) \in Nat
  BY <1>1, <1>2, FS_CardinalityType DEF RssInv
<1>4. /\ faults \in Nat /\ deaths \in Nat /\ faults' \in Nat /\ deaths' \in Nat
      /\ Cardinality(Unannounced) <= faults + deaths
  BY PollerCounts, PollerCountsNext DEF RssInv
<1>5. Cardinality(Unannounced \cup {item}) <= faults + deaths + 1
  <2>1. \A x, y, z \in Nat : (x = y \/ x = y + 1) /\ y <= z => x <= z + 1
    OBVIOUS
  <2> QED BY <1>1, <1>3, <1>4, <2>1
<1>6. faults' + deaths' = faults + deaths + 1
  <2>1. CASE faults' = faults + 1 /\ deaths' = deaths
    <3>1. \A a, b \in Nat : (a + 1) + b = a + b + 1
      OBVIOUS
    <3> QED BY <1>4, <2>1, <3>1
  <2>2. CASE faults' = faults /\ deaths' = deaths + 1
    <3>1. \A a, b \in Nat : a + (b + 1) = a + b + 1
      OBVIOUS
    <3> QED BY <1>4, <2>2, <3>1
  <2> QED BY <2>1, <2>2
<1>7. \A x, y, z \in Nat : x <= y /\ y <= z => x <= z
  OBVIOUS
<1> QED BY <1>2, <1>3, <1>4, <1>5, <1>6, <1>7

LEMMA RssStarts == BackgroundInit => RssInv
<1> SUFFICES ASSUME BackgroundInit PROVE RssInv
  OBVIOUS
<1>1. Unannounced = {}
  BY DEF Unannounced, BackgroundInit, RssInit
<1>2. PollerTypes
  BY DEF BackgroundInit, RssInit, InboxInit, PollerTypes, RssTypeOK
<1>3. \A i \in Items : Counted(i)
  BY DEF Counted, Pending, Unmarked, Backlog, BackgroundInit, RssInit
<1> QED BY <1>1, <1>2, <1>3, FS_EmptySet DEF RssInv, BackgroundInit, RssInit, InboxInit

\* The seed marks what it read, and the reading of a feed marks nothing.
LEMMA SeedStep == RssInv /\ (SeedFetched \/ SeedMarked) => RssInv'
<1> SUFFICES ASSUME RssInv, SeedFetched \/ SeedMarked PROVE RssInv'
  OBVIOUS
<1>1. PollerTypes'
  BY DEF RssInv, PollerTypes, RssTypeOK, SeedFetched, SeedMarked, shared, history
<1>2. Unannounced' \subseteq Unannounced /\ faults' = faults /\ deaths' = deaths
  BY DEF Unannounced, SeedFetched, SeedMarked, shared, history
<1>3. loop' # "mark" /\ loop' # "reply" /\ loop # "reply"
  BY DEF SeedFetched, SeedMarked
<1>4. ASSUME NEW i \in Items PROVE Counted(i)'
  <2>1. Counted(i) /\ given[i] \in Nat /\ aged[i] \in Nat
    BY DEF RssInv, PollerTypes
  <2>2. given'[i] = given[i] /\ aged'[i] = aged[i] /\ Pending(i)' = 0 /\ Pending(i) = 0
    BY <1>3 DEF Pending, SeedFetched, SeedMarked, history
  <2>3. CASE Unmarked(i)' = Unmarked(i) /\ Backlog(i)' = Backlog(i)
    BY <2>1, <2>2, <2>3 DEF Counted
  <2>4. CASE i \notin seen /\ i \in todo /\ SeedMarked
    <3>1. Unmarked(i) = 1 /\ Unmarked(i)' = 0 /\ Backlog(i) \in {0, 1} /\ Backlog(i)' = 1
      BY <2>4 DEF Unmarked, Backlog, SeedMarked
    <3> QED BY <2>1, <2>2, <3>1 DEF Counted
  <2>5. \/ i \notin seen /\ i \in todo /\ SeedMarked
        \/ Unmarked(i)' = Unmarked(i) /\ Backlog(i)' = Backlog(i)
    BY DEF Unmarked, Backlog, SeedFetched, SeedMarked, history
  <2> QED BY <2>3, <2>4, <2>5
<1> QED BY <1>1, <1>2, <1>3, <1>4, NothingLost DEF RssInv

LEMMA VisitStep ==
  RssInv /\ (PollFetched \/ PollDone \/ \E i \in Items : Visit(i)) => RssInv'
<1> SUFFICES ASSUME RssInv, PollFetched \/ PollDone \/ \E i \in Items : Visit(i)
             PROVE  RssInv'
  OBVIOUS
<1>1. PollerTypes' /\ UNCHANGED <<shared, listed, seen, history, faults>>
  BY DEF RssInv, PollerTypes, RssTypeOK, PollFetched, PollDone, Visit, shared, history
<1>2. /\ loop \notin {"mark", "reply"} /\ loop' # "reply"
      /\ loop' = "mark" => item' \notin seen'
  BY DEF PollFetched, PollDone, Visit
<1>3. item = NoItem
  BY <1>2 DEF RssInv, PollerTypes, RssTypeOK
<1>4. Unannounced' \subseteq Unannounced
  BY <1>1, <1>3 DEF Unannounced, history, RssInv, PollerTypes, RssTypeOK
<1>5. ASSUME NEW i \in Items PROVE Counted(i)'
  <2>1. Counted(i) /\ given[i] \in Nat /\ aged[i] \in Nat
    BY DEF RssInv, PollerTypes
  <2> QED BY <1>1, <1>2, <2>1 DEF Counted, Pending, Unmarked, Backlog, history
<1>6. faults' = faults /\ deaths' = deaths
  BY <1>1 DEF shared
<1> QED BY <1>1, <1>2, <1>4, <1>5, <1>6, NothingLost DEF RssInv

LEMMA MarkStep == RssInv /\ Mark => RssInv'
<1> SUFFICES ASSUME RssInv, Mark PROVE RssInv'
  OBVIOUS
<1>1. item \in Items /\ item \notin seen
  BY DEF RssInv, PollerTypes, RssTypeOK, Mark
<1>2. PollerTypes'
  BY <1>1 DEF RssInv, PollerTypes, RssTypeOK, Mark, shared, history
<1>3. Unannounced' \subseteq Unannounced /\ faults' = faults /\ deaths' = deaths
  BY DEF Unannounced, Mark, shared, history
<1>4. ASSUME NEW i \in Items PROVE Counted(i)'
  <2>1. Counted(i) /\ given[i] \in Nat /\ aged[i] \in Nat
    BY DEF RssInv, PollerTypes
  <2> QED BY <1>1, <2>1 DEF Counted, Pending, Unmarked, Backlog, Mark, history
<1> QED BY <1>2, <1>3, <1>4, NothingLost DEF RssInv, Mark

LEMMA AnnounceStep == RssInv /\ Announce => RssInv'
<1> SUFFICES ASSUME RssInv, Announce PROVE RssInv'
  OBVIOUS
<1>1. /\ item \in Items /\ given \in [Items -> Nat] /\ loop = "reply"
      /\ given' = [given EXCEPT ![item] = @ + 1]
      /\ item' = NoItem /\ loop' = "visit"
      /\ UNCHANGED <<process, deaths, listed, seen, todo, seeded, aged, faults>>
      /\ fresh' \subseteq fresh
  BY DEF RssInv, PollerTypes, RssTypeOK, Announce, Inject
<1>2. /\ given' \in [Items -> Nat] /\ given'[item] = given[item] + 1
      /\ \A i \in Items \ {item} : given'[i] = given[i]
  BY <1>1
<1>3. PollerTypes'
  BY <1>1, <1>2 DEF RssInv, PollerTypes, RssTypeOK
<1>4. Unannounced' \subseteq Unannounced
  <2>1. given'[item] # 0 /\ seen \subseteq Items
    BY <1>1, <1>2 DEF RssInv, PollerTypes, RssTypeOK
  <2> QED BY <1>1, <1>2, <2>1 DEF Unannounced
<1>5. ASSUME NEW i \in Items PROVE Counted(i)'
  <2>1. Counted(i) /\ given[i] \in Nat /\ aged[i] \in Nat
    BY DEF RssInv, PollerTypes
  <2>2. CASE i = item
    BY <1>1, <1>2, <2>1, <2>2 DEF Counted, Pending, Unmarked, Backlog
  <2>3. CASE i # item
    BY <1>1, <1>2, <2>1, <2>3 DEF Counted, Pending, Unmarked, Backlog
  <2> QED BY <2>2, <2>3
<1> QED BY <1>1, <1>3, <1>4, <1>5, NothingLost DEF RssInv

LEMMA FailStep == RssInv /\ Fail => RssInv'
<1> SUFFICES ASSUME RssInv, Fail PROVE RssInv'
  OBVIOUS
<1>1. PollerTypes'
  <2>1. faults' \in 0..MaxFailures
    <3>1. faults \in 0..MaxFailures /\ faults < MaxFailures /\ faults' = faults + 1
      BY DEF RssInv, PollerTypes, RssTypeOK, Fail
    <3> QED BY <3>1
  <2> QED BY <2>1 DEF RssInv, PollerTypes, RssTypeOK, Fail, shared
<1>2. Unannounced' \subseteq Unannounced \cup {item}
  BY DEF Unannounced, Fail
<1>3. faults' = faults + 1 /\ deaths' = deaths
  BY DEF Fail, shared
<1>4. ASSUME NEW i \in Items PROVE Counted(i)'
  <2>1. Counted(i) /\ given[i] \in Nat /\ aged[i] \in Nat
    BY DEF RssInv, PollerTypes
  <2>2. UNCHANGED <<seen, given, seeded, aged>> /\ loop' = "sleep"
    BY DEF Fail
  <2>3. Pending(i)' = 0 /\ Pending(i) \in {0, 1}
    BY <2>2 DEF Pending
  <2>4. Unmarked(i)' = Unmarked(i) /\ Backlog(i)' = Backlog(i)
        /\ Unmarked(i) \in {0, 1} /\ Backlog(i) \in {0, 1}
    BY <2>2 DEF Unmarked, Backlog
  <2> QED BY <2>1, <2>2, <2>3, <2>4 DEF Counted
<1> QED BY <1>1, <1>2, <1>3, <1>4, OneLost DEF RssInv, Fail

LEMMA CleanupStep == RssInv /\ Cleanup => RssInv'
<1> SUFFICES ASSUME RssInv, Cleanup PROVE RssInv'
  OBVIOUS
<1>1. PICK older \in SUBSET {i \in seen : aged[i] < MaxAged} :
        /\ seen' = seen \ older
        /\ aged' = [i \in Items |-> IF i \in older THEN aged[i] + 1 ELSE aged[i]]
  BY DEF Cleanup
<1>2. UNCHANGED <<process, deaths, listed, loop, todo, item, given, seeded, fresh, faults>>
  BY DEF Cleanup, shared
<1>3. ASSUME NEW i \in Items
      PROVE  /\ aged'[i] \in 0..MaxAged
             /\ aged'[i] = IF i \in older THEN aged[i] + 1 ELSE aged[i]
  <2>1. aged'[i] = IF i \in older THEN aged[i] + 1 ELSE aged[i]
    BY <1>1
  <2>2. aged[i] \in 0..MaxAged
    BY DEF RssInv, PollerTypes, RssTypeOK
  <2>3. i \in older => aged[i] < MaxAged
    BY <1>1
  <2> QED BY <2>1, <2>2, <2>3
<1>4. PollerTypes'
  <2>1. aged' \in [Items -> Nat]
    <3>1. \A i \in Items : aged'[i] \in Nat
      BY <1>3
    <3> QED BY <1>1, <3>1
  <2>2. listed \cup seen' \subseteq Items
    BY <1>1 DEF RssInv, PollerTypes, RssTypeOK
  <2>3. \A i \in Items : aged'[i] \in 0..MaxAged
    BY <1>3
  <2> HIDE <1>1, <1>3
  <2> QED BY <1>2, <2>1, <2>2, <2>3 DEF RssInv, PollerTypes, RssTypeOK
<1>5. Unannounced' \subseteq Unannounced /\ faults' = faults /\ deaths' = deaths
  BY <1>1, <1>2 DEF Unannounced
<1>6. ASSUME NEW i \in Items PROVE Counted(i)'
  <2>1. Counted(i) /\ given[i] \in Nat /\ aged[i] \in Nat
    BY DEF RssInv, PollerTypes
  <2>2. CASE i \in older
    <3>1. i \in seen /\ i \notin seen' /\ aged'[i] = aged[i] + 1
      BY <1>1, <1>3, <2>2
    <3> QED BY <1>2, <2>1, <3>1 DEF Counted, Pending, Unmarked, Backlog
  <2>3. CASE i \notin older
    <3>1. (i \in seen <=> i \in seen') /\ aged'[i] = aged[i]
      BY <1>1, <1>3, <2>3
    <3> QED BY <1>2, <2>1, <3>1 DEF Counted, Pending, Unmarked, Backlog
  <2> QED BY <2>2, <2>3
<1>7. loop' = "mark" => item' \notin seen'
  BY <1>1, <1>2 DEF RssInv
<1> QED BY <1>4, <1>5, <1>6, <1>7, NothingLost DEF RssInv

LEMMA PublishStep == RssInv /\ (\E i \in Items : Publish(i)) => RssInv'
<1> SUFFICES ASSUME RssInv, NEW i \in Items, Publish(i) PROVE RssInv'
  OBVIOUS
<1>1. PollerTypes'
  BY DEF RssInv, PollerTypes, RssTypeOK, Publish, shared
<1>2. UNCHANGED <<process, deaths, seen, loop, item, given, seeded, aged, faults>>
  BY DEF Publish, shared
<1>3. Unannounced' = Unannounced
  BY <1>2 DEF Unannounced
<1> QED BY <1>1, <1>2, <1>3 DEF RssInv, Counted, Pending, Unmarked, Backlog

\* The process starts or dies: what it was about to announce is lost.
LEMMA ProcessStep == RssInv /\ (Start \/ Crash) => RssInv'
<1>1. ASSUME RssInv, Start PROVE RssInv'
  <2>1. PollerTypes' /\ loop = "off"
    BY <1>1 DEF RssInv, PollerTypes, RssTypeOK, Start, Boot, RssBoot, history
  <2>2. UNCHANGED <<deaths, seen, item, given, seeded, aged, faults>>
    BY <1>1 DEF Start, Boot, RssBoot, history
  <2>3. Unannounced' = Unannounced /\ loop' = "seed"
    BY <1>1, <2>2 DEF Unannounced, Start, RssBoot
  <2> QED BY <1>1, <2>1, <2>2, <2>3 DEF RssInv, Counted, Pending, Unmarked, Backlog
<1>2. ASSUME RssInv, Crash PROVE RssInv'
  <2>1. PollerTypes'
    <3>1. deaths' \in Nat
      BY <1>2 DEF RssInv, PollerTypes, Crash, Die
    <3> QED BY <1>2, <3>1 DEF RssInv, PollerTypes, RssTypeOK, Crash, Die, RssDie
  <2>2. Unannounced' \subseteq Unannounced \cup {item}
    BY <1>2 DEF Unannounced, Crash, RssDie
  <2>3. faults' = faults /\ deaths' = deaths + 1
    BY <1>2 DEF Crash, Die, RssDie
  <2>4. ASSUME NEW i \in Items PROVE Counted(i)'
    <3>1. Counted(i) /\ given[i] \in Nat /\ aged[i] \in Nat
      BY <1>2 DEF RssInv, PollerTypes
    <3> QED BY <1>2, <3>1 DEF Counted, Pending, Unmarked, Backlog, Crash, RssDie
  <2> QED BY <1>2, <2>1, <2>2, <2>3, <2>4, OneLost DEF RssInv, Crash, RssDie
<1> QED BY <1>1, <1>2

\* Turns and tasks use the queue only.
LEMMA OthersStep ==
  RssInv /\ (Turn \/ (TaskNext /\ UNCHANGED rssVars)) => RssInv'
<1>1. ASSUME Turn \/ (TaskNext /\ UNCHANGED rssVars)
      PROVE  UNCHANGED <<rssVars, process, deaths>>
  BY <1>1 DEF Turn, Hear, TaskNext, Spawn, Run, Exit, Started, NotStarted, Completed,
              Timeout, Terminated, Drained, Report, Inject, shared
<1> QED BY <1>1, PollerUndisturbed

LEMMA RssHolds == BackgroundSpec => []RssInv
<1>1. RssInv /\ UNCHANGED backgroundVars => RssInv'
  BY PollerUndisturbed DEF backgroundVars, shared
<1>2. RssInv /\ RssNext => RssInv'
  <2>1. RssInv /\ Poller => RssInv'
    BY SeedStep, VisitStep, MarkStep, AnnounceStep DEF Poller
  <2> QED BY <2>1, FailStep, CleanupStep, PublishStep DEF RssNext
<1>3. RssInv /\ [BackgroundNext]_backgroundVars => RssInv'
  <2> SUFFICES ASSUME RssInv, BackgroundNext PROVE RssInv'
    BY <1>1
  <2>1. CASE Start \/ Crash
    BY <2>1, ProcessStep
  <2>2. CASE Turn \/ (TaskNext /\ UNCHANGED rssVars)
    BY <2>2, OthersStep
  <2>3. CASE RssNext
    BY <2>3, <1>2
  <2> QED BY <2>1, <2>2, <2>3 DEF BackgroundNext
<1> QED BY RssStarts, <1>3, PTL DEF BackgroundSpec

\* Whatever fails, ages or crashes: an item is announced once for each time
\* its row was lost to age, a seeded backlog never, and every item that is
\* marked was announced or seeded, is at hand, or is paid for by a failure
\* or a crash of rss_poll_loop.
THEOREM PollerAnnounces == BackgroundSpec => []RssAnnounces
<1>1. RssInv => RssAnnounces
  <2> SUFFICES ASSUME RssInv PROVE AnnouncedOnce /\ BacklogIsSilent /\ MarkedIsAnnounced
    BY DEF RssInv, PollerTypes, RssAnnounces
  <2>1. ASSUME NEW i \in Items
        PROVE  given[i] <= 1 + aged[i] /\ (i \in seeded => given[i] <= aged[i])
    <3>1. Counted(i) /\ given[i] \in Nat /\ aged[i] \in Nat
      BY DEF RssInv, PollerTypes
    <3> QED BY <3>1 DEF Counted, Pending, Unmarked, Backlog
  <2>2. seeded \subseteq Items
    BY DEF RssInv, PollerTypes, RssTypeOK
  <2> QED BY <2>1, <2>2 DEF AnnouncedOnce, BacklogIsSilent, MarkedIsAnnounced, RssInv, Unannounced
<1> QED BY <1>1, RssHolds, PTL

(***************************************************************************)
(* The background tasks                                                    *)
(***************************************************************************)

\* Where a task's processes are: none before it starts; after SIGTERM those
\* that ignore it; and when the pipe is given up no shell.
Tamed(t) ==
  /\ at[t] \in {"unborn", "start", "gone"} => alive[t] = {}
  /\ at[t] \in {"terminate", "drain", "done"} => alive[t] \subseteq stubborn[t]
  /\ at[t] \in {"drain", "done"} => "shell" \notin alive[t]

TaskInv ==
  /\ TaskTypeOK
  /\ reports \in [Tasks -> Nat]
  /\ ReportedOnce
  /\ \A t \in Tasks : Tamed(t)

LEMMA TasksStart == BackgroundInit => TaskInv
BY DEF BackgroundInit, TaskInit, TaskInv, TaskTypeOK, ReportedOnce, Tamed

\* The command's processes end, or are killed, with the record as it is.
LEMMA TaskMoves ==
  ASSUME TaskInv, NEW t \in Tasks, NEW where \in Awaits, NEW members \in SUBSET Members,
         NEW deaf \in SUBSET Members,
         at[t] \in Awaits \cup {"unborn"},
         at' = [at EXCEPT ![t] = where],
         alive' = [alive EXCEPT ![t] = members],
         stubborn' = [stubborn EXCEPT ![t] = deaf],
         UNCHANGED <<result, reports>>,
         where = "start" => members = {},
         where \in {"terminate", "drain"} => members \subseteq deaf,
         where = "drain" => "shell" \notin members
  PROVE  TaskInv'
<1>1. /\ at' \in [Tasks -> {"unborn", "done", "gone"} \cup Awaits]
      /\ alive' \in [Tasks -> SUBSET Members] /\ stubborn' \in [Tasks -> SUBSET Members]
      /\ at'[t] = where /\ alive'[t] = members /\ stubborn'[t] = deaf
      /\ \A u \in Tasks \ {t} : at'[u] = at[u] /\ alive'[u] = alive[u] /\ stubborn'[u] = stubborn[u]
  BY DEF TaskInv, TaskTypeOK
<1>2. where \notin {"done", "gone", "unborn"} /\ at[t] \notin {"done", "gone"}
  BY DEF Awaits
<1>3. TaskTypeOK'
  <2>1. ASSUME NEW u \in Tasks PROVE result'[u] # "none" <=> at'[u] = "done"
    BY <1>1, <1>2 DEF TaskInv, TaskTypeOK
  <2> QED BY <1>1, <2>1 DEF TaskInv, TaskTypeOK
<1>4. ReportedOnce'
  <2>1. ASSUME NEW u \in Tasks
        PROVE  reports'[u] = (IF at'[u] = "done" THEN 1 ELSE 0) \/ at'[u] = "gone"
    BY <1>1, <1>2 DEF TaskInv, ReportedOnce
  <2> QED BY <2>1 DEF ReportedOnce
<1>5. ASSUME NEW u \in Tasks PROVE Tamed(u)'
  <2>1. CASE u = t
    BY <1>1, <1>2, <2>1 DEF Tamed
  <2>2. CASE u # t
    BY <1>1, <2>2 DEF Tamed, TaskInv
  <2> QED BY <2>1, <2>2
<1> QED BY <1>3, <1>4, <1>5 DEF TaskInv

\* The task's one report.
LEMMA TaskReports ==
  ASSUME TaskInv, NEW t \in Tasks, NEW text \in {"error", "output", "timeout"},
         at[t] \in Awaits, Report(t, text), UNCHANGED <<alive, stubborn>>,
         alive[t] \subseteq stubborn[t], "shell" \notin alive[t]
  PROVE  TaskInv'
<1>1. /\ at' \in [Tasks -> {"unborn", "done", "gone"} \cup Awaits]
      /\ result' \in [Tasks -> {"none", "error", "output", "timeout"}]
      /\ reports' \in [Tasks -> Nat]
      /\ at'[t] = "done" /\ result'[t] = text /\ reports'[t] = reports[t] + 1
      /\ \A u \in Tasks \ {t} : at'[u] = at[u] /\ result'[u] = result[u] /\ reports'[u] = reports[u]
  BY DEF TaskInv, TaskTypeOK, Report
<1>2. reports[t] = 0
  BY DEF TaskInv, ReportedOnce, Awaits
<1>3. TaskTypeOK'
  <2>1. ASSUME NEW u \in Tasks PROVE result'[u] # "none" <=> at'[u] = "done"
    BY <1>1 DEF TaskInv, TaskTypeOK
  <2> QED BY <1>1, <2>1 DEF TaskInv, TaskTypeOK
<1>4. ReportedOnce'
  <2>1. ASSUME NEW u \in Tasks
        PROVE  reports'[u] = (IF at'[u] = "done" THEN 1 ELSE 0) \/ at'[u] = "gone"
    BY <1>1, <1>2 DEF TaskInv, ReportedOnce
  <2> QED BY <2>1 DEF ReportedOnce
<1>5. ASSUME NEW u \in Tasks PROVE Tamed(u)'
  BY <1>1 DEF Tamed, TaskInv
<1> QED BY <1>1, <1>3, <1>4, <1>5 DEF TaskInv

LEMMA TaskStep == TaskInv /\ TaskNext => TaskInv'
<1> SUFFICES ASSUME TaskInv, NEW t \in Tasks,
                    Spawn(t) \/ Run(t) \/ \E m \in Members : Exit(t, m)
             PROVE  TaskInv'
  BY DEF TaskNext
<1>0. /\ alive \in [Tasks -> SUBSET Members] /\ stubborn \in [Tasks -> SUBSET Members]
      /\ at \in [Tasks -> {"unborn", "done", "gone"} \cup Awaits]
      /\ alive[t] \in SUBSET Members /\ stubborn[t] \in SUBSET Members
      /\ Tamed(t)
      /\ alive = [alive EXCEPT ![t] = alive[t]]
      /\ stubborn = [stubborn EXCEPT ![t] = stubborn[t]]
      /\ at = [at EXCEPT ![t] = at[t]]
      /\ stubborn[t] \cap stubborn[t] = stubborn[t]
  BY DEF TaskInv, TaskTypeOK
<1>1. CASE Spawn(t)
  <2>1. "start" \in Awaits /\ alive[t] = {}
    BY <1>0, <1>1 DEF Awaits, Spawn, Tamed
  <2> QED BY <1>0, <1>1, <2>1, TaskMoves DEF Spawn
<1>2. CASE Started(t)
  <2>1. PICK c \in Commands : /\ alive' = [alive EXCEPT ![t] = c.members]
                              /\ stubborn' = [stubborn EXCEPT ![t] = c.stubborn]
    BY <1>2 DEF Started
  <2>2. c.members \in SUBSET Members /\ c.stubborn \in SUBSET Members
    BY DEF Commands, Command, Members
  <2>3. "communicate" \in Awaits /\ at[t] \in Awaits
    BY <1>2 DEF Awaits, Started
  <2> QED BY <1>2, <2>1, <2>2, <2>3, TaskMoves DEF Started
<1>3. ASSUME NEW m \in Members, Exit(t, m) PROVE TaskInv'
  <2>1. /\ at[t] \in Awaits /\ at' = [at EXCEPT ![t] = at[t]]
        /\ alive[t] \ {m} \in SUBSET Members
        /\ stubborn[t] \cap (alive[t] \ {m}) \in SUBSET Members
        /\ m \in alive[t]
    BY <1>0, <1>3 DEF Exit
  <2> DEFINE left == alive[t] \ {m}
             deaf == stubborn[t] \cap left
  <2>2. /\ alive' = [alive EXCEPT ![t] = left] /\ stubborn' = [stubborn EXCEPT ![t] = deaf]
        /\ UNCHANGED <<result, reports>>
    BY <1>3 DEF Exit, Survive
  <2>3. /\ at[t] # "start"
        /\ at[t] \in {"terminate", "drain"} => left \subseteq deaf
        /\ at[t] = "drain" => "shell" \notin left
    BY <1>0, <2>1 DEF Tamed
  <2>4. left \in SUBSET Members /\ deaf \in SUBSET Members
    BY <2>1
  <2> HIDE DEF left, deaf
  <2> QED BY <2>1, <2>2, <2>3, <2>4, TaskMoves
<1>4. CASE NotStarted(t)
  <2>1. alive[t] = {} /\ at[t] \in Awaits
    BY <1>0, <1>4 DEF Tamed, NotStarted, Awaits
  <2> QED BY <1>4, <2>1, TaskReports DEF NotStarted
<1>5. CASE Completed(t)
  <2>1. alive[t] = {} /\ at[t] \in Awaits
    BY <1>5 DEF Completed, Awaits
  <2> QED BY <1>5, <2>1, TaskReports DEF Completed
<1>6. CASE Timeout(t)
  <2>1. "terminate" \in Awaits /\ at[t] \in Awaits
    BY <1>6 DEF Awaits, Timeout
  <2>2. stubborn' = [stubborn EXCEPT ![t] = stubborn[t]]
    BY <1>0, <1>6 DEF Timeout, Survive
  <2> QED BY <1>0, <1>6, <2>1, <2>2, TaskMoves DEF Timeout, Survive
<1>7. CASE Terminated(t)
  <2>1. "drain" \in Awaits /\ at[t] \in Awaits /\ alive[t] \subseteq stubborn[t]
    BY <1>0, <1>7 DEF Awaits, Terminated, Tamed
  <2>2. CASE "shell" \notin alive[t] /\ UNCHANGED <<alive, stubborn>>
    BY <1>0, <1>7, <2>1, <2>2, TaskMoves DEF Terminated
  <2>3. CASE Survive(t, {})
    <3>1. stubborn[t] \cap {} = {} /\ {} \in SUBSET Members
      OBVIOUS
    <3> QED BY <1>0, <1>7, <2>1, <2>3, <3>1, TaskMoves DEF Terminated, Survive
  <2> QED BY <1>7, <2>2, <2>3 DEF Terminated
<1>8. CASE Drained(t)
  <2>1. alive[t] \subseteq stubborn[t] /\ "shell" \notin alive[t] /\ at[t] \in Awaits
    BY <1>0, <1>8 DEF Tamed, Drained, Awaits
  <2> QED BY <1>8, <2>1, TaskReports DEF Drained
<1> QED BY <1>1, <1>2, <1>3, <1>4, <1>5, <1>6, <1>7, <1>8 DEF Run

LEMMA TasksDie == TaskInv /\ Crash => TaskInv'
<1> SUFFICES ASSUME TaskInv, Crash PROVE TaskInv'
  OBVIOUS
<1>1. /\ \A t \in Tasks : /\ at'[t] = IF at[t] = "unborn" THEN "unborn" ELSE "gone"
                          /\ alive'[t] = {} /\ stubborn'[t] = {} /\ result'[t] = "none"
      /\ reports' = reports
  BY DEF Crash, TaskDie
<1>2. TaskTypeOK'
  BY <1>1 DEF TaskInv, TaskTypeOK, Crash, TaskDie
<1>3. ReportedOnce'
  BY <1>1 DEF TaskInv, ReportedOnce
<1> QED BY <1>1, <1>2, <1>3 DEF TaskInv, Tamed

LEMMA TasksHold == BackgroundSpec => []TaskInv
<1>1. ASSUME TaskInv, UNCHANGED taskVars PROVE TaskInv'
  BY <1>1 DEF TaskInv, TaskTypeOK, ReportedOnce, Tamed, taskVars
<1>2. TaskInv /\ [BackgroundNext]_backgroundVars => TaskInv'
  BY <1>1, TaskStep, TasksDie DEF BackgroundNext, Start, Turn, backgroundVars
<1> QED BY TasksStart, <1>2, PTL DEF BackgroundSpec

\* Whatever way run_bash ends, its result is injected once, at the moment the
\* record is finished, and no process is left then that heeds the signals.
THEOREM CommandsAreReported == BackgroundSpec => []TasksReported
<1>1. TaskInv => TasksReported
  BY DEF TaskInv, TaskTypeOK, TasksReported, OnlyStubbornSurvive, Tamed
<1> QED BY <1>1, TasksHold, PTL

(***************************************************************************)
(* The Matrix connector                                                    *)
(***************************************************************************)

HIDE RssAssumption
HIDE InjectionAssumption
USE SessionAssumption

\* What credentials.json and the AsyncClient may hold when the room has n
\* events.
Files(n) == {Absent, Torn, Partial} \cup {Full(t, k) : t \in Tokens, k \in 0..n}
Clients(n) == [token : Tokens \cup {NoToken}, next : 0..n]

\* The room and the histories.
EventTypes ==
  /\ room \in Seq(Kinds) /\ Len(room) <= MaxEvents
  /\ fate \in Seq(Fates) /\ Len(fate) = Len(room)
  /\ handed \in Seq(Nat) /\ ToSet(handed) \subseteq 1..Len(room)
  /\ unsaved \subseteq 1..Len(room)

\* The session.
SessionTypes ==
  /\ stage \in {"down", "login", "whoami", "initial", "refused"} \cup Connected
  /\ env \in [password : BOOLEAN, token : {NoToken} \cup Tokens]
  /\ file \in Files(Len(room))
  /\ client \in Clients(Len(room))
  /\ stage \in {"initial"} \cup Connected => client.token # NoToken
  /\ issued \in 0..MaxTokens /\ valid \subseteq 1..issued
  /\ logins \in Nat
  /\ kills \in 0..MaxKills /\ stops \in 0..MaxStops /\ failures \in 0..MaxRaises

\* The batch is the events between the one that was dispatched last and the
\* client's token, and nothing outside a dispatch.
BatchIsRun ==
  /\ batch \in Seq(Nat) /\ Len(batch) <= client.next
  /\ \A i \in 1..Len(batch) : batch[i] = (client.next - Len(batch)) + i
  /\ stage # "dispatch" => Len(batch) = 0

\* A usable file is there when the connector syncs, and none when it logs in;
\* up to the initial sync the file and the client have the same token.
FileFits ==
  /\ stage \in {"initial"} \cup Connected => Usable(file)
  /\ stage \in {"login", "whoami"} => ~Usable(file)
  /\ stage \in {"login", "whoami", "initial", "refused"} => client.next = file.since

\* The events up to position n have been dealt with.
SettledTo(n) == \A e \in 1..Len(room) : e <= n => fate[e] # "open"

\* How far the connector has come, or will find that it had come.
Reached == IF stage = "down" THEN file.since ELSE client.next - Len(batch)

\* What was handed over is behind that, but for what a crash kept from being
\* saved.
HandedBehind == \A e \in ToSet(handed) \ unsaved : e <= Reached

\* A login in vain is paid for by a crash.
LoginsPaid == logins + (IF Usable(file) THEN 0 ELSE 1) <= 1 + kills

SInv ==
  /\ EventTypes /\ SessionTypes
  /\ BatchIsRun /\ FileFits
  /\ SettledTo(client.next - Len(batch)) /\ SettledTo(file.since)
  /\ HandedBehind /\ HandedOnceInOrder
  /\ LoginsPaid

(***************************************************************************)
(* The file, the fates                                                     *)
(***************************************************************************)

LEMMA FileFacts ==
  ASSUME NEW n \in Nat, NEW f \in Files(n)
  PROVE  /\ f.since \in 0..n /\ f.since \in Nat
         /\ Usable(f) => f.token \in Tokens /\ f = Full(f.token, f.since)
         /\ ~Usable(f) => f.since = 0
BY DEF Files, Absent, Torn, Partial, Full, Usable

LEMMA FilesGrow ==
  ASSUME NEW n \in Nat, NEW m \in Nat, n <= m
  PROVE  Files(n) \subseteq Files(m) /\ Clients(n) \subseteq Clients(m)
<1>1. 0..n \subseteq 0..m
  OBVIOUS
<1> QED BY <1>1 DEF Files, Clients

LEMMA FullFile ==
  ASSUME NEW n \in Nat, NEW t \in Tokens, NEW k \in 0..n
  PROVE  /\ Full(t, k) \in Files(n) /\ Usable(Full(t, k))
         /\ Full(t, k).since = k /\ Full(t, k).token = t
BY DEF Files, Full, Usable

LEMMA EmptyFiles ==
  \A n \in Nat : \A f \in {Absent, Torn, Partial} :
    f \in Files(n) /\ ~Usable(f) /\ f.since = 0
BY DEF Files, Absent, Torn, Partial, Usable

\* _save_sync_token: a complete file takes the token, another is not one after.
LEMMA SavedFile ==
  ASSUME NEW n \in Nat, NEW f \in Files(n), NEW m \in 0..n
  PROVE  /\ Saved(f, m) \in Files(n)
         /\ Usable(Saved(f, m)) <=> Usable(f)
         /\ Saved(f, m).since = IF m # 0 /\ Usable(f) THEN m ELSE f.since
<1>1. CASE m = 0
  BY <1>1 DEF Saved
<1>2. CASE m # 0 /\ Usable(f)
  <2>1. Saved(f, m) = [f EXCEPT !.since = m]
    BY <1>2 DEF Saved
  <2>2. f.token \in Tokens /\ f = Full(f.token, f.since)
    BY <1>2, FileFacts
  <2>3. Saved(f, m) = Full(f.token, m)
    BY <2>1, <2>2 DEF Full
  <2> QED BY <1>2, <2>2, <2>3, FullFile
<1>3. CASE m # 0 /\ ~Usable(f)
  <2>1. Saved(f, m) = Absent
    BY <1>3 DEF Saved, Loaded
  <2> QED BY <1>3, <2>1, EmptyFiles, FileFacts
<1> QED BY <1>1, <1>2, <1>3

\* The fates after some events were settled.
LEMMA SettleFacts ==
  ASSUME EventTypes, NEW events, NEW as \in Fates, Settle(events, as)
  PROVE  /\ fate' \in Seq(Fates) /\ Len(fate') = Len(room)
         /\ \A e \in 1..Len(room) : fate'[e] = IF e \in events THEN as ELSE fate[e]
<1>1. Len(room) \in Nat /\ Events = 1..Len(room)
  <2> HIDE DEF Kinds
  <2> QED BY LenProperties DEF EventTypes, Events
<1>2. \A e \in 1..Len(room) : fate[e] \in Fates
  <2> HIDE DEF Fates
  <2> QED BY ElementOfSeq DEF EventTypes
<1>3. fate' = [e \in 1..Len(room) |-> IF e \in events THEN as ELSE fate[e]]
  BY <1>1 DEF Settle
<1>4. fate' \in [1..Len(room) -> Fates]
  BY <1>2, <1>3
<1> HIDE DEF Fates
<1>5. fate' \in Seq(Fates) /\ Len(fate') = Len(room)
  BY <1>1, <1>4
<1> QED BY <1>3, <1>5

(***************************************************************************)
(* Frames                                                                  *)
(***************************************************************************)

\* The numbers of a state.
LEMMA Numbers ==
  ASSUME SInv
  PROVE  /\ Len(room) \in Nat /\ Len(batch) \in Nat
         /\ client.next \in Nat /\ client.next <= Len(room)
         /\ Len(batch) <= client.next
         /\ file.since \in Nat /\ file.since <= Len(room)
         /\ Reached \in Nat
         /\ file \in Files(Len(room))
         /\ ~Usable(file) => file.since = 0
<1>1. Len(room) \in Nat /\ Len(batch) \in Nat
  <2> HIDE DEF Kinds
  <2> QED BY LenProperties DEF SInv, EventTypes, BatchIsRun
<1>2. client.next \in 0..Len(room) /\ file \in Files(Len(room)) /\ Len(batch) <= client.next
  BY DEF SInv, SessionTypes, Clients, BatchIsRun
<1>3. file.since \in 0..Len(room) /\ (~Usable(file) => file.since = 0)
  BY <1>1, <1>2, FileFacts
<1> QED BY <1>1, <1>2, <1>3 DEF Reached

\* A step outside a dispatch that handles no event: the connector goes on
\* from where it had come, and saves no other position than that.
LEMMA Quiet ==
  ASSUME SInv, UNCHANGED <<room, batch, handed, fate, unsaved>>, Len(batch) = 0,
         SessionTypes', FileFits', LoginsPaid',
         stage' \notin {"down", "dispatch"}, client'.next = Reached,
         file'.since \in {file.since, client'.next}
  PROVE  SInv'
<1>1. EventTypes'
  BY DEF SInv, EventTypes
<1>2. /\ Reached \in Nat
      /\ stage # "down" => Reached = client.next
      /\ stage = "down" => Reached = file.since
      /\ client.next \in Nat
  BY Numbers DEF Reached
<1>3. BatchIsRun'
  BY <1>2 DEF SInv, BatchIsRun
<1>4. client'.next - Len(batch') = Reached /\ Reached' = Reached
  BY <1>2 DEF Reached
<1>5. SettledTo(Reached)
  <2>1. client.next - Len(batch) = client.next
    BY <1>2
  <2> QED BY <1>2, <2>1 DEF SInv
<1>6. SettledTo(client.next - Len(batch))' /\ SettledTo(file.since)'
  <2>1. \A e \in 1..Len(room) : e <= Reached \/ e <= file'.since => fate[e] # "open"
    BY <1>5 DEF SettledTo, SInv
  <2> QED BY <1>4, <2>1 DEF SettledTo
<1>7. HandedBehind' /\ HandedOnceInOrder'
  BY <1>4 DEF SInv, HandedBehind, HandedOnceInOrder
<1> QED BY <1>1, <1>3, <1>6, <1>7 DEF SInv

\* A step of the world, or of an idle connector: nothing of it moves.
LEMMA Still ==
  ASSUME SInv, UNCHANGED <<stage, file, client, room, batch, handed, fate, unsaved,
                           logins, kills, stops, failures>>,
         SessionTypes'
  PROVE  SInv'
<1>1. EventTypes' /\ BatchIsRun' /\ FileFits' /\ LoginsPaid'
  BY DEF SInv, EventTypes, BatchIsRun, FileFits, LoginsPaid
<1>2. HandedBehind' /\ HandedOnceInOrder'
  BY DEF SInv, HandedBehind, HandedOnceInOrder, Reached
<1>3. SettledTo(client.next - Len(batch))' /\ SettledTo(file.since)'
  BY DEF SInv, SettledTo
<1> QED BY <1>1, <1>2, <1>3 DEF SInv

(***************************************************************************)
(* The start                                                               *)
(***************************************************************************)

LEMMA SessionInit == Init => SInv
<1> SUFFICES ASSUME Init PROVE SInv
  OBVIOUS
<1>1. Len(room) = 0 /\ Len(fate) = 0 /\ Len(batch) = 0 /\ Len(handed) = 0
      /\ ToSet(handed) = {} /\ 1..Len(room) = {}
  BY DEF Init, ToSet
<1>2. EventTypes /\ BatchIsRun
  BY <1>1 DEF Init, EventTypes, BatchIsRun, NoClient
<1>3. file \in Files(0) /\ ~Usable(file) /\ file.since = 0
  BY EmptyFiles DEF Init
<1>4. client \in Clients(0)
  BY DEF Init, NoClient, Clients
<1>5. env \in [password : BOOLEAN, token : {NoToken} \cup Tokens]
      /\ issued \in 0..MaxTokens /\ valid \subseteq 1..issued
  <2>1. env \in [password : BOOLEAN, token : {NoToken, 1}] /\ issued = env.token
        /\ valid = {env.token} \ {NoToken}
    BY DEF Init
  <2>2. 1 \in Tokens /\ MaxTokens \in Nat
    BY DEF Tokens
  <2>3. env.token \in {0, 1}
    BY <2>1 DEF NoToken
  <2> QED BY <2>1, <2>2, <2>3 DEF NoToken
<1>6. SessionTypes
  BY <1>1, <1>3, <1>4, <1>5 DEF Init, SessionTypes, Connected
<1>7. FileFits /\ LoginsPaid
  BY <1>3 DEF FileFits, LoginsPaid, Init, Connected
<1> QED BY <1>1, <1>2, <1>6, <1>7
        DEF SInv, SettledTo, HandedBehind, HandedOnceInOrder, Init

LEMMA RestoreStep == SInv /\ Restore => SInv'
<1> SUFFICES ASSUME SInv, Restore PROVE SInv'
  OBVIOUS
<1>1. /\ stage = "down" /\ Usable(file) /\ stage' = "initial"
      /\ client' = [token |-> file.token, next |-> file.since]
      /\ UNCHANGED <<env, file, room, issued, valid, batch, handed, fate, unsaved, logins,
                     kills, stops, failures>>
  BY DEF Restore, server, bounds
<1>2. Len(batch) = 0
  BY <1>1 DEF SInv, BatchIsRun
<1>3. file.token \in Tokens /\ file.since \in 0..Len(room)
  BY <1>1, FileFacts, Numbers
<1>4. client' \in Clients(Len(room)) /\ client'.token # NoToken
      /\ client'.next = file.since
  BY <1>1, <1>3 DEF Clients, Tokens, NoToken
<1>5. SessionTypes'
  BY <1>1, <1>4 DEF SInv, SessionTypes
<1>6. FileFits' /\ LoginsPaid' /\ Reached = file.since
  BY <1>1, <1>4 DEF SInv, FileFits, LoginsPaid, Reached
<1> QED BY <1>1, <1>2, <1>4, <1>5, <1>6, Quiet

LEMMA AuthenticateStep == SInv /\ Authenticate => SInv'
<1> SUFFICES ASSUME SInv, Authenticate PROVE SInv'
  OBVIOUS
<1>1. /\ stage = "down" /\ ~Usable(file) /\ stage' \in {"login", "whoami", "refused"}
      /\ file' = Absent /\ client' = NoClient
      /\ UNCHANGED <<env, room, issued, valid, batch, handed, fate, unsaved, logins,
                     kills, stops, failures>>
  BY DEF Authenticate, server, bounds, Loaded
<1>2. Len(batch) = 0
  BY <1>1 DEF SInv, BatchIsRun
<1>3. /\ file.since = 0 /\ Len(room) \in Nat
      /\ file' \in Files(Len(room)) /\ ~Usable(file') /\ file'.since = 0
  BY <1>1, EmptyFiles, Numbers
<1>4. client' \in Clients(Len(room)) /\ client'.next = 0
  BY <1>1, <1>3 DEF Clients, NoClient
<1>5. SessionTypes'
  BY <1>1, <1>3, <1>4 DEF SInv, SessionTypes, Connected
<1>6. FileFits' /\ Reached = 0
  BY <1>1, <1>3, <1>4 DEF FileFits, Reached, Connected
<1>7. LoginsPaid'
  BY <1>1, <1>3 DEF SInv, LoginsPaid
<1> QED BY <1>1, <1>2, <1>3, <1>4, <1>5, <1>6, <1>7, Quiet

\* Both ways of getting a session with a token that is valid.
LEMMA SessionMade ==
  ASSUME SInv, NEW t \in Tokens, stage \in {"login", "whoami"}, stage' = "initial",
         client' = [client EXCEPT !.token = t], file' = Full(t, 0),
         issued' \in 0..MaxTokens, valid' \subseteq 1..issued',
         logins' \in {logins, logins + 1},
         UNCHANGED <<env, room, batch, handed, fate, unsaved, kills, stops, failures>>
  PROVE  SInv'
<1>1. Len(batch) = 0 /\ ~Usable(file) /\ client.next = file.since
  BY DEF SInv, BatchIsRun, FileFits
<1>2. file.since = 0 /\ Len(room) \in Nat
  BY <1>1, Numbers
<1>3. 0 \in 0..Len(room)
  BY <1>2
<1>4. file' \in Files(Len(room)) /\ Usable(file') /\ file'.since = 0
  BY <1>2, <1>3, FullFile
<1>5. client' \in Clients(Len(room)) /\ client'.next = 0 /\ client'.token # NoToken
  BY <1>1, <1>2 DEF SInv, SessionTypes, Clients, Tokens, NoToken
<1>6. logins' \in Nat
  BY DEF SInv, SessionTypes
<1>7. SessionTypes'
  BY <1>4, <1>5, <1>6 DEF SInv, SessionTypes
<1>8. FileFits' /\ Reached = 0
  BY <1>1, <1>2, <1>4, <1>5 DEF FileFits, Reached, Connected
<1>9. LoginsPaid'
  <2>1. logins + 1 <= 1 + kills /\ logins \in Nat /\ kills \in Nat
    BY <1>1 DEF SInv, LoginsPaid, SessionTypes
  <2> QED BY <1>4, <2>1 DEF LoginsPaid
<1> QED BY <1>1, <1>2, <1>4, <1>5, <1>7, <1>8, <1>9, Quiet

LEMMA IssueFacts ==
  ASSUME SInv, Issue
  PROVE  /\ issued' \in 0..MaxTokens /\ issued' = issued + 1
         /\ valid' \subseteq 1..issued' /\ issued + 1 \in Tokens
<1>1. issued \in 0..MaxTokens /\ valid \subseteq 1..issued /\ MaxTokens \in Nat
  BY DEF SInv, SessionTypes
<1>2. issued < MaxTokens /\ issued' = issued + 1 /\ valid' = valid \cup {issued + 1}
  BY DEF Issue
<1> QED BY <1>1, <1>2 DEF Tokens

LEMMA LoginStep == SInv /\ (LoginOk \/ WhoamiOk) => SInv'
<1>1. ASSUME SInv, LoginOk PROVE SInv'
  <2>1. /\ issued' \in 0..MaxTokens /\ issued' = issued + 1
        /\ valid' \subseteq 1..issued' /\ issued + 1 \in Tokens
    BY <1>1, IssueFacts DEF LoginOk
  <2> QED BY <1>1, <2>1, SessionMade DEF LoginOk, bounds
<1>2. ASSUME SInv, WhoamiOk PROVE SInv'
  <2>1. env.token \in Tokens
    BY <1>2 DEF SInv, SessionTypes, WhoamiOk, NoToken
  <2>2. issued' \in 0..MaxTokens /\ valid' \subseteq 1..issued'
    BY <1>2 DEF SInv, SessionTypes, WhoamiOk, server
  <2> QED BY <1>2, <2>1, <2>2, SessionMade DEF WhoamiOk, server, bounds
<1> QED BY <1>1, <1>2

\* The steps that change the stage only, and those that count a failure.
LEMMA StageStep ==
  SInv /\ (Refused \/ InitialSyncRaises \/ SyncRaises \/ Retry) => SInv'
<1> SUFFICES ASSUME SInv, Refused \/ InitialSyncRaises \/ SyncRaises \/ Retry
             PROVE  SInv'
  OBVIOUS
<1>1. /\ stage \notin {"down", "dispatch"} /\ stage' \in {"refused", "retry", "listening"}
      /\ UNCHANGED <<env, file, client, room, issued, valid, batch, handed, fate, unsaved,
                     logins, kills, stops>>
      /\ stage' # "refused" => stage \in Connected
      /\ stage' = "refused" => stage \in {"login", "whoami", "initial"}
  BY DEF Refused, InitialSyncRaises, SyncRaises, Retry, server, bounds, Connected
<1>2. failures' \in 0..MaxRaises
  <2>1. failures \in 0..MaxRaises /\ MaxRaises \in Nat
    BY DEF SInv, SessionTypes
  <2>2. failures' = failures \/ (failures < MaxRaises /\ failures' = failures + 1)
    BY DEF Refused, InitialSyncRaises, SyncRaises, Retry, bounds
  <2> QED BY <2>1, <2>2
<1>3. Len(batch) = 0
  BY <1>1 DEF SInv, BatchIsRun
<1>4. SessionTypes'
  BY <1>1, <1>2 DEF SInv, SessionTypes, Connected
<1>5. FileFits' /\ LoginsPaid'
  BY <1>1 DEF SInv, FileFits, LoginsPaid, Connected
<1>6. client'.next = Reached
  BY <1>1, <1>3, Numbers DEF Reached
<1> QED BY <1>1, <1>3, <1>4, <1>5, <1>6, Quiet

\* The steps that save the client's token.
LEMMA SaveStep == SInv /\ (InitialSyncError \/ BatchDone) => SInv'
<1> SUFFICES ASSUME SInv, InitialSyncError \/ BatchDone PROVE SInv'
  OBVIOUS
<1>1. /\ stage \in {"initial", "dispatch"} /\ stage' = "listening"
      /\ file' = Saved(file, client.next)
      /\ UNCHANGED <<env, client, room, issued, valid, batch, handed, fate, unsaved,
                     logins, kills, stops, failures>>
      /\ stage = "dispatch" => batch = <<>>
  BY DEF InitialSyncError, BatchDone, server, bounds
<1>2. Len(batch) = 0
  BY <1>1, EmptySeq DEF SInv, BatchIsRun
<1>3. Usable(file) /\ client.next \in 0..Len(room)
  BY <1>1 DEF SInv, FileFits, SessionTypes, Clients, Connected
<1>4. /\ file' \in Files(Len(room)) /\ Usable(file')
      /\ file'.since \in {file.since, client.next}
  BY <1>1, <1>3, Numbers, SavedFile
<1>5. SessionTypes'
  BY <1>1, <1>4 DEF SInv, SessionTypes, Connected
<1>6. FileFits' /\ LoginsPaid'
  BY <1>1, <1>3, <1>4 DEF SInv, FileFits, LoginsPaid
<1>7. client'.next = Reached
  BY <1>1, <1>2, Numbers DEF Reached
<1> QED BY <1>1, <1>2, <1>4, <1>5, <1>6, <1>7, Quiet

\* What the initial sync delivers is missed, and counts as dealt with.
LEMMA InitialSyncStep == SInv /\ InitialSync => SInv'
<1> SUFFICES ASSUME SInv, InitialSync PROVE SInv'
  OBVIOUS
<1> DEFINE n == Len(room)
<1>1. /\ stage = "initial" /\ stage' = "listening"
      /\ client' = [client EXCEPT !.next = n] /\ file' = Saved(file, n)
      /\ Settle(Open, "missed")
      /\ UNCHANGED <<env, room, issued, valid, batch, handed, unsaved, logins,
                     kills, stops, failures>>
  BY DEF InitialSync, server, bounds
<1>2. Len(batch) = 0 /\ n \in Nat /\ n \in 0..n
  <2>1. Len(batch) = 0 /\ n \in Nat
    BY <1>1, Numbers DEF SInv, BatchIsRun
  <2> QED BY <2>1
<1>3. /\ file' \in Files(n) /\ Usable(file') /\ file'.since \in {file.since, n}
  <2>1. Usable(file)
    BY <1>1 DEF SInv, FileFits
  <2> QED BY <1>1, <1>2, <2>1, Numbers, SavedFile
<1>4. client' \in Clients(n) /\ client'.next = n /\ client'.token = client.token
  BY <1>1, <1>2 DEF SInv, SessionTypes, Clients
<1>5. /\ fate' \in Seq(Fates) /\ Len(fate') = n
      /\ \A e \in 1..n : fate'[e] = IF e \in Open THEN "missed" ELSE fate[e]
  BY <1>1, SettleFacts DEF SInv, Fates
<1>6. \A e \in 1..n : fate'[e] # "open"
  <2>1. Events = 1..n
    <3> HIDE DEF Kinds
    <3> QED BY LenProperties DEF SInv, EventTypes, Events
  <2> QED BY <1>5, <2>1 DEF Open
<1>7. EventTypes'
  BY <1>1, <1>5 DEF SInv, EventTypes
<1>8. SessionTypes'
  BY <1>1, <1>3, <1>4 DEF SInv, SessionTypes, Connected
<1>9. BatchIsRun' /\ FileFits' /\ LoginsPaid'
  BY <1>1, <1>2, <1>3, <1>4 DEF SInv, BatchIsRun, FileFits, LoginsPaid
<1>10. HandedBehind' /\ HandedOnceInOrder'
  <2>1. Reached' = n /\ ToSet(handed) \subseteq 1..n
    BY <1>1, <1>2, <1>4 DEF SInv, EventTypes, Reached
  <2> QED BY <1>1, <1>2, <2>1 DEF SInv, HandedBehind, HandedOnceInOrder
<1>11. SettledTo(client.next - Len(batch))' /\ SettledTo(file.since)'
  BY <1>1, <1>6 DEF SettledTo
<1> QED BY <1>7, <1>8, <1>9, <1>10, <1>11 DEF SInv

(***************************************************************************)
(* The sync loop                                                           *)
(***************************************************************************)

LEMMA SyncReturnsStep == SInv /\ SyncReturns => SInv'
<1> SUFFICES ASSUME SInv, SyncReturns PROVE SInv'
  OBVIOUS
<1> DEFINE n == Len(room)
           k == n - client.next
<1>1. /\ stage = "listening" /\ stage' = "dispatch" /\ client.next < n
      /\ batch' = [i \in 1..k |-> client.next + i]
      /\ client' = [client EXCEPT !.next = n]
      /\ UNCHANGED <<env, file, room, issued, valid, handed, fate, unsaved, logins,
                     kills, stops, failures>>
  BY DEF SyncReturns, server, bounds
<1>2. Len(batch) = 0 /\ n \in Nat /\ client.next \in Nat /\ k \in Nat
  <2>1. Len(batch) = 0
    BY <1>1 DEF SInv, BatchIsRun
  <2> QED BY <1>1, <2>1, Numbers
<1>3. client' \in Clients(n) /\ client'.next = n /\ client'.token = client.token
  <2>1. n \in 0..n
    BY <1>2
  <2> QED BY <1>1, <2>1 DEF SInv, SessionTypes, Clients
<1> HIDE DEF k
<1>4. /\ batch' \in Seq(Nat) /\ Len(batch') = k
      /\ \A i \in 1..k : batch'[i] = client.next + i
  <2>1. batch' \in [1..k -> Nat]
    BY <1>1, <1>2
  <2>2. batch' \in Seq(Nat) /\ Len(batch') = k
    BY <1>2, <2>1
  <2> QED BY <1>1, <2>2
<1>5. n - k = client.next /\ k <= n
  BY <1>2 DEF k
<1> HIDE DEF n
<1>6. BatchIsRun'
  BY <1>1, <1>3, <1>4, <1>5 DEF BatchIsRun
<1>7. EventTypes'
  BY <1>1 DEF SInv, EventTypes
<1>8. SessionTypes'
  BY <1>1, <1>3 DEF SInv, SessionTypes, Connected, n
<1>9. FileFits' /\ LoginsPaid'
  BY <1>1 DEF SInv, FileFits, LoginsPaid, Connected
<1>10. client'.next - Len(batch') = client.next /\ client.next - Len(batch) = client.next
  BY <1>2, <1>3, <1>4, <1>5
<1>11. HandedBehind' /\ HandedOnceInOrder'
  <2>1. Reached' = Reached
    BY <1>1, <1>10 DEF Reached
  <2> QED BY <1>1, <2>1 DEF SInv, HandedBehind, HandedOnceInOrder
<1>12. SettledTo(client.next - Len(batch))' /\ SettledTo(file.since)'
  BY <1>1, <1>10 DEF SInv, SettledTo
<1> QED BY <1>6, <1>7, <1>8, <1>9, <1>11, <1>12 DEF SInv

\* Whatever a callback makes of its event, the next one is the next event.
LEMMA CallbackFacts ==
  ASSUME SInv, NEW as \in Fates \ {"open"}, Callback(as)
  PROVE  LET h == Head(batch) IN
         /\ h = client.next - Len(batch) + 1 /\ h \in 1..Len(room)
         /\ EventTypes' \/ handed' # handed
         /\ fate' \in Seq(Fates) /\ Len(fate') = Len(room)
         /\ SessionTypes' /\ BatchIsRun' /\ FileFits' /\ LoginsPaid'
         /\ SettledTo(client.next - Len(batch))' /\ SettledTo(file.since)'
         /\ Reached = h - 1 /\ Reached' = h
<1> DEFINE h == Head(batch)
           n == Len(batch)
<1>1. /\ stage = "dispatch" /\ batch # <<>> /\ batch' = Tail(batch)
      /\ Settle({h}, as)
      /\ UNCHANGED <<stage, env, file, client, room, issued, valid, unsaved, logins,
                     kills, stops, failures>>
  BY DEF Callback, server, bounds
<1>2. /\ n \in Nat \ {0} /\ client.next \in Nat /\ n <= client.next
      /\ client.next <= Len(room) /\ Len(room) \in Nat /\ batch \in Seq(Nat)
  <2>1. batch \in Seq(Nat)
    BY DEF SInv, BatchIsRun
  <2>2. n \in Nat \ {0}
    BY <1>1, <2>1, EmptySeq
  <2> HIDE DEF n
  <2> QED BY <2>1, <2>2, Numbers DEF n
<1>3. h = batch[1] /\ h = client.next - n + 1
  <2>1. h = batch[1]
    BY <1>1, <1>2
  <2>2. 1 \in 1..n
    BY <1>2
  <2>3. batch[1] = (client.next - n) + 1
    BY <2>2 DEF SInv, BatchIsRun
  <2> QED BY <2>1, <2>3
<1>4. /\ batch' \in Seq(Nat) /\ Len(batch') = n - 1
      /\ \A i \in 1..(n - 1) : batch'[i] = batch[i + 1]
  BY <1>1, <1>2, HeadTailProperties
<1>5. /\ fate' \in Seq(Fates) /\ Len(fate') = Len(room)
      /\ \A e \in 1..Len(room) : fate'[e] = IF e \in {h} THEN as ELSE fate[e]
  BY <1>1, SettleFacts DEF SInv
<1>6. \A i \in 1..n : batch[i] = (client.next - n) + i
  BY DEF SInv, BatchIsRun
<1> HIDE DEF h, n
<1>7. h \in 1..Len(room)
  BY <1>2, <1>3
<1>8. client'.next - Len(batch') = h /\ client.next - n = h - 1
  BY <1>1, <1>2, <1>3, <1>4
<1>9. BatchIsRun'
  <2>1. ASSUME NEW i \in 1..(n - 1) PROVE batch'[i] = h + i
    <3>1. i + 1 \in 1..n
      BY <1>2
    <3>2. batch'[i] = (client.next - n) + (i + 1)
      BY <1>4, <1>6, <3>1
    <3>3. \A a, b, c \in Nat : (a - b) + (c + 1) = (a - b + 1) + c
      OBVIOUS
    <3>4. i \in Nat /\ n \in Nat /\ client.next \in Nat
      BY <1>2
    <3> QED BY <1>3, <3>2, <3>3, <3>4
  <2>2. n - 1 <= client.next
    BY <1>2
  <2> QED BY <1>1, <1>4, <1>8, <2>1, <2>2 DEF BatchIsRun
<1>10. SessionTypes' /\ FileFits' /\ LoginsPaid'
  BY <1>1 DEF SInv, SessionTypes, FileFits, LoginsPaid
<1>11. Reached = h - 1 /\ Reached' = h
  BY <1>1, <1>8 DEF Reached, n
<1>12. SettledTo(client.next - Len(batch))' /\ SettledTo(file.since)'
  <2>1. \A e \in 1..Len(room) : e <= h - 1 => fate[e] # "open"
    BY <1>8 DEF SInv, SettledTo, n
  <2>2. \A e \in 1..Len(room) : e <= h => fate'[e] # "open"
    <3>1. \A e \in 1..Len(room) : e <= h => e = h \/ e <= h - 1
      BY <1>7
    <3> QED BY <1>5, <2>1, <3>1
  <2>3. \A e \in 1..Len(room) : e <= file.since => fate'[e] # "open"
    BY <1>5 DEF SInv, SettledTo
  <2> QED BY <1>1, <1>8, <2>2, <2>3 DEF SettledTo
<1>13. handed' = handed => EventTypes'
  BY <1>1, <1>5 DEF SInv, EventTypes
<1> QED BY <1>3, <1>5, <1>7, <1>9, <1>10, <1>11, <1>12, <1>13 DEF h, n

\* An event that is not handed over is dealt with in another way.
LEMMA DropStep == SInv /\ (Ignore \/ DownloadFails) => SInv'
<1> SUFFICES ASSUME SInv, NEW as \in {"ignored", "failed"}, Callback(as), handed' = handed
             PROVE  SInv'
  BY DEF Ignore, DownloadFails
<1> DEFINE h == Head(batch)
<1>1. as \in Fates \ {"open"}
  BY DEF Fates
<1>2. /\ h \in 1..Len(room) /\ EventTypes'
      /\ SessionTypes' /\ BatchIsRun' /\ FileFits' /\ LoginsPaid'
      /\ SettledTo(client.next - Len(batch))' /\ SettledTo(file.since)'
      /\ Reached = h - 1 /\ Reached' = h
  BY <1>1, CallbackFacts
<1>3. unsaved' = unsaved /\ ToSet(handed) \subseteq 1..Len(room)
  BY DEF Callback, SInv, EventTypes
<1> HIDE DEF h
<1>4. HandedBehind' /\ HandedOnceInOrder'
  <2>1. \A e \in 1..Len(room) : e <= h - 1 => e <= h
    BY <1>2
  <2> QED BY <1>2, <1>3, <2>1 DEF SInv, HandedBehind, HandedOnceInOrder
<1> QED BY <1>2, <1>4 DEF SInv

\* An event that is handed over comes after all that were, but those which a
\* crash made the server deliver again.
LEMMA HandOverStep == SInv /\ HandOver => SInv'
<1> SUFFICES ASSUME SInv, HandOver PROVE SInv'
  OBVIOUS
<1> DEFINE h == Head(batch)
           n == Len(handed)
<1>1. "handed" \in Fates \ {"open"} /\ Callback("handed") /\ handed' = Append(handed, h)
  BY DEF Fates, HandOver
<1>2. /\ h \in 1..Len(room)
      /\ fate' \in Seq(Fates) /\ Len(fate') = Len(room)
      /\ SessionTypes' /\ BatchIsRun' /\ FileFits' /\ LoginsPaid'
      /\ SettledTo(client.next - Len(batch))' /\ SettledTo(file.since)'
      /\ Reached = h - 1 /\ Reached' = h
  BY <1>1, CallbackFacts
<1>3. /\ unsaved' = unsaved /\ room' = room /\ Len(room) \in Nat
      /\ handed \in Seq(Nat) /\ ToSet(handed) \subseteq 1..Len(room)
  BY <1>1, Numbers DEF Callback, SInv, EventTypes, server
<1> HIDE DEF h
<1>4. /\ n \in Nat /\ handed' \in Seq(Nat) /\ Len(handed') = n + 1
      /\ \A i \in 1..n : handed'[i] = handed[i]
      /\ handed'[n + 1] = h
      /\ DOMAIN handed = 1..n /\ DOMAIN handed' = 1..(n + 1)
  <2>1. h \in Nat
    BY <1>2
  <2>2. handed' \in Seq(Nat) /\ n \in Nat
    BY <1>1, <1>3, <2>1, LenProperties
  <2>3. Len(handed') = n + 1 /\ (\A i \in 1..n : handed'[i] = handed[i]) /\ handed'[n + 1] = h
    BY <1>1, <1>3, <2>1, <2>2, AppendProperties
  <2> QED BY <1>3, <2>2, <2>3, LenProperties
<1> HIDE DEF n
<1>5. ToSet(handed') = ToSet(handed) \cup {h}
  <2>1. 1..(n + 1) = 1..n \cup {n + 1}
    BY <1>4
  <2> QED BY <1>4, <2>1 DEF ToSet
<1>6. EventTypes'
  BY <1>2, <1>3, <1>4, <1>5 DEF SInv, EventTypes
<1>7. HandedBehind'
  <2>1. \A e \in 1..Len(room) : e <= h - 1 => e <= h
    BY <1>2
  <2> QED BY <1>2, <1>3, <1>5, <2>1 DEF SInv, HandedBehind
<1>8. HandedOnceInOrder'
  <2> SUFFICES ASSUME NEW i \in 1..(n + 1), NEW j \in 1..(n + 1), i < j,
                      handed'[j] <= handed'[i]
               PROVE  handed'[i] \in unsaved
    BY <1>3, <1>4 DEF HandedOnceInOrder
  <2>1. i \in 1..n
    BY <1>4
  <2>2. handed'[i] = handed[i] /\ handed[i] \in ToSet(handed)
    BY <1>4, <2>1 DEF ToSet
  <2>3. CASE j \in 1..n
    BY <1>4, <2>1, <2>3 DEF SInv, HandedOnceInOrder
  <2>4. CASE j = n + 1
    <3>1. h <= handed[i] /\ handed[i] \in 1..Len(room)
      BY <1>3, <1>4, <2>2, <2>4
    <3>2. ~(handed[i] <= h - 1)
      BY <1>2, <3>1
    <3> QED BY <1>2, <2>2, <3>2 DEF SInv, HandedBehind
  <2> QED BY <1>4, <2>3, <2>4
<1> QED BY <1>2, <1>6, <1>7, <1>8 DEF SInv

(***************************************************************************)
(* The end of a process, and the world                                     *)
(***************************************************************************)

LEMMA NoClientFacts ==
  ASSUME NEW n \in Nat
  PROVE  NoClient \in Clients(n) /\ NoClient.next = 0
BY DEF NoClient, Clients

\* stop() settles the batch that its token covers.
LEMMA StopStep == SInv /\ Stop => SInv'
<1> SUFFICES ASSUME SInv, Stop PROVE SInv'
  OBVIOUS
<1> DEFINE n == Len(room)
           cut == {batch[i] : i \in DOMAIN batch}
<1>1. /\ stage \notin {"down", "login", "whoami"} /\ stage' = "down"
      /\ stops < MaxStops /\ stops' = stops + 1
      /\ file' = Saved(file, client.next) /\ batch' = <<>> /\ Settle(cut, "cut")
      /\ client' = NoClient
      /\ UNCHANGED <<env, room, issued, valid, handed, unsaved, logins, kills, failures>>
  BY DEF Stop, server
<1>2. /\ n \in Nat /\ Len(batch) \in Nat /\ client.next \in 0..n
      /\ Len(batch) <= client.next /\ file \in Files(n) /\ file.since \in Nat
      /\ (~Usable(file) => file.since = 0)
  BY Numbers
<1>3. /\ file' \in Files(n) /\ (Usable(file') <=> Usable(file))
      /\ file'.since = IF client.next # 0 /\ Usable(file) THEN client.next ELSE file.since
  BY <1>1, <1>2, SavedFile
<1>4. client' \in Clients(n) /\ client'.next = 0 /\ Len(batch') = 0 /\ batch' \in Seq(Nat)
  BY <1>1, <1>2, NoClientFacts
<1>5. /\ fate' \in Seq(Fates) /\ Len(fate') = n
      /\ \A e \in 1..n : fate'[e] = IF e \in cut THEN "cut" ELSE fate[e]
  BY <1>1, SettleFacts DEF SInv, Fates
<1>6. \A e \in 1..n : e <= client.next => e \in cut \/ e <= client.next - Len(batch)
  <2> SUFFICES ASSUME NEW e \in 1..n, e <= client.next, ~(e <= client.next - Len(batch))
               PROVE  e \in cut
    OBVIOUS
  <2> DEFINE i == e - (client.next - Len(batch))
  <2>1. i \in 1..Len(batch) /\ (client.next - Len(batch)) + i = e
    BY <1>2
  <2> HIDE DEF i
  <2>2. batch[i] = e /\ DOMAIN batch = 1..Len(batch)
    BY <2>1, LenProperties DEF SInv, BatchIsRun
  <2> QED BY <2>1, <2>2
<1> HIDE DEF cut, n
<1>7. EventTypes'
  BY <1>1, <1>5 DEF SInv, EventTypes, n
<1>8. SessionTypes'
  <2>1. stops' \in 0..MaxStops
    <3>1. stops \in 0..MaxStops /\ MaxStops \in Nat
      BY DEF SInv, SessionTypes
    <3> QED BY <1>1, <3>1
  <2> QED BY <1>1, <1>3, <1>4, <2>1 DEF SInv, SessionTypes, Connected, n
<1>9. BatchIsRun' /\ FileFits'
  BY <1>1, <1>4 DEF BatchIsRun, FileFits, Connected
<1>10. LoginsPaid'
  BY <1>1, <1>3 DEF SInv, LoginsPaid
<1>11. file'.since \in {client.next, file.since}
       /\ client.next - Len(batch) <= file'.since
  <2>1. CASE client.next = 0
    BY <1>2, <1>3, <2>1
  <2>2. CASE client.next # 0 /\ Usable(file)
    BY <1>2, <1>3, <2>2
  <2>3. CASE client.next # 0 /\ ~Usable(file)
    <3>1. stage = "refused"
      BY <1>1, <2>3 DEF SInv, FileFits, SessionTypes
    <3> QED BY <1>2, <2>3, <3>1 DEF SInv, FileFits
  <2> QED BY <2>1, <2>2, <2>3
<1>12. SettledTo(client.next - Len(batch))' /\ SettledTo(file.since)'
  <2>1. \A e \in 1..n : e <= client.next \/ e <= file.since => fate'[e] # "open"
    BY <1>5, <1>6 DEF SInv, SettledTo, n
  <2>2. \A e \in 1..n : ~(e <= client'.next - Len(batch'))
    BY <1>2, <1>4
  <2> QED BY <1>1, <1>11, <2>1, <2>2 DEF SettledTo, n
<1>13. HandedBehind' /\ HandedOnceInOrder'
  <2>1. Reached' = file'.since /\ Reached = client.next - Len(batch)
    BY <1>1 DEF Reached
  <2>2. ToSet(handed) \subseteq 1..n /\ file'.since \in Nat
    BY <1>2, <1>11 DEF SInv, EventTypes, n
  <2>3. \A e \in 1..n : e <= Reached => e <= Reached'
    BY <1>2, <1>11, <2>1, <2>2
  <2> QED BY <1>1, <2>2, <2>3 DEF SInv, HandedBehind, HandedOnceInOrder
<1> QED BY <1>7, <1>8, <1>9, <1>10, <1>12, <1>13 DEF SInv

\* A crash: what it leaves in the file decides what is handed over again.
LEMMA DieStep ==
  ASSUME SInv, NEW left \in Files(Len(room)), left.since \in {0, file.since}, GoDown(left),
         issued' \in 0..MaxTokens, valid' \subseteq 1..issued', logins' \in Nat,
         UNCHANGED <<env, room, handed, fate, stops, failures>>,
         logins' + (IF Usable(left) THEN 0 ELSE 1) <= 2 + kills
  PROVE  SInv'
<1> DEFINE n == Len(room)
<1>1. /\ kills < MaxKills /\ kills' = kills + 1 /\ file' = left
      /\ unsaved' = unsaved \cup {e \in ToSet(handed) : left.since < e}
      /\ stage' = "down" /\ client' = NoClient /\ batch' = <<>>
  BY DEF GoDown
<1>2. n \in Nat /\ left.since \in Nat /\ file.since \in Nat
  BY Numbers
<1>3. client' \in Clients(n) /\ client'.next = 0 /\ Len(batch') = 0 /\ batch' \in Seq(Nat)
  BY <1>1, <1>2, NoClientFacts
<1>4. ToSet(handed) \subseteq 1..n /\ unsaved \subseteq 1..n
  BY DEF SInv, EventTypes
<1>5. kills \in 0..MaxKills /\ kills' \in 0..MaxKills
  <2>1. kills \in 0..MaxKills /\ MaxKills \in Nat
    BY DEF SInv, SessionTypes
  <2> QED BY <1>1, <2>1
<1> HIDE DEF n
<1>6. EventTypes'
  BY <1>1, <1>4 DEF SInv, EventTypes, n
<1>7. SessionTypes'
  BY <1>1, <1>3, <1>5 DEF SInv, SessionTypes, Connected, n
<1>8. BatchIsRun' /\ FileFits'
  BY <1>1, <1>3 DEF BatchIsRun, FileFits, Connected
<1>9. LoginsPaid'
  <2>1. kills \in Nat /\ 1 + kills' = 2 + kills
    BY <1>1, <1>5
  <2> QED BY <1>1, <2>1 DEF LoginsPaid
<1>10. SettledTo(client.next - Len(batch))' /\ SettledTo(file.since)'
  <2>1. \A e \in 1..n : ~(e <= client'.next - Len(batch')) /\ ~(e <= 0)
    BY <1>2, <1>3
  <2>2. \A e \in 1..n : e <= file.since => fate[e] # "open"
    BY DEF SInv, SettledTo, n
  <2> QED BY <1>1, <2>1, <2>2 DEF SettledTo, n
<1>11. HandedBehind'
  <2>1. Reached' = left.since
    BY <1>1 DEF Reached
  <2>2. \A e \in 1..n : ~(left.since < e) => e <= left.since
    BY <1>2
  <2> QED BY <1>1, <1>4, <2>1, <2>2 DEF HandedBehind
<1>12. HandedOnceInOrder'
  BY <1>1 DEF SInv, HandedOnceInOrder
<1> QED BY <1>6, <1>7, <1>8, <1>9, <1>10, <1>11, <1>12 DEF SInv

LEMMA KillStep == SInv /\ (Kill \/ KillInWrite) => SInv'
<1>1. ASSUME SInv, Kill PROVE SInv'
  <2>1. /\ file \in Files(Len(room)) /\ GoDown(file)
        /\ issued' \in 0..MaxTokens /\ valid' \subseteq 1..issued' /\ logins' \in Nat
        /\ UNCHANGED <<env, room, handed, fate, stops, failures>>
    BY <1>1 DEF SInv, SessionTypes, Kill, server
  <2>2. logins' + (IF Usable(file) THEN 0 ELSE 1) <= 2 + kills
    <3>1. logins' = logins /\ logins \in Nat /\ kills \in Nat
      BY <1>1 DEF SInv, SessionTypes, Kill
    <3> QED BY <1>1, <3>1 DEF SInv, LoginsPaid
  <2> QED BY <1>1, <2>1, <2>2, DieStep
<1>2. ASSUME SInv, KillInWrite PROVE SInv'
  <2>1. /\ GoDown(Torn) /\ UNCHANGED <<env, room, handed, fate, stops, failures>>
        /\ Torn \in Files(Len(room)) /\ ~Usable(Torn) /\ Torn.since \in {0, file.since}
    BY <1>2, Numbers, EmptyFiles DEF KillInWrite
  <2>2. logins \in Nat /\ kills \in Nat /\ issued \in 0..MaxTokens /\ valid \subseteq 1..issued
    BY <1>2 DEF SInv, SessionTypes
  <2>3. CASE stage = "login" /\ Issue /\ logins' = logins + 1
    <3>1. issued' \in 0..MaxTokens /\ valid' \subseteq 1..issued'
      BY <1>2, <2>3, IssueFacts
    <3>2. logins + 1 <= 1 + kills
      BY <1>2, <2>3 DEF SInv, FileFits, LoginsPaid
    <3>3. logins' \in Nat /\ logins' + (IF Usable(Torn) THEN 0 ELSE 1) <= 2 + kills
      BY <2>1, <2>2, <2>3, <3>2
    <3> QED BY <1>2, <2>1, <3>1, <3>3, DieStep
  <2>4. CASE UNCHANGED <<issued, valid, logins>>
    <3>1. logins + 1 <= 2 + kills
      BY <1>2, <2>2 DEF SInv, LoginsPaid
    <3>2. logins' \in Nat /\ logins' + (IF Usable(Torn) THEN 0 ELSE 1) <= 2 + kills
      BY <2>1, <2>2, <2>4, <3>1
    <3>3. issued' \in 0..MaxTokens /\ valid' \subseteq 1..issued'
      BY <2>2, <2>4
    <3> QED BY <1>2, <2>1, <3>2, <3>3, DieStep
  <2> QED BY <1>2, <2>3, <2>4 DEF KillInWrite
<1> QED BY <1>1, <1>2

LEMMA SendStep == SInv /\ (\E k \in Kinds : Send(k)) => SInv'
<1> SUFFICES ASSUME SInv, NEW k \in Kinds, Send(k) PROVE SInv'
  OBVIOUS
<1> DEFINE n == Len(room)
<1>1. /\ n < MaxEvents /\ room' = Append(room, k) /\ fate' = Append(fate, "open")
      /\ UNCHANGED <<stage, env, file, client, issued, valid, batch, handed, unsaved,
                     logins, kills, stops, failures>>
  BY DEF Send, bounds
<1>2. /\ room \in Seq(Kinds) /\ fate \in Seq(Fates) /\ Len(fate) = n /\ n \in Nat
      /\ "open" \in Fates
  BY Numbers DEF SInv, EventTypes, Fates
<1>3. /\ room' \in Seq(Kinds) /\ Len(room') = n + 1
      /\ fate' \in Seq(Fates) /\ Len(fate') = n + 1
      /\ \A e \in 1..n : fate'[e] = fate[e]
  <2> HIDE DEF Kinds, Fates
  <2> QED BY <1>1, <1>2, AppendProperties
<1>4. /\ Files(n) \subseteq Files(n + 1) /\ Clients(n) \subseteq Clients(n + 1)
      /\ 1..n \subseteq 1..(n + 1)
  BY <1>2, FilesGrow
<1>5. EventTypes'
  <2>1. n + 1 <= MaxEvents
    BY <1>1, <1>2
  <2> QED BY <1>1, <1>3, <1>4, <2>1 DEF SInv, EventTypes
<1>6. SessionTypes'
  BY <1>1, <1>3, <1>4 DEF SInv, SessionTypes
<1>7. BatchIsRun' /\ FileFits' /\ LoginsPaid'
  BY <1>1 DEF SInv, BatchIsRun, FileFits, LoginsPaid
<1>8. HandedBehind' /\ HandedOnceInOrder'
  BY <1>1 DEF SInv, HandedBehind, HandedOnceInOrder, Reached
<1>9. SettledTo(client.next - Len(batch))' /\ SettledTo(file.since)'
  <2>1. client.next - Len(batch) <= n /\ file.since <= n
        /\ client.next - Len(batch) \in Int /\ file.since \in Int
    BY Numbers
  <2>2. \A m \in Int : \A e \in 1..(n + 1) : m <= n /\ e <= m => e \in 1..n
    BY <1>2
  <2> QED BY <1>1, <1>3, <2>1, <2>2 DEF SInv, SettledTo
<1> QED BY <1>5, <1>6, <1>7, <1>8, <1>9 DEF SInv

LEMMA AccountStep == SInv /\ (LogOut \/ Renew) => SInv'
<1>1. ASSUME SInv, LogOut PROVE SInv'
  <2>1. SessionTypes'
    BY <1>1 DEF SInv, SessionTypes, LogOut, bounds
  <2> QED BY <1>1, <2>1, Still DEF LogOut, bounds
<1>2. ASSUME SInv, Renew PROVE SInv'
  <2>1. /\ issued' \in 0..MaxTokens /\ valid' \subseteq 1..issued' /\ issued + 1 \in Tokens
    BY <1>2, IssueFacts DEF Renew
  <2>2. env' \in [password : BOOLEAN, token : {NoToken} \cup Tokens]
    BY <1>2, <2>1 DEF SInv, SessionTypes, Renew
  <2>3. SessionTypes'
    BY <1>2, <2>1, <2>2 DEF SInv, SessionTypes, Renew, bounds
  <2> QED BY <1>2, <2>3, Still DEF Renew, bounds
<1> QED BY <1>1, <1>2

LEMMA SessionStep == SInv /\ [Next]_vars => SInv'
<1>1. SInv /\ UNCHANGED vars => SInv'
  <2> SUFFICES ASSUME SInv, UNCHANGED vars PROVE SInv'
    OBVIOUS
  <2>1. SessionTypes'
    BY DEF SInv, SessionTypes, vars
  <2> QED BY <2>1, Still DEF vars
<1>2. SInv /\ Startup => SInv'
  BY RestoreStep, AuthenticateStep, LoginStep, StageStep, SaveStep, InitialSyncStep DEF Startup
<1>3. SInv /\ Loop => SInv'
  BY SyncReturnsStep, StageStep, SaveStep, DropStep, HandOverStep DEF Loop
<1>4. SInv /\ World => SInv'
  BY SendStep, AccountStep DEF World
<1> QED BY <1>1, <1>2, <1>3, <1>4, StopStep, KillStep DEF Next, Idle

LEMMA SessionHolds == Spec => []SInv
BY SessionInit, SessionStep, PTL DEF Spec

(***************************************************************************)
(* The theorems                                                            *)
(***************************************************************************)

\* Whatever the credentials file holds, whatever fails and whenever the
\* connector is stopped or killed: an event that the token in memory or the
\* one in the file covers has been dealt with, or is in the batch.
THEOREM TokensNeverRunAhead == Spec => []TokensSettled
<1>1. SInv => TokensSettled
  <2> SUFFICES ASSUME SInv PROVE TypeOK /\ NothingSlips /\ SavedTokenIsSettled
    BY DEF TokensSettled
  <2> DEFINE n == Len(room)
  <2>1. /\ n \in Nat /\ Len(batch) \in Nat /\ client.next \in Nat /\ client.next <= n
        /\ Len(batch) <= client.next /\ Events = 1..n /\ DOMAIN batch = 1..Len(batch)
    <3>1. Events = 1..n
      <4> HIDE DEF Kinds
      <4> QED BY LenProperties DEF SInv, EventTypes, Events
    <3>2. DOMAIN batch = 1..Len(batch)
      BY LenProperties DEF SInv, BatchIsRun
    <3> QED BY <3>1, <3>2, Numbers
  <2>2. \A e \in 1..n : e <= client.next => e \in ToSet(batch) \/ e <= client.next - Len(batch)
    <3> SUFFICES ASSUME NEW e \in 1..n, e <= client.next, ~(e <= client.next - Len(batch))
                 PROVE  e \in ToSet(batch)
      OBVIOUS
    <3> DEFINE i == e - (client.next - Len(batch))
    <3>1. i \in 1..Len(batch) /\ (client.next - Len(batch)) + i = e
      BY <2>1
    <3> HIDE DEF i
    <3>2. batch[i] = e
      BY <3>1 DEF SInv, BatchIsRun
    <3> QED BY <2>1, <3>1, <3>2 DEF ToSet
  <2>3. ToSet(batch) \subseteq 1..n
    <3> SUFFICES ASSUME NEW i \in 1..Len(batch) PROVE batch[i] \in 1..n
      BY <2>1 DEF ToSet
    <3>1. batch[i] = (client.next - Len(batch)) + i
      BY DEF SInv, BatchIsRun
    <3> QED BY <2>1, <3>1
  <2> HIDE DEF n
  <2>4. DOMAIN fate = 1..n /\ ToSet(fate) \subseteq Fates
    <3>1. DOMAIN fate = 1..n /\ \A e \in 1..n : fate[e] \in Fates
      <4> HIDE DEF Fates
      <4> QED BY LenProperties, ElementOfSeq DEF SInv, EventTypes, n
    <3> QED BY <3>1 DEF ToSet
  <2>5. TypeOK
    <3>1. client.token \in Tokens \cup {NoToken} /\ client.next \in 0..n
      BY DEF SInv, SessionTypes, Clients, n
    <3>2. valid \subseteq 1..issued /\ issued <= MaxTokens
          /\ kills <= MaxKills /\ stops <= MaxStops /\ failures <= MaxRaises
      BY DEF SInv, SessionTypes
    <3>3. ToSet(batch) \cup ToSet(handed) \cup unsaved \subseteq Events
      BY <2>1, <2>3 DEF SInv, EventTypes, n
    <3>4. /\ stage \in {"down", "login", "whoami", "initial", "refused"} \cup Connected
          /\ env \in [password : BOOLEAN, token : {NoToken} \cup Tokens]
          /\ file \in {Absent, Torn, Partial} \cup {Full(t, k) : t \in Tokens, k \in 0..Len(room)}
          /\ stage \in {"initial"} \cup Connected => client.token # NoToken
          /\ room \in Seq(Kinds) /\ Len(room) <= MaxEvents
      BY DEF SInv, EventTypes, SessionTypes, Files
    <3> QED BY <2>1, <2>4, <3>1, <3>2, <3>3, <3>4 DEF TypeOK, n
  <2>6. NothingSlips
    BY <2>1, <2>2 DEF NothingSlips, SInv, SettledTo, n
  <2>7. SavedTokenIsSettled
    BY <2>1 DEF SavedTokenIsSettled, SInv, SettledTo, n
  <2> QED BY <2>5, <2>6, <2>7
<1> QED BY <1>1, SessionHolds, PTL

\* Events reach the queue in the order of the room, and twice only if a crash
\* kept the token of their batch from being saved.
THEOREM EventsComeInOrder == Spec => []HandedOnceInOrder
BY SessionHolds, PTL DEF SInv

\* The connector makes one device, and another one at most for each crash.
THEOREM CrashesCostDevices == Spec => []DevicesKept
<1>1. SInv => DevicesKept
  <2> SUFFICES ASSUME SInv PROVE DevicesKept
    OBVIOUS
  <2>1. logins \in Nat /\ kills \in Nat
    BY DEF SInv, SessionTypes
  <2> QED BY <2>1 DEF SInv, LoginsPaid, DevicesKept
<1> QED BY <1>1, SessionHolds, PTL

=============================================================================

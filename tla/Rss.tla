-------------------------------- MODULE Rss --------------------------------
(***************************************************************************)
(* The RSS poller: rss_poll_loop seeds a feed at the start of the process  *)
(* and then polls it; rss_cleanup_loop deletes rows of rss_seen_items that *)
(* are older than 90 days.  Each database call is a transaction of its     *)
(* own.  There is one feed; an item stands for its guid, and the order of  *)
(* a feed's entries is left open.                                          *)
(***************************************************************************)
EXTENDS Injection

CONSTANTS Items,
          MaxAged,     \* bound on rows that get older than 90 days
          MaxFailures  \* bound on fetches and transactions that fail

NoItem == "no item"

ASSUME RssAssumption ==
  MaxAged \in Nat /\ MaxFailures \in Nat /\ NoItem \notin Items

VARIABLES
  listed,      \* what the feed lists
  seen,        \* rss_seen_items
  loop,        \* the await rss_poll_loop is in
  todo,        \* entries of the parsed feed that are still to be visited
  item,        \* the entry being visited
  given,       \* history: how often an item was injected
  seeded,      \* history: items a seed has marked
  fresh,       \* history: items published while this process polls
  aged,        \* history: how often a row got too old
  faults

rssVars == <<listed, seen, loop, todo, item, given, seeded,
             fresh, aged, faults>>

history == <<given, seeded, fresh, aged>>

RssInit ==
  /\ listed \in SUBSET Items
  /\ seen = {}
  /\ loop = "off"
  /\ todo = {}
  /\ item = NoItem
  /\ given = [i \in Items |-> 0]
  /\ seeded = {}
  /\ fresh = {}
  /\ aged = [i \in Items |-> 0]
  /\ faults = 0

-----------------------------------------------------------------------------
(* The seed *)

SeedFetched ==
  /\ loop = "seed"
  /\ todo' = listed
  /\ loop' = "seed mark"
  /\ UNCHANGED <<shared, listed, seen, item, history, faults>>

\* Fault: the transaction is not committed.
SeedUncommitted ==
  /\ loop = "seed mark"
  /\ seeded' = seeded \cup (todo \ seen)
  /\ todo' = {}
  /\ loop' = "sleep"
  /\ UNCHANGED <<shared, listed, seen, item, given, fresh, aged, faults>>

SeedMarked ==
  /\ loop = "seed mark"
  /\ seen' = seen \cup todo
  /\ seeded' = seeded \cup (todo \ seen)
  /\ todo' = {}
  /\ loop' = "sleep"
  /\ UNCHANGED <<shared, listed, item, given, fresh, aged, faults>>

-----------------------------------------------------------------------------
(* The poll *)

PollFetched ==
  /\ loop = "sleep"
  /\ todo' = listed
  /\ loop' = "visit"
  /\ UNCHANGED <<shared, listed, seen, item, history, faults>>

PollDone ==
  /\ loop = "visit"
  /\ todo = {}
  /\ loop' = "sleep"
  /\ UNCHANGED <<shared, listed, seen, todo, item, history, faults>>

\* Fault: the entry stays the current one when it was seen.
VisitKeeping(i) ==
  /\ loop = "visit"
  /\ i \in todo
  /\ todo' = todo \ {i}
  /\ item' = i
  /\ IF i \in seen THEN UNCHANGED loop ELSE loop' = "mark"
  /\ UNCHANGED <<shared, listed, seen, history, faults>>

\* Fault: the first entry that was seen ends the poll.
VisitUntilSeen(i) ==
  /\ loop = "visit"
  /\ i \in todo
  /\ todo' = IF i \in seen THEN {} ELSE todo \ {i}
  /\ IF i \in seen THEN UNCHANGED <<loop, item>> ELSE loop' = "mark" /\ item' = i
  /\ UNCHANGED <<shared, listed, seen, history, faults>>

\* _is_seen
Visit(i) ==
  /\ loop = "visit"
  /\ i \in todo
  /\ todo' = todo \ {i}
  /\ IF i \in seen THEN UNCHANGED <<loop, item>> ELSE loop' = "mark" /\ item' = i
  /\ UNCHANGED <<shared, listed, seen, history, faults>>

\* Fault: the whole feed is marked, not the one entry.
MarkAll ==
  /\ loop = "mark"
  /\ seen' = seen \cup listed
  /\ loop' = "reply"
  /\ UNCHANGED <<shared, listed, todo, item, history, faults>>

\* _mark_seen_bulk commits; its reply is still to come.
Mark ==
  /\ loop = "mark"
  /\ seen' = seen \cup {item}
  /\ loop' = "reply"
  /\ UNCHANGED <<shared, listed, todo, item, history, faults>>

\* Fault: a slow injection is repeated.
AnnounceAgain ==
  /\ loop = "reply"
  /\ Inject(<<"rss", item>>)
  /\ given' = [given EXCEPT ![item] = IF @ < 3 THEN @ + 1 ELSE @]
  /\ UNCHANGED <<listed, seen, loop, todo, item, seeded, fresh, aged, faults>>

Announce ==
  /\ loop = "reply"
  /\ Inject(<<"rss", item>>)
  /\ given' = [given EXCEPT ![item] = @ + 1]
  /\ fresh' = fresh \ {item}
  /\ item' = NoItem
  /\ loop' = "visit"
  /\ UNCHANGED <<listed, seen, todo, seeded, aged, faults>>

\* An item that is marked and will not be announced.
Lost == IF loop = "reply" THEN {item} ELSE {}

\* The feed does not answer, or a transaction fails, or its reply is lost:
\* the seed or the poll of this feed is given up until the next poll.
Fail ==
  /\ loop \in {"seed", "seed mark", "sleep", "visit", "mark", "reply"}
  /\ faults < MaxFailures
  /\ faults' = faults + 1
  /\ fresh' = fresh \ Lost
  /\ loop' = "sleep"
  /\ todo' = {}
  /\ item' = NoItem
  /\ UNCHANGED <<shared, listed, seen, given, seeded, aged>>

-----------------------------------------------------------------------------
(* The cleanup, and what goes on outside *)

\* rss_cleanup_loop, at the start and then every day: the rows that have
\* meanwhile got older than 90 days.
Cleanup ==
  /\ process = "up"
  /\ \E older \in SUBSET {i \in seen : aged[i] < MaxAged} \ {{}} :
       /\ seen' = seen \ older
       /\ aged' = [i \in Items |-> IF i \in older THEN aged[i] + 1 ELSE aged[i]]
  /\ UNCHANGED <<shared, listed, loop, todo, item, given, seeded, fresh, faults>>

Polling == loop \in {"sleep", "visit", "mark", "reply"}

\* An entry that leaves the feed is simply not looked at any more.
Publish(i) ==
  /\ i \notin listed
  /\ listed' = listed \cup {i}
  /\ fresh' = IF Polling THEN fresh \cup {i} ELSE fresh
  /\ UNCHANGED <<shared, seen, loop, todo, item, given, seeded, aged, faults>>

RssBoot ==
  /\ loop' = "seed"
  /\ UNCHANGED <<listed, seen, todo, item, history, faults>>

RssDie ==
  /\ loop' = "off"
  /\ todo' = {}
  /\ item' = NoItem
  /\ fresh' = {}
  /\ UNCHANGED <<listed, seen, given, seeded, aged, faults>>

Poller == SeedFetched \/ SeedMarked \/ PollFetched \/ PollDone
            \/ (\E i \in Items : Visit(i)) \/ Mark \/ Announce

RssNext ==
  \/ Poller
  \/ Fail
  \/ Cleanup
  \/ \E i \in Items : Publish(i)

-----------------------------------------------------------------------------
(* Properties *)

RssTypeOK ==
  /\ listed \cup seen \subseteq Items
  /\ loop \in {"off", "seed", "seed mark"} \cup {"sleep", "visit", "mark", "reply"}
  /\ todo \subseteq Items
  /\ item \in Items \cup {NoItem} /\ (item = NoItem <=> loop \notin {"mark", "reply"})
  /\ \A i \in Items : given[i] \in Nat /\ aged[i] \in 0..MaxAged
  /\ seeded \cup fresh \subseteq Items
  /\ faults \in 0..MaxFailures

\* "Mark seen before injecting to avoid double-firing": failures and restarts
\* included, an item is announced once, and once more only if its row got
\* old while the feed still listed it.
AnnouncedOnce == \A i \in Items : given[i] <= 1 + aged[i]

\* "Mark all current entries as seen without notifying": what the feed listed
\* when it was seeded is not announced as news.
BacklogIsSilent == \A i \in seeded : given[i] <= aged[i]

\* Marks come before injections, so an item can be lost: one item at most by
\* each failure or crash, and nothing else costs one.  All other items that
\* are marked were injected, are about to be, or were marked by a seed.
MarkedIsAnnounced ==
  Cardinality({i \in seen : given[i] = 0} \ (seeded \cup {item})) <= faults + deaths

\* What is published while the process polls is announced, however often a
\* poll fails, if its mark is not lost and the process lives.
NewsGetsThrough ==
  \A i \in Items : i \in fresh ~> i \notin fresh
=============================================================================

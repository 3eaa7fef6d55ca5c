---------------------------- MODULE MessageQueue ----------------------------
(***************************************************************************)
(* aineko.queue.MessageQueue: the debounced, single-room queue between the *)
(* Matrix callbacks and the message handler.                               *)
(*                                                                         *)
(* Everything runs on one asyncio event loop, so a step of this module is  *)
(* what the code does between two awaits.  A message is the number of its  *)
(* arrival; the debounce task that its enqueue() creates carries the same  *)
(* number.  The handler itself is abstract here: it may pull interjections *)
(* at any time and ends (by returning or by an exception, which _drain     *)
(* swallows) at any time.                                                  *)
(***************************************************************************)
EXTENDS Naturals, Sequences

CONSTANTS Kinds,          \* what enqueue() can tell about a message
          Interjectable,  \* kinds with a body and image_b64 = None
          Vision,         \* kinds with a non-empty image_b64
          MaxQueue,       \* the deque's maxlen
          MaxArrivals     \* bound on the messages of a behaviour

ASSUME KindsAssumption ==
  /\ Interjectable \subseteq Kinds
  /\ Vision \subseteq Kinds
  /\ Interjectable \cap Vision = {}

ASSUME BoundsAssumption ==
  /\ MaxQueue \in Nat \ {0}
  /\ MaxArrivals \in Nat

Messages == 1..MaxArrivals
Tasks    == Messages
NoTask   == 0

VARIABLES
  arrivals,      \* kinds of the messages enqueued so far, in order
  queue,         \* self._queue
  debounceTask,  \* self._debounce_task
  drain,         \* where each debounce task is
  waiters,       \* self._lock._waiters, oldest first
  holder,        \* the task inside "async with self._lock", or NoTask
  batch,         \* the holder's messages that no handler call has had yet
  turn,          \* the messages of the running handler call
  accepting,     \* self._active_interject is not None
  interject,     \* contents of the running call's interject queue
  handled,       \* history: messages passed to a handler call
  pulled,        \* history: messages the handler took as interjections
  evicted,       \* history: messages the full deque dropped
  abandoned      \* history: interjections left when their handler ended

turnVars == <<batch, turn, accepting, interject, handled>>
lockVars == <<waiters, holder>>
vars == <<arrivals, queue, debounceTask, drain, waiters, holder, batch, turn,
          accepting, interject, handled, pulled, evicted, abandoned>>

Elems(s) == {s[i] : i \in DOMAIN s}

IsVision(m) == arrivals[m] \in Vision

Init ==
  /\ arrivals = <<>>
  /\ queue = <<>>
  /\ debounceTask = NoTask
  /\ drain = [t \in Tasks |-> "none"]
  /\ waiters = <<>>
  /\ holder = NoTask
  /\ batch = <<>>
  /\ turn = <<>>
  /\ accepting = FALSE
  /\ interject = <<>>
  /\ handled = {}
  /\ pulled = {}
  /\ evicted = {}
  /\ abandoned = {}

-----------------------------------------------------------------------------
(* enqueue() *)

\* Text for a running turn goes to that turn and schedules nothing.
EnqueueInterject(k) ==
  /\ Len(arrivals) < MaxArrivals
  /\ accepting
  /\ k \in Interjectable
  /\ arrivals' = Append(arrivals, k)
  /\ interject' = Append(interject, Len(arrivals) + 1)
  /\ UNCHANGED <<queue, debounceTask, drain, waiters, holder, batch, turn,
                 accepting, handled, pulled, evicted, abandoned>>

\* Fault: a deque without maxlen.
UnboundedAppend(q, m) == Append(q, m)

\* Fault: appendleft() where append() is meant.
BoundedAppendLeft(q, m) == <<m>> \o IF Len(q) < MaxQueue THEN q ELSE Tail(q)

\* deque.append under maxlen: a full deque drops its oldest element.
BoundedAppend(q, m) == Append(IF Len(q) < MaxQueue THEN q ELSE Tail(q), m)

Overflow(q) == IF Len(q) < MaxQueue THEN {} ELSE {Head(q)}

\* Fault: a new task only where there was none to cancel.
CancelOrCreate(m) ==
  /\ debounceTask' = IF debounceTask = NoTask THEN m ELSE NoTask
  /\ drain' = [t \in Tasks |-> IF t = debounceTask THEN "cancelled"
                               ELSE IF t = debounceTask' THEN "sleeping"
                               ELSE drain[t]]

\* Task.cancel() of the previous debounce task and create_task of the next.
Reschedule(m) ==
  /\ debounceTask' = m
  /\ drain' = [t \in Tasks |-> IF t = m THEN "sleeping"
                               ELSE IF t = debounceTask THEN "cancelled"
                               ELSE drain[t]]

EnqueueQueued(k) ==
  /\ Len(arrivals) < MaxArrivals
  /\ ~(accepting /\ k \in Interjectable)
  /\ arrivals' = Append(arrivals, k)
  /\ queue' = BoundedAppend(queue, Len(arrivals) + 1)
  /\ evicted' = evicted \cup Overflow(queue)
  /\ Reschedule(Len(arrivals) + 1)
  /\ UNCHANGED <<lockVars, turnVars, pulled, abandoned>>

Enqueue(k) == EnqueueInterject(k) \/ EnqueueQueued(k)

-----------------------------------------------------------------------------
(* _drain() *)

\* Fault: the whole batch is merged, images included.
WholeBatch(r, n) == n = Len(r)

\* The first n messages of the non-empty batch r are its next group: one
\* image, or everything up to the next image.
IsGroup(r, n) ==
  \/ n = 1 /\ IsVision(r[1])
  \/ /\ \A i \in 1..n : ~IsVision(r[i])
     /\ n < Len(r) => IsVision(r[n + 1])

\* Fault: only the last message of a group reaches the handler.
StartTurnOnLast(r) ==
  \E n \in 1..Len(r) :
    /\ IsGroup(r, n)
    /\ turn' = <<r[n]>>
    /\ batch' = SubSeq(r, n + 1, Len(r))
    /\ handled' = handled \cup {r[n]}
    /\ accepting' = TRUE
    /\ interject' = <<>>

\* A handler call on the next group of r, with an interject queue of its own.
StartTurn(r) ==
  \E n \in 1..Len(r) :
    /\ IsGroup(r, n)
    /\ turn' = SubSeq(r, 1, n)
    /\ batch' = SubSeq(r, n + 1, Len(r))
    /\ handled' = handled \cup Elems(SubSeq(r, 1, n))
    /\ accepting' = TRUE
    /\ interject' = <<>>

\* Fault: the batch is copied and the queue not cleared.
TakeCopy(t) ==
  /\ queue # <<>>
  /\ holder' = t
  /\ StartTurn(queue)
  /\ drain' = [drain EXCEPT ![t] = "running"]
  /\ UNCHANGED queue

\* t got the lock: it empties the queue and starts the first turn.
TakeBatch(t) ==
  /\ queue # <<>>
  /\ holder' = t
  /\ queue' = <<>>
  /\ StartTurn(queue)
  /\ drain' = [drain EXCEPT ![t] = "running"]

\* Fault: an early return that leaves the lock held.
FindNothingKeepLock(t) ==
  /\ queue = <<>>
  /\ holder' = t
  /\ drain' = [drain EXCEPT ![t] = "done"]
  /\ UNCHANGED <<queue, turnVars>>

\* t got the lock and found nothing to do: it lets go at once.
FindNothing(t) ==
  /\ queue = <<>>
  /\ holder' = NoTask
  /\ drain' = [drain EXCEPT ![t] = "done"]
  /\ UNCHANGED <<queue, turnVars>>

LockFree == holder = NoTask /\ waiters = <<>>

\* Fault: _drain without its lock.
AcquireNothing(t) ==
  /\ TakeBatch(t) \/ FindNothing(t)
  /\ UNCHANGED waiters

\* asyncio.Lock.acquire() by t: immediate only if nobody holds or awaits it.
Acquire(t) ==
  \/ LockFree /\ (TakeBatch(t) \/ FindNothing(t)) /\ UNCHANGED waiters
  \/ /\ ~LockFree
     /\ waiters' = Append(waiters, t)
     /\ drain' = [drain EXCEPT ![t] = "waiting"]
     /\ UNCHANGED <<holder, queue, turnVars>>

\* Fault: a draining task stays registered as the debounce task.
WakeStillRegistered(t) ==
  /\ drain[t] = "sleeping"
  /\ Acquire(t)
  /\ UNCHANGED <<arrivals, debounceTask, pulled, evicted, abandoned>>

\* The debounce sleep of t is over: t stops being cancellable and drains.
Wake(t) ==
  /\ drain[t] = "sleeping"
  /\ debounceTask' = NoTask
  /\ Acquire(t)
  /\ UNCHANGED <<arrivals, pulled, evicted, abandoned>>

\* The oldest waiter, woken by the release, resumes as the lock's holder.
LockHandoff ==
  /\ holder = NoTask
  /\ waiters # <<>>
  /\ waiters' = Tail(waiters)
  /\ TakeBatch(Head(waiters)) \/ FindNothing(Head(waiters))
  /\ UNCHANGED <<arrivals, debounceTask, pulled, evicted, abandoned>>

\* The handler reads everything that has been interjected so far.
HandlerPull ==
  /\ accepting
  /\ interject # <<>>
  /\ pulled' = pulled \cup Elems(interject)
  /\ interject' = <<>>
  /\ UNCHANGED <<arrivals, queue, debounceTask, drain, lockVars, batch, turn,
                 accepting, handled, evicted, abandoned>>

\* The turn of t ends and another group of its batch is left.
NextTurn(t) ==
  /\ batch # <<>>
  /\ StartTurn(batch)
  /\ UNCHANGED <<queue, drain, lockVars>>

\* No turn runs any more.
StopTurns ==
  /\ turn' = <<>>
  /\ accepting' = FALSE
  /\ interject' = <<>>
  /\ UNCHANGED <<batch, handled>>

\* The batch of t is done.  t releases the lock and, if messages came in
\* meanwhile, drains again: at once, or behind the tasks that wait already.
FinishBatch(t) ==
  /\ batch = <<>>
  /\ \/ /\ waiters = <<>>
        /\ TakeBatch(t)
        /\ UNCHANGED waiters
     \/ /\ queue # <<>>
        /\ waiters # <<>>
        /\ StopTurns
        /\ holder' = NoTask
        /\ waiters' = Append(waiters, t)
        /\ drain' = [drain EXCEPT ![t] = "waiting"]
        /\ UNCHANGED queue
     \/ /\ queue = <<>>
        /\ StopTurns
        /\ holder' = NoTask
        /\ drain' = [drain EXCEPT ![t] = "done"]
        /\ UNCHANGED <<queue, waiters>>

\* The handler call returns or raises; what it did not pull is dropped with
\* its interject queue.
HandlerEnd(t) ==
  /\ holder = t
  /\ drain[t] = "running"
  /\ abandoned' = abandoned \cup Elems(interject)
  /\ NextTurn(t) \/ FinishBatch(t)
  /\ UNCHANGED <<arrivals, debounceTask, pulled, evicted>>

-----------------------------------------------------------------------------
Quiescent == /\ Len(arrivals) = MaxArrivals
             /\ \A t \in Tasks : drain[t] \in {"none", "cancelled", "done"}

\* Nothing more will arrive and no task is left.
Terminated == Quiescent /\ UNCHANGED vars

Next ==
  \/ \E k \in Kinds : Enqueue(k)
  \/ \E t \in Tasks : Wake(t) \/ HandlerEnd(t)
  \/ LockHandoff
  \/ HandlerPull
  \/ Terminated

Spec == Init /\ [][Next]_vars

\* Timers fire, a woken task is resumed, every handler call ends.
Fairness ==
  /\ \A t \in Tasks : WF_vars(Wake(t)) /\ WF_vars(HandlerEnd(t))
  /\ WF_vars(LockHandoff)

FairSpec == Spec /\ Fairness

-----------------------------------------------------------------------------
(* Properties *)

DrainStates == {"none", "sleeping", "cancelled", "waiting", "running", "done"}

\* Every variable has its type, and the deque never exceeds its maxlen.
TypeOK ==
  /\ arrivals \in Seq(Kinds) /\ Len(arrivals) <= MaxArrivals
  /\ queue \in Seq(Messages) /\ Len(queue) <= MaxQueue
  /\ debounceTask \in Tasks \cup {NoTask}
  /\ drain \in [Tasks -> DrainStates]
  /\ waiters \in Seq(Tasks)
  /\ holder \in Tasks \cup {NoTask}
  /\ batch \in Seq(Messages)
  /\ turn \in Seq(Messages)
  /\ accepting \in BOOLEAN
  /\ interject \in Seq(Messages)
  /\ handled \subseteq Messages
  /\ pulled \subseteq Messages
  /\ evicted \subseteq Messages
  /\ abandoned \subseteq Messages

\* Handler calls never overlap: at most one task is past the lock in _drain.
MutualExclusion ==
  \A s, t \in Tasks : drain[s] = "running" /\ drain[t] = "running" => s = t

\* No lost wakeup: while the deque holds a message, some task is still going
\* to look at it, whatever debounce task enqueue() has cancelled.
NoStrandedMessage ==
  queue # <<>> =>
    \E t \in Tasks : drain[t] \in {"sleeping", "waiting", "running"}

\* enqueue() only ever cancels a task that still sleeps, never one that has
\* gone on to drain and may be in the middle of an LLM request.
NoDrainCancelled ==
  [][\A t \in Tasks : drain'[t] = "cancelled" =>
                        drain[t] \in {"sleeping", "cancelled"}]_vars

Increasing(s) == \A i, j \in DOMAIN s : i < j => s[i] < s[j]

\* Messages that wait in the deque or the batch reach handler calls in their
\* order of arrival, across batches, groups and evictions.
DequeFIFO ==
  /\ Increasing(batch)
  /\ Increasing(queue)
  /\ \A m \in Elems(batch), n \in Elems(queue) : m < n
  /\ \A m \in handled, n \in Elems(batch) \cup Elems(queue) : m < n

Places == <<Elems(queue), Elems(batch), Elems(interject), handled, pulled,
            evicted, abandoned>>

\* Every message that arrived is in exactly one place: waiting, surfaced (in
\* a handler call or as an interjection), evicted or abandoned.  None is
\* handled twice and none vanishes in any other way.
ExactlyOneFate ==
  /\ UNION {Places[i] : i \in DOMAIN Places} = 1..Len(arrivals)
  /\ \A i, j \in DOMAIN Places : i # j => Places[i] \cap Places[j] = {}

\* An image gets a handler call of its own and is never interjected as text.
ImageGetsOwnTurn ==
  /\ \A i \in DOMAIN turn : IsVision(turn[i]) => Len(turn) = 1
  /\ \A m \in pulled : ~IsVision(m)

\* Every message that arrives is surfaced, evicted or abandoned in the end.
EventuallySettled ==
  \A m \in Messages :
    (m <= Len(arrivals)) ~> (m \in handled \cup pulled \cup evicted \cup abandoned)

\* The queue implements the mailbox: batch and deque are its backlog, the
\* interject queue its messages set aside.
Mail == INSTANCE Mailbox WITH
  count    <- Len(arrivals),
  backlog  <- batch \o queue,
  aside    <- interject,
  surfaced <- handled \cup pulled,
  lost     <- evicted \cup abandoned

\* Debouncing, locking, batching and re-draining are invisible: every step is
\* a mailbox step or none, and whatever waits gets its turn.
ImplementsMailbox == Mail!MailSpec

\* Turns are served one at a time, in the order of arrival, images alone, and
\* every message that arrived comes to exactly one end or still waits.
ServedInOrder ==
  TypeOK /\ MutualExclusion /\ DequeFIFO /\ ExactlyOneFate /\ ImageGetsOwnTurn
=============================================================================

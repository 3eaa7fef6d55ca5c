# A TLA+ model of aineko

aineko is a personal agent behind one Matrix room: messages come in through
matrix-nio callbacks, RSS and background tasks, a queue turns them into turns, a
turn is a loop of LLM requests and tool calls, and the conversation is kept in
Postgres. Everything runs on one asyncio event loop, in one process. The code is
Python (`src/aineko`); paths below are relative to the repository, and lines are
those `PROJECT.json` maps every definition to.

Because the event loop is cooperative, the hard behaviour lies between awaits: what
was read before one and is used after it, who else ran meanwhile, what an exception
at an await leaves behind. A step of every module here is what the code does between
two awaits.

## 1. Inventory

| Part | State it keeps | Operations | Talks to |
|---|---|---|---|
| Message queue (`queue.py`) | deque of at most 20 messages, lock, debounce task, the running turn's interject queue | `enqueue`, `_debounce_then_drain`, `_drain` | called by the Matrix callbacks, RSS and background tasks; calls `handle_message` |
| Gateway (`app.py`: `handle_message`, `handler.py`) | the locals of a turn, `sent_messages` | command check, load, compact, loop, send, persist | queue, agent loop, database, Matrix |
| Agent loop (`kimi/client.py`: `chat_loop`) | messages, rounds, checkpoint and nudge counters, interject queue | drain, chat, tool calls, checkpoint, exit gate | LLM, tools, `on_intermediate` |
| Tool calls of a turn (`kimi/client.py`, `messaging_dedupe.py`, `tools/messaging.py`, `tools/registry.py`) | recent calls, deduplicator, `sent_messages` | doom-loop check, duplicate check, run, track | tools, Matrix |
| Conversation store (`handler.py`, `compaction.py`, `context.py`, `models/message.py`) | sessions, messages, tool logs | load, compact, trim, persist, clear | Postgres, LLM (summaries) |
| Cron (`cron/`, `tools/cron.py`) | job and run tables, APScheduler's job store, snapshots of jobs | create, update, delete, fire, run, deliver | agent loop, Matrix, database |
| RSS (`rss/poller.py`) | seen items | seed, poll, inject, clean up | queue, database, the web |
| Matrix connector (`matrix/client.py`) | credentials file with sync token, callbacks, queue | start, sync, receive, send, stop | homeserver, queue |
| Background tasks (`tools/background_task.py`) | task records | spawn, finish, inject | shell, queue |
| Heartbeat (`heartbeat/`) | last response | tick, filter, deliver | agent loop, Matrix |
| Knowledge graph, memory (`memory/`) | facts, daily log files | add, invalidate, query | database, files |
| LLM transport (`kimi/client.py` 93-560) | `auth.json` with OAuth tokens, HTTP clients | request, parse, refresh | providers, the opencode program |
| Bootstrap files, skills, time zone (`bootstrap.py`, `skills/`, `time.py`) | caches by mtime, loaded skills, a watcher | load, reload, `create_skill` | the user's files, the system prompt |
| Subagent, file, web and search tools, configuration, database set-up, migrations | none to speak of | | |

What makes each part correct, and what is hard about it:

* **Message queue.** Handler calls never overlap; no message waits without a task
  that will drain it; order of arrival; nothing handled twice. Hard: `enqueue`
  cancels a task that may just have woken; several drains queue up behind the lock;
  interjection bypasses the deque; the deque drops silently.
* **Gateway.** An interjection is read by the turn it went to; a turn sees what
  earlier turns stored; commands are obeyed; every answer is sent. Hard: the queue
  interjects for as long as the handler call lasts, the loop listens for less; flags
  of one message govern a merged one; exceptions at every await.
* **Agent loop.** Tool calls are answered in the next message; the loop does not
  return past a pending interjection; it ends. Hard: interjections arrive at every
  await and are merged into whatever message is last; re-entry raises the ceiling.
* **Tool calls.** No doom loop, no text twice, and no refusal without reason. Hard:
  three senders share `sent_messages`, failures look like text.
* **Conversation store.** Exchanges stay whole in the table; rows go only with the
  summary that covers them; logs keep their message. Hard: deciding, summarising and
  writing are several LLM calls apart.
* **Cron.** One-shot jobs run once and vanish; what is scheduled is what the table
  says. Hard: rows and in-memory jobs diverge between two awaits.
* **Matrix connector.** Every message of the owner reaches the queue, once and in order,
  restarts included; the device survives. Hard: nio moves its token before the
  callbacks run, the file is rewritten in place, and an error is a return value.
* **RSS, background tasks.** News is announced once, a result reported once; both are
  heard. Hard: the mark precedes the announcement, rows expire, commands ignore signals
  and keep pipes open, and all of it is in one process's memory.
* **Bootstrap files, skills, time zone.** What is served is what is on disk. Hard: files
  change between `stat` and `read`, and one cache stands for two paths.
* **Knowledge graph, heartbeat.** A fact has one active row; the filter suppresses only
  what the room has got. Hard: check-then-insert in two sessions at once; a message of
  several sends whose refusals nobody looks at.
* **LLM transport.** A token is fresh when it is used, a refresh does not lose the login,
  and an answer is what the model said. Hard: several sessions and another program share
  one file, refresh tokens are good for one use, streams come in several forms.

The hazards, each at its line and with the properties that would show it going wrong,
are listed in `PROJECT.json`.

## 2. Modules

| Module | Models | Status |
|---|---|---|
| `Mailbox` | abstract: what the queue promises, two lanes of messages | done |
| `MessageQueue` | `queue.py`; implements `Mailbox` | done, proved in `MessageQueue_proofs` |
| `Gateway` | the queue with `handle_message` as its handler; EXTENDS and implements `MessageQueue` | done, proved in `MessageQueue_proofs` |
| `ChatLoop` | `chat_loop` | done, proved in `ChatLoop_proofs` |
| `ToolCalls` | the tool calls of a turn | done, proved in `ToolCalls_proofs` |
| `Conversation` | the stored conversation over many turns | done, proved in `Context_proofs` |
| `Cron` | job tables, scheduler, runs in flight, cron tools, restarts | done, proved in `Cron_proofs` |
| `MatrixSession` | credentials, login, sync loop, callbacks, crashes and restarts | done, proved in `Producers_proofs` |
| `Injection` | the process and the deque, as producers of synthetic messages see them | done |
| `Rss` | `rss/poller.py`; EXTENDS `Injection` | done |
| `BackgroundTask` | `background_task.py` and `run_bash`; EXTENDS `Injection` | done |
| `Background` | composes `Rss` and `BackgroundTask` in one process, on one queue | done, proved in `Producers_proofs` |
| `Workspace` | the in-memory copies of files: bootstrap file, time zone, skills | done, proved in `Context_proofs` |
| `Facts` | `facts_add` and `facts_invalidate` of concurrent sessions | done |
| `Heartbeat` | tick loop, delivery filter, chunks of a message | done |
| `Sessions` | composes `Heartbeat` and `Facts`: a heartbeat beside a turn | done, proved in `Sessions_proofs` |
| `CodexAuth` | `auth.json` under concurrent refreshes | done, proved in `Transport_proofs` |
| `ReplyStream` | how the events of a stream become an answer (operators only) | done, proved in `Transport_proofs` |
| `Transport` | composes `CodexAuth` and `ReplyStream`: a request as a whole | done, proved in `Transport_proofs` |

`MC<module>.tla` gives the constants values for TLC, where the cfg alone cannot.
Several properties are conjunctions of named parts, so that a run and its report say
what is checked about a subject and the parts stay readable (and provable) on their own:

| Property | Its parts |
|---|---|
| `ServedInOrder` | the types; handler calls exclude each other; the deque is in order of arrival; a message has exactly one fate; an image gets a turn of its own |
| `WellFormed` (`ChatLoop`) | the types; every tool call is answered by the next message; an interjection is merged or waiting, never both, never twice; user messages follow one another only where the loop adds a prompt behind results |
| `WellFormed` (`Conversation`) | the types; tool exchanges have both rows or none; logs belong to a row |
| `RecordsAgree` | the types; a job whose run is recorded as delivered was delivered; the failure counter counts |
| `TokensSettled` | the types; no event slips behind the client's token; none behind the file's |
| `RssAnnounces` | the types; announced once, a backlog never; what is marked and untold has been lost by a failure or a crash |
| `TasksReported` | the types; reported once; no process survives but a stubborn one |
| `Heard` | news gets through, results arrive (liveness) |
| `CachesAreFresh` | the types; a loader returns what its file said during the call; the skills are those on disk |
| `FactsConsistent` | the types; the row an answer names is active; two active rows need two overlapping adds |
| `FilterMatchesRoom` | the types; what is remembered was posted; no response twice in a row |
| `AllSettled` | every event is settled; a connector that listens handles what it gets (liveness) |
| `LoginKept` | the types; the refresh token in the file is usable or the reason is known; other providers' records survive |

Definitions introduced by a
comment "Fault:" are no part of a specification. Each is a plausible bug of the
definition that follows it; with it in place of that definition TLC finds a property
violated (the mutants of `PROJECT.json`).

### MessageQueue

A message is the number of its arrival; the debounce task its `enqueue` creates has
the same number. `drain[t]` says where that task is: `sleeping` in the 400 ms
debounce, `cancelled`, `waiting` for the lock, `running` inside it, `done`.
`holder` and `waiters` are the asyncio lock (external: it is fair, and grants itself
to a newcomer only if nobody waits). `batch` is what is left of the batch the holder
took, `turn` the messages of the handler call, `interject` its interject queue.
`EnqueueInterject` and `EnqueueQueued` are the two ends of `enqueue`; `Wake` is the end
of the sleep with the lock request behind it; `LockHandoff` the resumption of a
waiter; `HandlerEnd` the return or exception of the handler, followed by everything
up to the next await: the next group of the batch, or the release of the lock and the
recursive drain. Only what `enqueue` distinguishes is kept of a message: whether it
can be interjected (a body, and `image_b64 is None`) and whether it has an image.

`handled`, `pulled`, `evicted` and `abandoned` are history variables: the four ends a
message can come to.

### Gateway

EXTENDS `MessageQueue` and splits its handler call into `handle_message`'s awaits:
`load` (scope 1a, compaction and trimming), `loop` (inside `chat_loop`), `overtaken`
(`on_intermediate` sends an answer an interjection overtook), `send`, `store`
(scope 2), and `clear`, `confirm` for a command. `Finish` and `Raise` are
`HandlerEnd` of the queue. `chat_loop` is one stage here because `ChatLoop` shows what
matters of it: it drains its queue until it empty, and ends. What becomes of the messages of a turn is kept apart as the code does it: the row of
the user's message is committed when the conversation is loaded (`Record`), so a turn that raises keeps it;
`Finish` writes what the turn was about but for the interjections that were merged into a plain-string
prompt (`unwritten`: which they are is `ChatLoop`'s subject and arbitrary here), for which
`persist_response` writes no row; what a turn that raises has not written is in `failed`. Images, commands and messages with `suppress_text_response` are kinds.

### ChatLoop

`pc` is the await the loop is in: `chat`, `call`, `checkpoint`, `report` (the progress
update being sent), `summary` (the forced answer at the round limit), `answer`
(`on_intermediate`). The model's answers are arbitrary: any number of tool calls, a
text or none, thinking or none, an announcement that trips the intent guard.
`Interject` may happen at every await. A message keeps its role, whether its
content is a list of blocks or a plain string, its tool calls or results, and the
interjections merged in it, which is what persistence and the API contract tell apart.

### ToolCalls

The loop over `response.tool_calls`, across rounds: the doom-loop check against
`recent`, the deduplicator (`tracked`), the tool itself, with `sent` for
`sent_messages`; checkpoint reports and overtaken answers use `sent` too. Texts are
model values; `Overlaps` and `Long` stand for "one normalized text contains the other"
and for `MIN_DUPLICATE_LENGTH`. A send may fail, and a failed one
is tracked like any other, as in the code (`failed`).

### Conversation

The rows of the room's session over many turns. A turn loads (`Load`), may compact
(`Compact`, with the memory flush before it, which changes nothing here), trims,
chats, sends, and persists in one transaction (`Persist`); `Abort` is an exception, or
the end of the process, at any of these awaits. `Reset` is the clearing command. A row keeps its
id, role, tool exchange and, for a summary, the ids of the rows whose text the
summarizer was shown. `should_compact` compares the provider's token count of the
previous turn with the limit; the model leaves that open and keeps the condition on the
number of messages. What `chat_loop` returns is drawn from `Replies`: an answer, a tool
exchange and an answer, an answer overtaken by an interjection, an exchange without an
answer, nothing. A message of the user costs any of `UserCosts` tokens, also more than the budget.

### Cron

`rows`, `failures` and `records` are the two tables; `schedule` is APScheduler's job store
(in memory, with the snapshot `args=[job]`); `run[j]` is the one run of a job that
APScheduler allows at a time, `submitted`, in its `chat`, or in its `send`; `op` is the tool
call in progress, with the awaits between its commit, its refresh and the rescheduling;
`process` is whether the application runs. `now` counts in units of APScheduler's
misfire grace time: a date fires while it is `now` and is dropped later. PostgreSQL is
external, but its locks are part of the behaviour: a run inserts its row first and commits it last, and
as long as it does not, the foreign key keeps everybody from deleting the job. So
`Delete` waits for a run in its `chat`, and the run's commit decides how the wait ends
(`Unblock`), or the two deadlock over the job's older runs (`RunAborted`). A job whose expression
`add_job` refuses is of kind `invalid`.

### MatrixSession

`stage` is the await `start()` is in: `login`, `whoami`, `initial` (the initial sync),
`listening` in `client.sync`, `dispatch` between callbacks, `retry` in the five seconds
after an exception, `refused` after a start that ended early, `down` without a process. `file` is
`credentials.json`, whose state matters because it is rewritten in place: `Absent`,
`Torn` (not JSON), `Partial` (JSON without session), or `Full` with a session and
a `next_batch`. The room is a sequence of events and a sync token a position in it; the
homeserver (`issued`, `valid`, `Send`, `LogOut`) is external, and so is nio, which moves
`client.next` before it calls the callbacks one by one. `KillInWrite` is a crash inside `_save_next_batch`,
`Stop` the shutdown, which saves the token whatever callback it cancels. `fate` says what
became of every event: handed to the queue, ignored, failed in its callback, missed
before the callbacks were registered, cut off by a crash or a shutdown. `missed` is settled, not handled:
`EventsSettle` accepts it, `ListenersHandle` does not while the process lives.

### Background (Injection, Rss, BackgroundTask)

The poller's awaits are `seed`, `seed mark`, `sleep`, `visit`, `mark` and `reply`; a `Fail` at any of
them is what `except Exception` makes of a fetch or transaction that raises. An entry is marked before
it is injected (`Mark`, then `Announce`). `Cleanup` deletes rows that have aged, whether or not the
feed still lists them. A task is `start`ing its shell, in `communicate`, in the wait after
SIGTERM (`terminate`), in the second `communicate` after SIGKILL (`drain`), or done; its
process group is a shell and possibly a child that holds the pipe, each of which may ignore
SIGTERM. `Background` puts both in one process whose crash takes the deque, the tasks and the place of
the poll, and leaves `rss_seen_items`. What happens to a message in the queue is
`MessageQueue`'s subject; here the deque only fills, overflows and empties.

### Workspace

`reader` is the loader under way, with the system call it makes next and what it knows by then
(path, mtime); a user may write between any two of them, in the same tick of the clock but one
file not twice in a tick. `current` collects what the file said since the call began, `wrong` the
texts a loader returned that are not among them. A skill is absent, not
parseable, or good; `watch` is the watcher, `Reload` what it triggers. `missed` marks the one
gap the code has: a change after `load_all()` and before the watcher starts.

### Sessions (Facts, Heartbeat)

A tool call on the knowledge graph is a transaction: its SELECT (`Add`, `Invalidate`), then its one
write and its commit (`Commit`), or an error (`CallFails`). `overlap` remembers which facts two sessions
missed at the same time: with READ COMMITTED and no unique constraint these, and only these,
get two active rows. `Heartbeat` has the tick loop: `sleep`, `chat`, `send`. Texts are short sequences of
characters, because cutting a message at newlines (`_chunk_message`) is a conversion that
must not lose any; `ChunkSent` is one `room_send`, whose refusal the code does not look at.
`posted` is the last response the room got whole, against `last`, what the filter remembers.
`Sessions` composes the two: `heartbeat_tick_loop` never passes `agent_busy`, so a heartbeat and a turn
run at once.

### Transport (CodexAuth, ReplyStream)

A session of `CodexAuth` is `idle`, waits for new tokens (`refresh`), has them on their way
(`granted`), or has its request on its way (`request`). `Load` reads the file and decides;
`Grant` is the server's step, after which the old refresh token is used up; `Persist` writes
the file and sends the request in one go; `Fail` loses the answer; `Serve` is the request's
arrival. `Connect` and `EditOther` are the opencode program writing the same file, `Crash` the end of all sessions.
Time passes (`Tick`) as it likes, so answers and requests may take any time; `delay` and `refused`
remember how long a token and the request with it were under way. `ReplyStream` is pure: how the code folds
a stream, and what it parses out of that. A stream is all the events that there are to send of a reply
(deltas, items, a final response with the output or without) of which any may be missing: not sent, cut
off, or not JSON, which the code skips. An item's text has parts, and parts have pieces, because the code
joins deltas with nothing and parts with a newline. `Transport` joins an answer to the step that returns it.

## 3. Runs

| Run | Instance | Shows |
|---|---|---|
| `gateway` | 4 messages of 3 kinds (text, image, command), deque of 2 | the queue's invariants and action property with `handle_message` as the handler; late interjections are the only lost ones; turns see each other's rows, but for what a failure, a command or a prompt without a row takes; every message settles: the queue implements `Mailbox`, and `handle_message` is a handler as `MessageQueue` assumes it, fairness included |
| `chat_loop` | 2 interjections, up to 2 calls a response, checkpoint every 2 rounds, 1 round before the ceiling, 1 nudge | calls answered in the next message, user messages apart but for the loop's own prompts, exit gate, overtaken answers delivered, termination |
| `tool_calls` | 5 calls over 5 texts and 2 other calls, doom threshold 3, 2 tracked texts | no doom loop, no repetition, no refusal without an overlapping text that reached the room or whose send failed |
| `conversation` | 10 rows, messages of the user of 1 or 5 tokens, compaction from 4 messages (the system prompt included), 3 kept, budget of 4 | exchanges whole, logs consistent, compaction atomic, a request has its message unless that alone is over the budget |
| `cron` | 1 job, 6 settings, 3 fires, 2 updates, 1 restart, dates at 1 of 0..2 | no session for a deleted job, schedule follows table, one-shots succeed once, records and counter agree with the sends, tool calls end |
| `matrix_session` | 2 events of 3 kinds, 2 crashes, 1 shutdown, 1 sync that raises, 3 access tokens | messages reach the queue once and in order, neither token runs ahead, the device is kept, every event gets its callback while the process lives, or is settled without one at the next start |
| `background` | 2 items, 1 task, deque of 1, 1 crash, 1 row that ages, 1 failure | announced once, reported once, and heard |
| `workspace` | 2 texts, 1 of them a zone, 3 files, 2 ticks | what is served is what was on disk |
| `sessions` | 2 sessions, 2 facts, 4 calls, chunks of 3 characters, 2 troubles | facts consistent, filter agrees with room, chunks make the message, ticks go on |
| `transport` | 2 sessions, tokens that live 3 ticks, margin 1, time up to 4, 4 tokens, 1 trouble; a reply of a text in two parts, one of a text and two calls, and every subset of their events | expired tokens only in late requests, login kept, answers all that was said or a part of it in order, requests end |
| `chat_persist` | 1 interjection | **violated**: an interjection merged into a plain-string message is not stored |
| `conv_forgotten` | 10 rows, budget of 3 | **violated**: the second compaction forgets the first summary |

`MessageQueue` has no run of its own: `Gateway` EXTENDS it, and its run checks the queue's
properties of the composition, with more kinds of messages and a handler that is the code's.

Bounds. `MaxArrivals`, `MaxInterjections`, `MaxCalls`, `MaxRows`, `MaxFires`, `MaxUpdates`,
`MaxCrashes`, `MaxEvents`, `MaxKills`, `MaxStops`, `MaxFailures`, `MaxRaises`, `MaxTokens`, `MaxDeaths`,
`MaxAged`, `MaxTick`, `MaxTrouble`, `MaxNow` and `MaxIssued` bound unbounded input and appear
as guards of the input actions only; `MaxQueue`, `MaxInbox`, `MaxTracked`, `CheckpointEvery`,
`BaseRounds`, `MaxNudges`, `MinMessages`, `KeepRecent`, `Budget`, `MaxLen`, `Margin` and
`Lifetime` are the code's own limits (or the server's) made small enough to be hit.
Four messages are enough for a deque of two to overflow, for two debounce tasks to wait for the
lock behind a third, and for a batch that mixes text and images. Two interjections suffice for
one to be merged while another re-enters the loop. Ten rows suffice for two compactions with
tool exchanges on the boundary; three kept messages make a conversation too short to compact
possible. The round ceiling of one with a checkpoint every two makes every order of checkpoint,
forced summary and re-entry occur. Two events suffice for a sync with two of them whose first
callback fails, and for a crash between them; two crashes for one of them to tear the file that the
other's restart reads. A deque of one makes a poll's item and a task's result push each other
out. Two ticks let a file change with and without its mtime changing between a `stat` and
a `read`. Three calls are the least that can leave a duplicate fact and trip over it. Time up to 4 with
a lifetime of 3 makes the first token expire and its successor come due, and answers later than the
margin of 1. Two parts tell deltas from items, two calls a part of a reply from its order. A user's message of 5
against a budget of 4 is the case in which `trim_messages` drops the newest message.

Fairness. The queue assumes that a timer fires, that a woken lock waiter is resumed,
and that a handler call ends (`WF` of `Wake`, `LockHandoff`, `HandlerEnd`): asyncio
guarantees the first two, and the third is what `Gateway` shows of `handle_message`
(`ImplementsQueue`), from the fairness of its stages; that its `loop` stage ends is
`ChatLoop!Terminates`, from the fairness of its own awaits. Those are HTTP requests,
tools and database calls, all of which have timeouts or end by themselves. The tool calls of `Cron` end
because the database answers and runs end (`WF` of `Run` and `Tool`). The connector's `Startup` and
`Loop` are fair: requests return or raise, callbacks end, the pause of five seconds does too. In `Background`
turns begin, the poller's requests and transactions end or fail, and a task's timeouts expire (`WF`
of `Turn`, `Poller` and each task's `Run`); processes need not end. In `Sessions` a session's end, a send and
a commit happen; in `Transport` each session's await ends, by the HTTP client's timeout at the
latest. Nothing is assumed about arrivals, crashes, users or restarts, and no strong fairness is used.
`Workspace` has no liveness property.

Deadlock is checked in every run; modules have a `Terminated` (`Full`, `Idle`, `Done`) step for
the states in which the system may stop.

### What the violated runs say

Each states what a comment or a docstring says of the program, and shows
behaviour of the code that contradicts it; `PROJECT.json` quotes the line
(`findings`).

* `chat_persist`: an interjection that arrives before the first request, or with a
  nudge, is merged into a plain string, and `persist_response` skips plain strings and
  everything before `start_len`.
* `conv_forgotten`: the summarizer is not shown system messages, so not the earlier
  summary either, whose row is then deleted.

### Where the code departs from its comments

Five more lines say what the code does not do. The properties that hold do not cover
these up: each states the departure as its exact exception, so that nothing else may deviate.

| The line says | The code does | Named in |
|---|---|---|
| `client.py:60-64`: interjections are merged "to avoid consecutive-user-role messages the API rejects" | the progress check and the request for a summary are user messages right behind the results of the last calls, which are one too (`client.py:854, 864`) | `UserMessagesApart` (`ChatLoop`): there, and nowhere else, user messages follow one another |
| `messaging_dedupe.py:81`: "so failed sends don't suppress retries" (also 90, 110) | `chat_loop` calls `track_sent` whatever the send returned (`client.py:835-836`): the retry is refused, and answered "sent (deduplicated)" | `RefusalsExplained` (`ToolCalls`): the text got to the room, or its send failed |
| `matrix/client.py:248`: "so the next restart picks up where we left off", `:272`: "so the next restart resumes from here" | the first sync after a start runs before the callbacks are registered (`:219`): what arrived since the saved token is acknowledged, not handled | `ListenersHandle` (`MatrixSession`): callbacks only while the process lives; `RestartsResume` is what the comments say, and does not hold |
| `kg.py:61-63`: an active fact's id is returned "without inserting a duplicate" | two adds whose SELECTs both precede the INSERTs insert two, and from then on `scalar_one_or_none` raises (`kg.py:76`) | `DuplicatesNeedOverlap` (`Facts`): only overlapping adds; `OneRow` is what the docstring says, and does not hold |
| `compaction.py:227-231`: what is kept must not begin with a tool result without its call, "the API rejects them" | `trim_messages` stops at the first message over the budget, also between a call and its result, and drops the newest message if that alone is over it (`context.py:57`) | `RequestHasMessage` (`Conversation`): a result only at the very start, the message missing only if it alone is too long |

Nor is `invalidate` of an ended row looked at again: the second of two overlapping ones overwrites the first one's
date. The transport has no comment to depart from, but two silent losses of the same kind: undecodable events are skipped
(`client.py:389-392`), and items that came replace a complete output (`:413-414`); and the margin of 30 seconds
(`:261`) is shorter than the timeout of 120 (`:132-133`), so an expired token can be used. `AnswerIsWhatWasSaid` and
`RefusedOnlyIfLate` say exactly when.

### Seen while modelling

The models show these too, without a run of their own; where a property names the exception, it is
given.

* `/reset` counts only as the whole body of a handler call; in a batch it becomes
  `[message 2]: /reset`, in a running turn an interjection (`Gateway`, `Commands`).
* Between the exit gate and the end of the handler call, and during a command, `enqueue`
  still interjects, but nobody reads (`LostOnlyWhenLate` says exactly when).
* `create_cron_job` commits before it schedules; a stored expression that does not parse lets
  `load_jobs` raise at the next start, out of `lifespan` (jobs of kind `invalid` in `Cron`).
* A refresh that crosses a write of another program to `auth.json` undoes that write (`raced`).
* A message in the heartbeat's memory may have been refused in part (`excused` in `Heartbeat`).
* The final answer of a turn is sent whatever `sent_messages` holds (`app.py:209-211`); `NoRepeatedAnswer`
  is about the answers of `on_intermediate`.

Hazards left to tests or to a reader: a text that overtakes the older messages of a batch
while an image has its turn; arrivals that restart the debounce for ever; `suppress_text_response` of one
message governing the answer to several; credentials in the file that win over changed settings;
the system prompt that cron jobs and heartbeats keep from the start of the process.

## 4. Proofs

Every safety invariant and every action property that a run checks of the code is proved for all
values of the constants, and so is the safety part of both refinements. Two systems share
a module of proofs where they have a subject in common: `Producers_proofs` is about what puts
messages into the queue, `Context_proofs` about what a request is made of, `Sessions_proofs` about
a heartbeat beside a turn. A few facts about sequences are proved in more than one of these modules: each
EXTENDS the system it is about, and two systems cannot be extended together.

The provers have no induction that a proof can instantiate, so facts about data that need one
(concatenating a sequence of sequences, folding a stream, cutting a text into
chunks) rest on `Least`: a nonempty set of numbers has a least element, by the well-foundedness
of `<`. `Induction` follows (the numbers up to n that lack a property have no least one),
and with it that the functions and folds the model is written with exist and obey their recursion
(`JoinsExist`, `ReadIs`, `ChunksMake`). No model that is proved about has a RECURSIVE operator.

### The queue and its handler

`MessageQueue_proofs`, for every number of messages, every set of kinds and
every size of the deque:

| Theorem | Property |
|---|---|
| `TypeCorrect` | `Spec => []TypeOK`: the deque never exceeds its maxlen |
| `HandlersExclude` | `Spec => []MutualExclusion` |
| `NoLostWakeup` | `Spec => []NoStrandedMessage` |
| `DrainsAreNotCancelled` | `Spec => NoDrainCancelled` |
| `QueueIsFIFO` | `Spec => []DequeFIFO` |
| `OneFateEach` | `Spec => []ExactlyOneFate` |
| `TurnsAreServed` | `Spec => []ServedInOrder`: all of these together, and an image has a turn of its own |
| `QueueIsAMailbox` | `Spec => Mail!MailSteps`: every step of the queue is a step of `Mailbox`, or a stutter |
| `TurnsAreHandlerCalls` | `GatewaySpec => Spec`: with `handle_message` as its handler the queue does what the queue does |
| `GatewayServesInOrder`, `GatewayWakesUp`, `GatewayTurnsAreNotCancelled` | the above, of `GatewaySpec` |
| `GatewayTypes` | `GatewaySpec => []GatewayTypeOK` |
| `OnlyLateOnesAreLost` | `GatewaySpec => []LostOnlyWhenLate` |
| `TurnsSeeTheirPast` | `GatewaySpec => []TurnsSeeEachOther` |

Assumptions: `KindsAssumption`, `BoundsAssumption`. None of the properties is inductive.
`Inv` joins the type invariant with `LockInv`: a task is running exactly if it holds the
lock, sleeping exactly if it is the registered debounce task, and waiting exactly if it is
among the waiters, each once; tasks of messages that have not arrived do not exist;
`accepting` holds exactly while the lock is held; and outside the lock the batch and the
interject queue are empty. `NoStrandedMessage` is inductive only together with `Inv`:
`enqueue` may cancel a task because that task sleeps and a new one is created in the same
step, and a task that leaves without draining found the deque empty. The fates need a
second invariant, `FateInv` (`DequeFIFO`, `Covered`, `Apart`): the places cover
`1..Len(arrivals)`, are pairwise disjoint, and the sequences among them are increasing,
hence without repetition; its proof uses `Inv` for the states in which the interject queue
is replaced. `TurnsAreServed` adds `ImageInv`: the messages of the turn count as
handled, an image among them is the only one, and what was interjected is of a kind that may be.

`QueueIsAMailbox` maps `batch \o queue` to the mailbox's backlog. `Mailbox!Advance` takes some
messages from its front; that a group of the batch is just that, also when a task drains
anew what came while it ran, is what has to be shown, with `Inv`. `GatewayInv` adds to
`Inv` that a turn has messages exactly while it has a stage (`StageInv`), that the
interjections in the queue are late once nobody listens (`LateInv`), and that what turns were
about is stored, failed, cleared or unwritten but for the turn that runs, of which nothing is left when
it is over (`SettledInv`).

### The agent loop and its tool calls

`ChatLoop_proofs`, for every ceiling of rounds, checkpoint interval, number of nudges, of calls per
response and of interjections (`LoopAssumption`):

| Theorem | Property |
|---|---|
| `HistoryIsWellFormed` | `Spec => []WellFormed` |
| `GateHolds` | `Spec => []ExitGate` |
| `NoAnswerUnsent` | `Spec => []AnswersDelivered` |

While tools run, the history has calls without results, to which `WellFormed` makes an exception
that no induction could use. `LoopInv` speaks of `Outlook` instead, the history with the results
that are to come: it has every call answered by the next message and nothing else is an answer,
and with the inbox it holds every interjection that has arrived once (`Kept`). That an
interjection merged into the last message never gets between a call and its results
is then a property of two sequences. `RoundsLeft` keeps requests
within the ceiling, `Accounts` says that at most one answer is owed, the one being sent.

`ToolCalls_proofs` proves, for every set of texts and calls, every overlap relation, every
threshold and every size of the deduplicator (`TextsAssumption`, `NumbersAssumption`),
that the checks in `chat_loop` do what they are for:

| Theorem | Property |
|---|---|
| `ToolTypes` | `Spec => []TypeOK`: the deduplicator never exceeds max_tracked |
| `DoomLoopsStop` | `Spec => []NoDoomLoop` |
| `SendsOnce` | `Spec => []NoRepeatedSend` |
| `AnswersOnce` | `Spec => []NoRepeatedAnswer` |
| `RefusalsHaveReasons` | `Spec => []RefusalsExplained` |

The types need `Noted` (what reached the room was noted before, an awaited send is noted,
an awaited answer is a text that is not), because nothing else says that an awaited answer
is a text. `SendsOnce` needs `Tracking`: every long text among the last max_tracked sends is
in the deduplicator's list, no further from its end than the send is from the last one, so
that appending to a full list drops only texts that are too old to matter; and a send under
way was checked against the list as it still is. `RefusalsHaveReasons` needs `FromAttempts`: the
deduplicator's list holds only texts of calls that were run, each of which reached the room or failed.

### What a request is made of

`Context_proofs`, for every set of texts and zones and number of ticks (`WorkspaceAssumption`; a
missing file has none of the texts), and for every
cost of a message (of the user's too, `CostsAssumption`), budget, number of rows, and number of messages kept (`ConversationAssumption`,
`RepliesAssumption`: a call is followed by its result):

| Theorem | Property |
|---|---|
| `NothingStaleIsServed` | `WorkSpec => []CachesAreFresh` |
| `ConversationIsWellFormed` | `Spec => []WellFormed` |
| `CompactionIsAtomic` | `Spec => CompactionAtomic` |
| `RequestsHaveTheirMessage` | `Spec => []RequestHasMessage` |

`WorkInv` says why an mtime may serve as a cache key: the mtimes in caches and readers
are never ahead of the file's, and if the file is gone, behind the clock
(`Behind`), so that whatever is written next gets an mtime nobody has seen. A cached text under the
file's mtime is then the file's text (`CacheTrue`, `ZoneTrue`), and what a loader is about to
return is among what its file said during the call (`CurrentHas`).

`ConvInv` has, beside the parts of `WellFormed`: rows are numbered in the order they are written
(`Numbered`); while a turn runs its user message is the last row (`UserIsLast`); and the rows a
turn means to delete are the first ones of the table as it is, end where a user's message
begins, and are covered by the summary, unless they are summaries (`OldAreCovered`).
The last one is what carries a decision over the awaits of a compaction: what is deleted at the end of the
turn is what was summarised at its beginning. Because a user's message follows the cut, no tool
exchange is cut in two. `RequestHasMessage` follows from what `Trim` keeps: a suffix of the messages, as long as the budget
allows, that begins with the newest one. It is empty only if that one is over the budget alone,
and it is cut in an exchange only where it begins.

### What puts messages into the queue

`Producers_proofs`, for every set of items and tasks, size of the deque and number of crashes,
failures and rows that age (`RssAssumption`, `CommandsAssumption`, `InjectionAssumption`), and for every
number of events, tokens, crashes, shutdowns and failures of the connector (`SessionAssumption`):

| Theorem | Property |
|---|---|
| `PollerAnnounces` | `BackgroundSpec => []RssAnnounces` |
| `CommandsAreReported` | `BackgroundSpec => []TasksReported` |
| `TokensNeverRunAhead` | `Spec => []TokensSettled` |
| `EventsComeInOrder` | `Spec => []HandedOnceInOrder` |
| `CrashesCostDevices` | `Spec => []DevicesKept` |

`RssInv` counts: the announcements of an item, with the one under way and the one that an
unmarked item has to come, are one for its first row and one for each row that has aged, and a
seed has used the first up (`Counted`); the items that are marked and untold are finitely many, no more than
failures and crashes (`Unannounced`). `TaskInv` says which processes may be alive at each stage
(`Tamed`). `SInv` says that the batch is the run of events between the one dispatched last and
the client's token (`BatchIsRun`), that events up to the dispatched one, and up to the file's token,
have their fate (`SettledTo`), that what was handed over is behind the position the connector
will resume from, unless a crash kept the token from being saved (`HandedBehind`), and that every login
beyond the first follows a crash that tore the file (`LoginsPaid`).

### Cron

`Cron_proofs`, for every set of jobs and settings and any number of fires, updates
and restarts (`CronAssumption`):

| Theorem | Property |
|---|---|
| `NoSessionWithoutJob` | `Spec => []NoOrphanRun` |
| `OneShotsRunOnce` | `Spec => []OneShotOnce` |
| `SchedulerFollows` | `Spec => []ScheduleFollowsTable` |
| `TablesAgree` | `Spec => []RecordsAgree` |

`Shape` is the part of the types that does not depend on the bounds. `NoOrphanRun` is
inductive with it: whoever deletes a row either waits for the job's session or is that
session. `OneShotsRunOnce` needs `OneShotGone`: a one-shot whose output is under way, or
arrived, has no row, and without a row no later run gets as far as a send.

`ScheduleFollowsTable` says nothing of a job whose tool call is in progress. It becomes inductive
with `OpFollows` (what the call is about to do to the job store still fits the row) and with
`AllFollow`, which makes no exception for a delete that is blocked: that delete has changed
nothing, and if it loses the deadlock the job stays, so schedule and row must agree already. `RecordsAgree`
needs `Ledger`: a failure, and a run that may yet fail, has used up a fire; a key nobody has
used has clean books; and a run on its way to the room is on record as the last success, because
the record is committed before the send.

### A heartbeat beside a turn

`Sessions_proofs`, for every set of facts and dates, every number of calls, and every response,
footer and length of a chunk (`FactsAssumption`, `CallersAssumption`, `HeartbeatAssumption`; responses and footers are
sequences of characters):

| Theorem | Property |
|---|---|
| `GraphIsConsistent` | `Spec => []FactsConsistent` |
| `FilterAgreesWithRoom` | `Spec => []FilterMatchesRoom` |
| `ChunksAreTheMessage` | `Spec => []ChunksMakeMessage` |

`FactsInv` says of a fact on which no two adds overlapped that it has one active row, or one
add that missed it and is about to insert it, or neither (`Sole`); rows and inserts under way
were paid for by calls (`RowsPaid`). `FilterInv` relates the filter's memory to the room: during a send the memory
is ahead by the message being sent, which differs from the last; between ticks it is
what was posted last, unless something excuses it. `ChunksAreTheMessage` rests on `ChunksMake`:
from every position of a text `_chunk_message` makes chunks that fit and have all of its
characters but newlines. It is proved from the end of the text backwards, since every chunk is
nonempty, and the function that is defined by that recursion exists.

### Transport

`Transport_proofs`, for every reply that consists of messages and calls (`RepliesAssumption`), and for any
number of sessions, tokens, crashes and edits, every
lifetime and margin, and requests and answers of any delay (`AuthAssumption`: these are numbers):

| Theorem | Property |
|---|---|
| `RefusalsAreLate` | `AuthSpec => []RefusedOnlyIfLate` |
| `LoginIsKept` | `AuthSpec => []LoginKept` |
| `AnswersAreWhatWasSaid` | `Spec => []AnswerIsWhatWasSaid` |
| `RequestsAreRefusedLate`, `SessionsKeepLogin` | the first two, of `Transport!Spec`, whose steps are steps of `AuthSpec` or stutter on its variables |

`RefusalsAreLate` rests on `Timely`. The file's expiry is computed when the answer arrives, so it is
later than the server's by the answer's `delay`; a token from the file is used only with the margin to
spare, and a token fresh from the server when its answer arrives. So a request that finds its token
expired was, with that answer, longer under way than the margin, or than the token lives. `LoginIsKept` is inductive only with two more parts. `Secret`: a refresh token
that an answer carries is unused, and known to no other session and not to the file. `Unraced`: while nobody wrote
the file behind its back, a refreshing session's copy of the other records is the current
one.

`AnswersAreWhatWasSaid` is a statement about sequences. The fold over a stream keeps the deltas
together, and the items, and skips the rest, whatever their order (`ReadParts`); those of a whole stream are
the pieces of its messages and its items (`ToldIs`), and those of what is received are these with some
dropped (`ReceivedParts`, `ToldReceived`). `Within` goes through concatenation and through the texts and calls of items
(`WithinFlatten`, `WithinJoined`). `ReplyComesBack` is then by cases which of items, output and text the code
takes. `Image` and `Joined` stand for "each element contributes a sequence, and these are put
together", which is what both the fold and the parser do.

### Only model-checked

The liveness properties (`Terminates`, `Heard`, `AllSettled`, `ToolCallsEnd`, `TicksGoOn`,
`RequestsEnd`) and the fairness of the two refinements `ImplementsMailbox` and `ImplementsQueue`: what
follows from fairness needs ENABLED, which is out of the prover's reach. The two violated
properties are refuted by their runs.

## 5. Not modelled

* Contents and wording of messages; E2EE and HTTP.
* LLM requests to the other providers (payloads, LiteLLM, the parsing of their responses): single
  stateless calls whose replies are arbitrary in `ChatLoop`.
* Of the Matrix connector: invitations, device trust, typing notices and `send_file`, which nio and
  the homeserver keep the state of; a second room (the connector drops all but one). Of background
  tasks: `cleanup_finished`, which nothing calls.
* Subagent: a `chat_loop` without interjections or shared state. File, web and search tools: one call
  each to the file system or a server, except `write_file`, which is a user's write in `Workspace`.
* Configuration, database set-up, migrations, the order of start-up in `lifespan` but for what
  `Workspace` and `Cron` need of it.
* Rows written before migration 0003 (the legacy branches of `load_conversation` and
  `persist_response`); the deduplicator's pending/commit methods, which nothing calls.
* That a stream of messages may postpone a turn for ever (each arrival restarts the debounce) is
  real, but needs unboundedly many arrivals.

## 6. Plan

What is left, in this order:

1. Lemmas about the pure algorithms that `Conversation` and `Heartbeat` abstract, against a reference
   definition: `trim_messages`, `_parse_interval`, `truncate`.
2. The order of start-up and shutdown in `lifespan`, which today only `Workspace`, `Cron` and
   `MatrixSession` model, each for itself.
3. Two feeds whose items share a guid; two rooms, if the connector learns to keep them apart.

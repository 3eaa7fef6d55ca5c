----------------------------- MODULE MatrixSession -----------------------------
(***************************************************************************)
(* The Matrix connector's session: the credentials file, the login, the    *)
(* initial sync, the sync loop with its callbacks, shutdown, crashes and   *)
(* restarts.                                                               *)
(*                                                                         *)
(* The room is a sequence of events.  A sync token is a position in it:    *)
(* the number of events that were delivered.  nio (external) moves the     *)
(* client's token before it calls the callbacks, one after the other, and  *)
(* returns an error response instead of raising when the server refuses a  *)
(* request; its own copy of the token is left out.  A login creates an     *)
(* access token and a device, and one number stands for both; 0 is none.   *)
(***************************************************************************)
EXTENDS Naturals, Sequences, SequencesExt

CONSTANTS MaxEvents,   \* bound on the events of the room
          MaxKills,    \* bound on crashes
          MaxStops,    \* bound on orderly shutdowns
          MaxRaises,   \* bound on syncs that raise
          MaxTokens    \* bound on access tokens

ASSUME SessionAssumption ==
  /\ {MaxEvents, MaxKills, MaxStops, MaxRaises, MaxTokens} \subseteq Nat
  /\ MaxTokens >= 1

\* What the callbacks tell apart: a text (or a reply, whose quoted event is
\* fetched if possible), a file, and what they ignore: own messages, foreign
\* rooms, people other than the owner.
Kinds == {"text", "file", "other"}

NoToken == 0
Tokens == 1..MaxTokens

\* credentials.json: its state, the session in it, its next_batch.
Absent  == [state |-> "absent",  token |-> NoToken, since |-> 0]
Torn    == [state |-> "torn",    token |-> NoToken, since |-> 0]
Partial == [state |-> "partial", token |-> NoToken, since |-> 0]

Full(token, since) == [state |-> "full", token |-> token, since |-> since]

NoClient == [token |-> NoToken, next |-> 0]

VARIABLES
  stage,    \* the await that start() is in, "down" without a process
  env,      \* MATRIX_PASSWORD is set, MATRIX_ACCESS_TOKEN
  file,     \* credentials.json
  client,   \* the AsyncClient: its session, its next_batch
  room,     \* the server: the kinds of the room's events
  issued,   \* the server: access tokens issued so far
  valid,    \* the server: access tokens not logged out
  batch,    \* events of the current sync that still await their callback
  handed,   \* history: the events given to the queue, in order
  fate,     \* history: what became of each event
  unsaved,  \* history: events handed over in a batch that a crash cut short
  logins,   \* history: devices the connector has created
  kills, stops, failures

vars == <<stage, env, file, client, room, issued, valid, batch, handed, fate,
          unsaved, logins, kills, stops, failures>>

server == <<room, issued, valid>>
bounds == <<kills, stops, failures>>

Events == DOMAIN room

Init ==
  /\ stage = "down"
  /\ env \in [password : BOOLEAN, token : {NoToken, 1}]
  /\ file \in {Absent, Partial}
  /\ client = NoClient
  /\ room = <<>>
  /\ issued = env.token
  /\ valid = {env.token} \ {NoToken}
  /\ batch = <<>>
  /\ handed = <<>>
  /\ fate = <<>>
  /\ unsaved = {}
  /\ logins = 0
  /\ kills = 0
  /\ stops = 0
  /\ failures = 0

-----------------------------------------------------------------------------
(* The credentials file *)

\* Fault: whatever can be parsed is taken for credentials.
UsableParsed(f) == f.state \in {"full", "partial"}

\* _load_credentials: anything but a complete file is deleted.
Usable(f) == f.state = "full"

Loaded(f) == IF Usable(f) THEN f ELSE Absent

\* Fault: a file with nothing but the token is written.
SavedTokenOnly(f, next) == IF next = 0 THEN f ELSE Partial

\* _save_sync_token
Saved(f, next) ==
  IF next = 0 THEN f
  ELSE IF Usable(f) THEN [f EXCEPT !.since = next]
  ELSE Loaded(f)

-----------------------------------------------------------------------------
(* start() up to the initial sync *)

Restore ==
  /\ stage = "down"
  /\ Usable(file)
  /\ client' = [token |-> file.token, next |-> file.since]
  /\ stage' = "initial"
  /\ UNCHANGED <<env, file, server, batch, handed, fate, unsaved, logins, bounds>>

\* No usable file: password before access token before giving up.
Authenticate ==
  /\ stage = "down"
  /\ ~Usable(file)
  /\ file' = Loaded(file)
  /\ stage' = IF env.password THEN "login"
              ELSE IF env.token # NoToken THEN "whoami" ELSE "refused"
  /\ client' = NoClient
  /\ UNCHANGED <<env, server, batch, handed, fate, unsaved, logins, bounds>>

\* The server creates a session, whether or not the connector lives to save it.
Issue ==
  /\ issued < MaxTokens
  /\ issued' = issued + 1
  /\ valid' = valid \cup {issued + 1}

LoginOk ==
  /\ stage = "login"
  /\ Issue
  /\ logins' = logins + 1
  /\ client' = [client EXCEPT !.token = issued + 1]
  /\ file' = Full(issued + 1, 0)
  /\ stage' = "initial"
  /\ UNCHANGED <<env, room, batch, handed, fate, unsaved, bounds>>

WhoamiOk ==
  /\ stage = "whoami"
  /\ env.token \in valid
  /\ client' = [client EXCEPT !.token = env.token]
  /\ file' = Full(env.token, 0)
  /\ stage' = "initial"
  /\ UNCHANGED <<env, server, batch, handed, fate, unsaved, logins, bounds>>

\* The login is refused, or the whoami request raises: start() ends and
\* nothing tries again before the next start of the process.
Refused ==
  /\ stage \in {"login", "whoami"}
  /\ stage' = "refused"
  /\ UNCHANGED <<env, file, client, server, batch, handed, fate, unsaved, logins,
                 bounds>>

-----------------------------------------------------------------------------
(* The initial sync *)

Open == {e \in Events : fate[e] = "open"}

Settle(events, as) == fate' = [e \in Events |-> IF e \in events THEN as ELSE fate[e]]

\* No message callback is registered yet, so what the sync delivers is not
\* handled; then its token is saved.
InitialSync ==
  /\ stage = "initial"
  /\ client.token \in valid
  /\ client' = [client EXCEPT !.next = Len(room)]
  /\ file' = Saved(file, Len(room))
  /\ Settle(Open, "missed")
  /\ stage' = "listening"
  /\ UNCHANGED <<env, server, batch, handed, unsaved, logins, bounds>>

\* An error response is not looked at: the loop starts from the old token.
InitialSyncError ==
  /\ stage = "initial"
  /\ file' = Saved(file, client.next)
  /\ stage' = "listening"
  /\ UNCHANGED <<env, client, server, batch, handed, fate, unsaved, logins, bounds>>

\* An exception ends start().
InitialSyncRaises ==
  /\ stage = "initial"
  /\ failures < MaxRaises
  /\ failures' = failures + 1
  /\ stage' = "refused"
  /\ UNCHANGED <<env, file, client, server, batch, handed, fate, unsaved, logins,
                 kills, stops>>

-----------------------------------------------------------------------------
(* The sync loop *)

\* Fault: the token is saved before the callbacks have run.
SyncReturnsSaving ==
  /\ stage = "listening"
  /\ client.token \in valid
  /\ client.next < Len(room)
  /\ batch' = [i \in 1..(Len(room) - client.next) |-> client.next + i]
  /\ client' = [client EXCEPT !.next = Len(room)]
  /\ file' = Saved(file, Len(room))
  /\ stage' = "dispatch"
  /\ UNCHANGED <<env, server, handed, fate, unsaved, logins, bounds>>

SyncReturns ==
  /\ stage = "listening"
  /\ client.token \in valid
  /\ client.next < Len(room)
  /\ batch' = [i \in 1..(Len(room) - client.next) |-> client.next + i]
  /\ client' = [client EXCEPT !.next = Len(room)]
  /\ stage' = "dispatch"
  /\ UNCHANGED <<env, file, server, handed, fate, unsaved, logins, bounds>>

\* Fault: an exception ends the loop.
SyncRaisesOut ==
  /\ stage = "listening"
  /\ failures < MaxRaises
  /\ failures' = failures + 1
  /\ stage' = "ended"
  /\ UNCHANGED <<env, file, client, server, batch, handed, fate, unsaved, logins,
                 kills, stops>>

SyncRaises ==
  /\ stage = "listening"
  /\ failures < MaxRaises
  /\ failures' = failures + 1
  /\ stage' = "retry"
  /\ UNCHANGED <<env, file, client, server, batch, handed, fate, unsaved, logins,
                 kills, stops>>

\* Fault: an exception ends the loop.
RetryNot ==
  /\ stage = "retry"
  /\ UNCHANGED vars

Retry ==
  /\ stage = "retry"
  /\ stage' = "listening"
  /\ UNCHANGED <<env, file, client, server, batch, handed, fate, unsaved, logins, bounds>>

Callback(as) ==
  /\ stage = "dispatch"
  /\ batch # <<>>
  /\ batch' = Tail(batch)
  /\ Settle({Head(batch)}, as)
  /\ UNCHANGED <<stage, env, file, client, server, unsaved, logins, bounds>>

\* _on_room_message, and _on_room_file when the download succeeds.
HandOver ==
  /\ Callback("handed")
  /\ room[Head(batch)] # "other"
  /\ handed' = Append(handed, Head(batch))

Ignore ==
  /\ Callback("ignored")
  /\ room[Head(batch)] = "other"
  /\ UNCHANGED handed

\* Fault: the exception of a download leaves the callback, and with it sync().
DownloadRaises ==
  /\ stage = "dispatch"
  /\ batch # <<>>
  /\ room[Head(batch)] = "file"
  /\ batch' = <<>>
  /\ Settle({Head(batch)}, "failed")
  /\ stage' = "retry"
  /\ UNCHANGED <<env, file, client, server, handed, unsaved, logins, bounds>>

\* A file that cannot be fetched or written is dropped.
DownloadFails ==
  /\ Callback("failed")
  /\ room[Head(batch)] = "file"
  /\ UNCHANGED handed

BatchDone ==
  /\ stage = "dispatch"
  /\ batch = <<>>
  /\ file' = Saved(file, client.next)
  /\ stage' = "listening"
  /\ UNCHANGED <<env, client, server, batch, handed, fate, unsaved, logins, bounds>>

-----------------------------------------------------------------------------
(* The end of a process *)

\* Fault: stop() does not save the token.
StopUnsaved ==
  /\ stage \notin {"down", "login", "whoami"}
  /\ stops < MaxStops
  /\ stops' = stops + 1
  /\ batch' = <<>>
  /\ Settle({batch[i] : i \in DOMAIN batch}, "cut")
  /\ stage' = "down"
  /\ client' = NoClient
  /\ UNCHANGED <<env, file, server, handed, unsaved, logins, kills, failures>>

\* stop(): the loop is cancelled, in the middle of a callback or before one,
\* and the token, which covers the whole batch, is saved.
Stop ==
  /\ stage \notin {"down", "login", "whoami"}
  /\ stops < MaxStops
  /\ stops' = stops + 1
  /\ file' = Saved(file, client.next)
  /\ batch' = <<>>
  /\ Settle({batch[i] : i \in DOMAIN batch}, "cut")
  /\ stage' = "down"
  /\ client' = NoClient
  /\ UNCHANGED <<env, server, handed, unsaved, logins, kills, failures>>

\* Whatever the process leaves in the file is all that the next one knows.
GoDown(left) ==
  /\ kills < MaxKills
  /\ kills' = kills + 1
  /\ file' = left
  /\ unsaved' = unsaved \cup {e \in ToSet(handed) : left.since < e}
  /\ stage' = "down"
  /\ client' = NoClient
  /\ batch' = <<>>

\* The process dies at an await.
Kill ==
  /\ stage # "down"
  /\ GoDown(file)
  /\ UNCHANGED <<env, server, handed, fate, logins, stops, failures>>

\* The process dies while it writes the file, after a login or after a sync.
KillInWrite ==
  /\ \/ stage = "login" /\ Issue /\ logins' = logins + 1
     \/ /\ \/ stage = "whoami" /\ env.token \in valid
           \/ stage = "initial" /\ Usable(file)
           \/ stage = "dispatch" /\ batch = <<>> /\ Usable(file)
        /\ UNCHANGED <<issued, valid, logins>>
  /\ GoDown(Torn)
  /\ UNCHANGED <<env, room, handed, fate, stops, failures>>

-----------------------------------------------------------------------------
(* The room, and the people who administer the account *)

Send(kind) ==
  /\ Len(room) < MaxEvents
  /\ room' = Append(room, kind)
  /\ fate' = Append(fate, "open")
  /\ UNCHANGED <<stage, env, file, client, issued, valid, batch, handed, unsaved,
                 logins, bounds>>

\* Another client of the account logs out, and the token with it.
LogOut ==
  /\ valid # {}
  /\ valid' = {}
  /\ UNCHANGED <<stage, env, file, client, room, issued, batch, handed, fate, unsaved,
                 logins, bounds>>

\* A new token is put into .env between two starts.
Renew ==
  /\ stage = "down"
  /\ env.token # NoToken /\ env.token \notin valid
  /\ Issue
  /\ env' = [env EXCEPT !.token = issued + 1]
  /\ UNCHANGED <<stage, file, client, room, batch, handed, fate, unsaved, logins, bounds>>

Idle ==
  /\ stage \in {"listening", "refused", "login"}
  /\ UNCHANGED vars

Startup == Restore \/ Authenticate \/ LoginOk \/ WhoamiOk \/ Refused
             \/ InitialSync \/ InitialSyncError \/ InitialSyncRaises

Loop == SyncReturns \/ SyncRaises \/ Retry \/ HandOver \/ Ignore \/ DownloadFails
          \/ BatchDone

World == (\E k \in Kinds : Send(k)) \/ LogOut \/ Renew

Next == Startup \/ Loop \/ Stop \/ Kill \/ KillInWrite \/ World \/ Idle

Spec == Init /\ [][Next]_vars

\* systemd starts the process again; requests are answered, or fail; the
\* callbacks of a batch are run.  Nothing is assumed about the room.
FairSpec == Spec /\ WF_vars(Startup) /\ WF_vars(Loop)

-----------------------------------------------------------------------------
(* Properties *)

Connected == {"listening", "dispatch", "retry"}

Fates == {"open", "handed", "ignored", "failed", "missed", "cut"}

\* The types.  A connector that syncs has a session, whatever the file held:
\* an incomplete file must not end the start (test_matrix_credentials.py).
TypeOK ==
  /\ stage \in {"down", "login", "whoami", "initial", "refused"} \cup Connected
  /\ env \in [password : BOOLEAN, token : {NoToken} \cup Tokens]
  /\ file \in {Absent, Torn, Partial} \cup {Full(t, n) : t \in Tokens, n \in 0..Len(room)}
  /\ client.token \in Tokens \cup {NoToken}
  /\ client.next \in 0..Len(room)
  /\ stage \in {"initial"} \cup Connected => client.token # NoToken
  /\ room \in Seq(Kinds) /\ Len(room) <= MaxEvents
  /\ valid \subseteq 1..issued /\ issued <= MaxTokens
  /\ DOMAIN fate = Events /\ ToSet(fate) \subseteq Fates
  /\ ToSet(batch) \cup ToSet(handed) \cup unsaved \subseteq Events
  /\ kills <= MaxKills /\ stops <= MaxStops /\ failures <= MaxRaises

\* Messages reach the queue in the order of the room and once, restarts
\* included, except those whose token a crash kept from being saved: the
\* callbacks are registered after the initial sync, which skips what is old.
HandedOnceInOrder ==
  \A i, j \in DOMAIN handed : i < j /\ handed[j] <= handed[i] => handed[i] \in unsaved

\* While the connector listens, an event behind the client's token was
\* handled or is about to be: a callback that fails takes no other event
\* with it.
NothingSlips ==
  stage \in Connected =>
    \A e \in Events : e <= client.next /\ fate[e] = "open" => e \in ToSet(batch)

\* The token in credentials.json never runs ahead of the callbacks, except
\* for those that stop() cancels: no callback is left out because a crash
\* came after the save.  What the next start does with the events behind the
\* token is another matter, see ListenersHandle.
SavedTokenIsSettled ==
  \A e \in Events : e <= file.since => fate[e] # "open"

\* The file does what it is for ("persist login credentials (device_id +
\* access_token) across restarts"): only a crash costs a new device.
DevicesKept == logins <= 1 + kills

\* The start ended early, or the server no longer knows the token.
CutOff ==
  \/ stage = "refused"
  \/ stage \in {"initial"} \cup Connected /\ client.token \notin valid

\* No event stays behind: sooner or later a token covers it, whatever becomes
\* of the process and its syncs.
EventsSettle ==
  \A e \in 1..MaxEvents :
    e \in Events ~> (e \in Events /\ fate[e] # "open") \/ CutOff

\* An event of the room gets its callback, unless the process ends before.
\* The code promises more: the token is saved "so the next restart picks up
\* where we left off" (client.py:248), "so the next restart resumes from here"
\* (client.py:272).  But the first sync after a start runs without callbacks
\* (client.py:219), so what the room got since the saved token is "missed",
\* and this property excuses it by the end of the process.
ListenersHandle ==
  \A e \in 1..MaxEvents :
    e \in Events /\ fate[e] = "open" ~>
      \/ e \in Events /\ fate[e] \in {"handed", "ignored", "failed"}
      \/ stage \notin Connected
      \/ CutOff

AllSettled == EventsSettle /\ ListenersHandle

\* What the comments say: a start from a saved token leaves no event out.
RestartsResume ==
  [][\A e \in Events : file.since > 0 /\ fate[e] # "missed" => fate'[e] # "missed"]_vars

\* Neither the token in memory nor the one on disk runs ahead of the callbacks.
TokensSettled == TypeOK /\ NothingSlips /\ SavedTokenIsSettled
=============================================================================

----------------------------- MODULE CodexAuth -----------------------------
(***************************************************************************)
(* The login of the provider opencode-openai: _load_opencode_auth of the   *)
(* sessions that ask the model at the same time, on the auth.json that     *)
(* they share with the opencode program.  Reading and replacing the file   *)
(* are synchronous, the request for new tokens in between is not.  Access  *)
(* and refresh tokens are numbered as the server issues them; a refresh    *)
(* token is good for one use.                                              *)
(***************************************************************************)
EXTENDS Naturals, Sequences

CONSTANTS Sessions,
          Lifetime,   \* expires_in
          Margin,     \* the 30 seconds before expiry
          MaxNow,     \* bound on time
          MaxIssued,  \* bound on tokens
          MaxTrouble  \* bound on crashes and on edits of the file

ASSUME AuthAssumption ==
  {Lifetime, Margin, MaxNow, MaxIssued, MaxTrouble} \subseteq Nat

VARIABLES
  now,
  file,      \* auth.json: the record openai (access 0: none), the other records
  validTo,   \* the server: when each access token expires
  live,      \* the server: refresh tokens that were not used yet
  sess,      \* sessions: what each waits for, with what it read and holds
  delay,     \* history: how long the answer with each token was on its way
  refused,   \* history: of the requests that came with an expired token, how
             \* long they and the answer with the token were on their way
  lost,      \* history: the successor of the file's refresh token was lost
  others,    \* history: the other records as they were written last
  raced,     \* history: that was while a session was refreshing
  trouble

history == <<delay, refused, lost, others, raced, trouble>>
authVars == <<now, file, validTo, live, sess, history>>

NoFile == [access |-> 0, refresh |-> 0, expires |-> 0, other |-> 0]
Idle == [phase |-> "idle", data |-> NoFile, token |-> 0, since |-> 0]

AuthInit ==
  /\ now = 0
  /\ \E e \in {0, Lifetime} :
       \/ file = NoFile /\ validTo = <<>> /\ live = {} /\ delay = <<>>
       \/ /\ file = [access |-> 1, refresh |-> 1, expires |-> e, other |-> 0]
          /\ validTo = <<e>> /\ live = {1} /\ delay = <<0>>
  /\ sess = [s \in Sessions |-> Idle]
  /\ refused = {} /\ lost = FALSE /\ others = 0 /\ raced = FALSE
  /\ trouble = 0

\* A session that will replace the file by what it read, with its new tokens.
Refreshing(s) == sess[s].phase \in {"refresh", "granted"}

Goto(s, phase, data, token) ==
  sess' = [sess EXCEPT ![s] =
             [phase |-> phase, data |-> data, token |-> token, since |-> now]]

Reread(s) == sess' = [sess EXCEPT ![s] = [Idle EXCEPT !.phase = "refresh", !.data = file]]

Leave(s) == sess' = [sess EXCEPT ![s] = Idle]

-----------------------------------------------------------------------------
(* _load_opencode_auth *)

\* Fault: a token is good until it expires.
FreshYet == file.expires > now

Fresh == file.expires > now + Margin

\* Fault: the record is not looked at.
LoadUnchecked(s) ==
  /\ sess[s].phase = "idle"
  /\ IF Fresh THEN Goto(s, "request", NoFile, file.access) ELSE Reread(s)
  /\ UNCHANGED <<now, file, validTo, live, history>>

\* The access token of the file, or a request for a new one.  Without a file
\* or a login the session fails.
Load(s) ==
  /\ sess[s].phase = "idle"
  /\ file.access # 0
  /\ IF Fresh THEN Goto(s, "request", NoFile, file.access) ELSE Reread(s)
  /\ UNCHANGED <<now, file, validTo, live, history>>

\* The server takes the refresh token and issues new ones.
Grant(s) ==
  /\ sess[s].phase = "refresh"
  /\ sess[s].data.refresh \in live
  /\ Len(validTo) < MaxIssued
  /\ validTo' = Append(validTo, now + Lifetime)
  /\ live' = (live \ {sess[s].data.refresh}) \cup {Len(validTo')}
  /\ delay' = Append(delay, 0)
  /\ Goto(s, "granted", sess[s].data, Len(validTo'))
  /\ UNCHANGED <<now, file, refused, lost, others, raced, trouble>>

\* Fault: an error of the server is tried again.
DenyAgain(s) ==
  /\ sess[s].phase = "refresh"
  /\ sess[s].data.refresh \notin live
  /\ UNCHANGED authVars

\* raise_for_status
Deny(s) ==
  /\ sess[s].phase = "refresh"
  /\ sess[s].data.refresh \notin live
  /\ Leave(s)
  /\ UNCHANGED <<now, file, validTo, live, history>>

\* Fault: the refresh token is kept.
UpdatedHalf(s) ==
  [sess[s].data EXCEPT !.access = sess[s].token, !.expires = now + Lifetime]

\* Fault: the record is written alone.
UpdatedAlone(s) ==
  [access |-> sess[s].token, refresh |-> sess[s].token, expires |-> now + Lifetime, other |-> 0]

\* The expiry counts from when the answer is there, not from when it was made.
Updated(s) ==
  [sess[s].data EXCEPT !.access = sess[s].token, !.refresh = sess[s].token,
                       !.expires = now + Lifetime]

\* The answer is there, however late: the file is replaced as a whole.
Persist(s) ==
  /\ sess[s].phase = "granted"
  /\ file' = Updated(s)
  /\ delay' = [delay EXCEPT ![sess[s].token] = now - sess[s].since]
  /\ Goto(s, "request", NoFile, sess[s].token)
  /\ UNCHANGED <<now, validTo, live, refused, lost, others, raced, trouble>>

\* The tokens in the answer to s are lost while the file needs them.
LosesTokens(s) == sess[s].phase = "granted" /\ sess[s].data.refresh = file.refresh

\* An exception while s waits: a timeout, a connection.
Fail(s) ==
  /\ sess[s].phase # "idle"
  /\ Leave(s)
  /\ lost' = (lost \/ LosesTokens(s))
  /\ UNCHANGED <<now, file, validTo, live, delay, refused, others, raced, trouble>>

-----------------------------------------------------------------------------
(* The request, the process, the user *)

InTime(s) == now < validTo[sess[s].token]

\* The server takes the request and answers it.
Serve(s) ==
  /\ sess[s].phase = "request"
  /\ InTime(s)
  /\ Leave(s)
  /\ UNCHANGED <<now, file, validTo, live, history>>

\* The server gets the request and finds the token expired.
Refuse(s) ==
  /\ sess[s].phase = "request"
  /\ ~InTime(s)
  /\ Leave(s)
  /\ refused' = refused \cup {now - sess[s].since + delay[sess[s].token]}
  /\ UNCHANGED <<now, file, validTo, live, delay, lost, others, raced, trouble>>

\* The process dies, at the latest before the new file takes the old one's
\* place.
Crash ==
  /\ trouble < MaxTrouble
  /\ trouble' = trouble + 1
  /\ sess' = [s \in Sessions |-> Idle]
  /\ lost' = (lost \/ \E s \in Sessions : LosesTokens(s))
  /\ UNCHANGED <<now, file, validTo, live, delay, refused, others, raced>>

\* opencode /connect
Connect ==
  /\ trouble < MaxTrouble
  /\ trouble' = trouble + 1
  /\ Len(validTo) < MaxIssued
  /\ validTo' = Append(validTo, now + Lifetime)
  /\ live' = live \cup {Len(validTo')}
  /\ file' = [file EXCEPT !.access = Len(validTo'), !.refresh = Len(validTo'),
                          !.expires = now + Lifetime]
  /\ delay' = Append(delay, 0)
  /\ lost' = FALSE
  /\ UNCHANGED <<now, sess, refused, others, raced>>

\* opencode writes the record of another provider.
EditOther ==
  /\ trouble < MaxTrouble
  /\ trouble' = trouble + 1
  /\ others' = others + 1
  /\ file' = [file EXCEPT !.other = others']
  /\ raced' = \E s \in Sessions : Refreshing(s)
  /\ UNCHANGED <<now, validTo, live, sess, delay, refused, lost>>

\* Requests and answers are on their way for any time: the HTTP client's
\* timeout of 120 seconds is well beyond the margin, and holds for a single
\* read or write.
Tick ==
  /\ now < MaxNow
  /\ now' = now + 1
  /\ UNCHANGED <<file, validTo, live, sess, history>>

\* What a session does once it has begun, but for the answer.
AuthStep(s) == Grant(s) \/ Deny(s) \/ Persist(s) \/ Fail(s) \/ Refuse(s)

World == Crash \/ Connect \/ EditOther \/ Tick

AuthNext == World \/ \E s \in Sessions : Load(s) \/ AuthStep(s) \/ Serve(s)

AuthSpec == AuthInit /\ [][AuthNext]_authVars

-----------------------------------------------------------------------------
(* Properties *)

Issued == 1..Len(validTo)
Files == [access : Issued \cup {0}, refresh : Issued \cup {0}, expires : Nat, other : 0..others]
Phases == {"idle", "refresh", "granted", "request"}

\* Whoever waits for the server holds the tokens to do so.
AuthTypeOK ==
  /\ now \in Nat /\ others \in Nat
  /\ validTo \in Seq(Nat)
  /\ live \subseteq Issued
  /\ file \in Files /\ (file.access # 0 => file.refresh # 0)
  /\ sess \in [Sessions -> [phase : Phases, data : Files,
                            token : Issued \cup {0}, since : 0..now]]
  /\ \A s \in Sessions :
       /\ Refreshing(s) => sess[s].data.refresh # 0
       /\ sess[s].phase \in {"granted", "request"} => sess[s].token # 0
  /\ delay \in Seq(Nat) /\ Len(delay) = Len(validTo) /\ refused \subseteq Nat
  /\ lost \in BOOLEAN /\ raced \in BOOLEAN

\* A request gets to the server with an expired token only if the answer that
\* brought the token and the request itself were longer on their way than the
\* margin, or than a token lives: the file's expiry counts from the arrival of
\* the answer (client.py:281), so the 30 seconds of client.py:261 have to
\* cover both ways.  The timeout of 120 seconds (client.py:132-133) lets
\* either be longer, and then expired tokens are used.
RefusedOnlyIfLate == \A way \in refused : way > Margin \/ way >= Lifetime

\* The refresh token of the file can still be used, its successor is about to
\* be written, or the answer with the successor was lost.
StaysLoggedIn ==
  file.refresh \in live \cup {0} \/ lost \/ \E s \in Sessions : LosesTokens(s)

\* A refresh keeps the records of the other providers, unless they were
\* written while it was under way.
OthersKept == file.other = others \/ raced

\* auth.json holds what it should: logins that work, and what others wrote.
LoginKept == AuthTypeOK /\ StaysLoggedIn /\ OthersKept
=============================================================================

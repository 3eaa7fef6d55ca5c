----------------------------- MODULE Injection -----------------------------
(***************************************************************************)
(* The process and its message queue as the producers of synthetic         *)
(* messages see them: MatrixConnector.inject_message puts a note into the  *)
(* deque, which evicts its oldest message when it is full; a turn takes    *)
(* what is there.  Both live in memory only.  (A note that finds a turn    *)
(* running is interjected instead; MessageQueue has both lanes.)           *)
(***************************************************************************)
EXTENDS Naturals, Sequences, SequencesExt

CONSTANTS MaxInbox,   \* MAX_QUEUE
          MaxDeaths   \* bound on crashes and shutdowns

ASSUME InjectionAssumption == MaxInbox \in Nat \ {0} /\ MaxDeaths \in Nat

VARIABLES
  process,   \* "down" or "up"
  inbox,     \* MessageQueue._queue
  deaths

shared == <<process, inbox, deaths>>

InboxInit ==
  /\ process = "down"
  /\ inbox = <<>>
  /\ deaths = 0

\* Nothing is awaited on the way from inject_message into the deque.
Inject(note) ==
  /\ inbox' = Append(IF Len(inbox) = MaxInbox THEN Tail(inbox) ELSE inbox, note)
  /\ UNCHANGED <<process, deaths>>

\* The debounce is over, and turns take what is there.
Hear ==
  /\ inbox # <<>>
  /\ inbox' = <<>>
  /\ UNCHANGED <<process, deaths>>

Boot ==
  /\ process = "down"
  /\ process' = "up"
  /\ UNCHANGED <<inbox, deaths>>

Die ==
  /\ process = "up"
  /\ deaths < MaxDeaths
  /\ deaths' = deaths + 1
  /\ process' = "down"
  /\ inbox' = <<>>
=============================================================================

------------------------------ MODULE Mailbox ------------------------------
(***************************************************************************)
(* What MessageQueue promises, without tasks, locks or debouncing: two     *)
(* lanes of numbered messages.  The backlog surfaces from its front only   *)
(* and may lose a message when another arrives; the messages set aside for *)
(* the running turn surface together, or are lost when the turn ends.      *)
(***************************************************************************)
EXTENDS Naturals, Sequences

VARIABLES count,     \* how many messages arrived
          backlog,   \* messages that wait for a turn
          aside,     \* messages that wait inside the running turn
          surfaced,  \* messages the agent has seen
          lost       \* messages it will never see

mailVars == <<count, backlog, aside, surfaced, lost>>

Contents(s) == {s[i] : i \in DOMAIN s}

Empty ==
  /\ count = 0
  /\ backlog = <<>>
  /\ aside = <<>>
  /\ surfaced = {}
  /\ lost = {}

\* s without its i-th element; all of s if i = 0.
Without(s, i) ==
  IF i = 0 THEN s ELSE SubSeq(s, 1, i - 1) \o SubSeq(s, i + 1, Len(s))

Arrive ==
  /\ count' = count + 1
  /\ \E i \in 0..Len(backlog) :
       /\ backlog' = Append(Without(backlog, i), count')
       /\ lost' = lost \cup {backlog[j] : j \in {i} \ {0}}
  /\ UNCHANGED <<aside, surfaced>>

ArriveAside ==
  /\ count' = count + 1
  /\ aside' = Append(aside, count')
  /\ UNCHANGED <<backlog, surfaced, lost>>

Pull ==
  /\ aside # <<>>
  /\ surfaced' = surfaced \cup Contents(aside)
  /\ aside' = <<>>
  /\ UNCHANGED <<count, backlog, lost>>

\* The turn, if one runs, ends; the next one takes the front of the backlog.
Advance ==
  /\ \E n \in 0..Len(backlog) :
       /\ n > 0 \/ aside # <<>>
       /\ surfaced' = surfaced \cup Contents(SubSeq(backlog, 1, n))
       /\ backlog' = SubSeq(backlog, n + 1, Len(backlog))
  /\ lost' = lost \cup Contents(aside)
  /\ aside' = <<>>
  /\ UNCHANGED count

MailNext == Arrive \/ ArriveAside \/ Pull \/ Advance

MailSteps == Empty /\ [][MailNext]_mailVars

\* Whatever waits gets its turn.
MailSpec == MailSteps /\ WF_mailVars(Advance)
=============================================================================

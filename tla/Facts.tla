------------------------------- MODULE Facts -------------------------------
(***************************************************************************)
(* The knowledge graph behind the memory tool: facts_add and               *)
(* facts_invalidate of concurrent sessions on the table facts.  Each call  *)
(* is a transaction of its own at READ COMMITTED: a SELECT, then at most   *)
(* one INSERT or UPDATE, then the commit; what it wrote is visible to the  *)
(* others from then on.  The table has no unique constraint.  A fact is a  *)
(* (subject, predicate, object) up to case.  The calls that only read are  *)
(* left out.                                                               *)
(***************************************************************************)
EXTENDS Naturals, Sequences, FiniteSets

CONSTANTS Callers,  \* sessions that call the tool, each one call at a time
          Triples,  \* facts, up to case
          Days,     \* dates for valid_to
          MaxCalls  \* bound on calls

ASSUME FactsAssumption == MaxCalls \in Nat /\ "open" \notin Days

Open == "open"  \* valid_to IS NULL

Quiet == [act |-> "none", fact |-> "none", row |-> 0, day |-> Open]

VARIABLES
  rows,     \* the table: facts with their valid_to, by id
  call,     \* each session's call: what it will write, to which row
  ended,    \* history: rows that were ended since a session's SELECT
  overlap,  \* history: facts that two adds missed at the same time
  calls

factVars == <<rows, call, ended, overlap, calls>>

FactsInit ==
  /\ rows = <<>>
  /\ call = [c \in Callers |-> Quiet]
  /\ ended = [c \in Callers |-> {}]
  /\ overlap = {}
  /\ calls = 0

\* Fault: facts that are no longer true match too.
MatchesEver(f) == {i \in DOMAIN rows : rows[i].fact = f}

\* The WHERE clause of add and invalidate.
Matches(f) == {i \in DOMAIN rows : rows[i].fact = f /\ rows[i].end = Open}

Begin(c, next) ==
  /\ call[c] = Quiet
  /\ calls < MaxCalls
  /\ calls' = calls + 1
  /\ call' = [call EXCEPT ![c] = next]
  /\ ended' = [ended EXCEPT ![c] = {}]
  /\ UNCHANGED rows

\* scalar_one_or_none() raises MultipleResultsFound.
Ambiguous(f) == Cardinality(Matches(f)) > 1

\* Fault: the row is inserted without looking for it.
AddBlindly(c, f) ==
  /\ Begin(c, [act |-> "insert", fact |-> f, row |-> 0, day |-> Open])
  /\ UNCHANGED overlap

\* add: the SELECT.
Add(c, f) ==
  /\ ~Ambiguous(f)
  /\ IF Matches(f) = {}
     THEN /\ Begin(c, [act |-> "insert", fact |-> f, row |-> 0, day |-> Open])
          /\ overlap' = IF \E d \in Callers : call[d].act = "insert" /\ call[d].fact = f
                        THEN overlap \cup {f} ELSE overlap
     ELSE /\ Begin(c, [act |-> "found", fact |-> f, day |-> Open,
                       row |-> CHOOSE i \in Matches(f) : TRUE])
          /\ UNCHANGED overlap

\* Fault: no date is stored as an empty one.
InvalidateUndated(c, f, day) ==
  /\ ~Ambiguous(f)
  /\ \E i \in Matches(f) :
       Begin(c, [act |-> "update", fact |-> f, row |-> i, day |-> ""])
  /\ UNCHANGED overlap

\* invalidate: the SELECT; without a match there is nothing to write.
Invalidate(c, f, day) ==
  /\ ~Ambiguous(f)
  /\ \E i \in Matches(f) :
       Begin(c, [act |-> "update", fact |-> f, row |-> i, day |-> day])
  /\ UNCHANGED overlap

\* The call ends with an error, before anything was written: two rows match,
\* or a statement or the commit fails.
CallFails(c) ==
  /\ call[c] # Quiet
  /\ call' = [call EXCEPT ![c] = Quiet]
  /\ ended' = [ended EXCEPT ![c] = {}]
  /\ UNCHANGED <<rows, overlap, calls>>

\* The commit.
Commit(c) ==
  /\ call[c] # Quiet
  /\ rows' = CASE call[c].act = "insert" -> Append(rows, [fact |-> call[c].fact, end |-> Open])
               [] call[c].act = "update" -> [rows EXCEPT ![call[c].row].end = call[c].day]
               [] OTHER -> rows
  /\ call' = [call EXCEPT ![c] = Quiet]
  /\ ended' = [d \in Callers |->
                 IF d = c THEN {}
                 ELSE IF call[c].act = "update" /\ call[d] # Quiet
                      THEN ended[d] \cup {call[c].row} ELSE ended[d]]
  /\ UNCHANGED <<overlap, calls>>

FactStep(c) ==
  \/ \E f \in Triples : Add(c, f) \/ \E day \in Days : Invalidate(c, f, day)
  \/ CallFails(c)
  \/ Commit(c)

-----------------------------------------------------------------------------
(* Properties *)

\* The rows and the calls have their types; an id that a call holds exists.
FactsTypeOK ==
  /\ \A i \in DOMAIN rows : rows[i].fact \in Triples /\ rows[i].end \in Days \cup {Open}
  /\ Len(rows) <= calls /\ calls <= MaxCalls
  /\ \A c \in Callers :
       /\ call[c].act \in {"none", "insert", "found", "update"}
       /\ call[c].row \in 0..Len(rows) /\ call[c].day \in Days \cup {Open}
       /\ ended[c] \subseteq DOMAIN rows
  /\ overlap \subseteq Triples

\* The id that add returns is an active row of the fact, unless somebody ends
\* it before the answer is out; and invalidate ends a row of that kind.
AnswersAreActive ==
  \A c \in Callers : call[c].row # 0 =>
    /\ rows[call[c].row].fact = call[c].fact
    /\ rows[call[c].row].end = Open \/ call[c].row \in ended[c]

\* A fact has one active row, but for the one case in which add() breaks its
\* promise to return the existing id "without inserting a duplicate"
\* (kg.py:61-63): two sessions whose SELECTs both came before either INSERT.
\* Then there are two, and from there on add() and invalidate() of that fact
\* raise MultipleResultsFound instead of returning (kg.py:76, 148).  OneRow is
\* what the docstring says.
DuplicatesNeedOverlap ==
  \A f \in Triples : Ambiguous(f) => f \in overlap

\* "Returns its ID without inserting a duplicate": a fact is active once.
OneRow == \A f \in Triples : ~Ambiguous(f)
=============================================================================

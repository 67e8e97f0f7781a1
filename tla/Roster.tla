------------------------------- MODULE Roster -------------------------------
(***************************************************************************)
(* Whose work it is: spoken hints matched against the people a workspace   *)
(* knows.  A name is a sequence of words, normalised; how similar two      *)
(* names look is a relation; scores and confidences are in hundredths.     *)
(* A person is its position on the roster.                                 *)
(***************************************************************************)
EXTENDS Integers, Sequences, FiniteSets

CONSTANTS
    Near,      \* pairs of names as similar as a mistyped one
    Nobody,    \* no person, no name
    NotPeople  \* speaker labels, and collectives, that name no one person

MaxNameWords == 4

\* A person: the name and the aliases, each a name.
Labels(person) == {person.name} \cup person.aliases

\* What `_match_name` returns: a person, a score in hundredths, below zero when
\* several people match; no person when nobody does.
Match(person, score) == [person |-> person, score |-> score]
NoMatch == Match(Nobody, 0)

First(people) == CHOOSE p \in people : \A q \in people : p <= q

Exact(name, roster) == {p \in DOMAIN roster : name \in Labels(roster[p])}
ByFirstName(name, roster) ==
    {p \in DOMAIN roster : \E l \in Labels(roster[p]) : name = <<l[1]>>}
Similar(name, roster) ==
    {p \in DOMAIN roster : \E l \in Labels(roster[p]) : <<name, l>> \in Near}

\* Exact, then alias, then first name, then near miss.  Of several near misses
\* the best is taken, and which one that is is not modelled further.
MatchName(name, roster) ==
    LET exact == Exact(name, roster)
        first == ByFirstName(name, roster)
        similar == Similar(name, roster)
    IN CASE exact # {} ->
              Match(First(exact), IF Cardinality(exact) = 1 THEN 100 ELSE -100)
         [] exact = {} /\ first # {} ->
              Match(First(first), IF Cardinality(first) = 1 THEN 90 ELSE -100)
         [] exact = {} /\ first = {} /\ similar # {} -> Match(First(similar), 80)
         [] OTHER -> NoMatch

\* An attribution: the owner, the confidence in hundredths and the method.
Attribution(person, confidence, method) ==
    [person |-> person, confidence |-> confidence, method |-> method]

NeedsAgent(attribution) ==
    /\ attribution.person = Nobody
    /\ attribution.method \in {"pronoun", "ambiguous", "unmatched"}

\* "I'll do it": the speaker, whatever the score of the match.
FirstPerson(speaker, roster) ==
    LET match == MatchName(speaker, roster) IN
    CASE speaker = Nobody -> Attribution(Nobody, 0, "pronoun")
      [] speaker # Nobody /\ match = NoMatch -> Attribution(Nobody, 40, "unmatched")
      [] OTHER -> Attribution(match.person, (95 * match.score) \div 100, "first_person")

\* Mutant of Named: a shared name takes the first person who bears it.
NamedFirstComer(name, roster) ==
    LET match == MatchName(name, roster) IN
    IF match = NoMatch THEN Attribution(Nobody, 30, "unmatched")
    ELSE Attribution(match.person, IF match.score < 0 THEN 50 ELSE match.score, "matched")

\* Mutant of Named: the sign of the score is not looked at.
NamedUnsigned(name, roster) ==
    LET match == MatchName(name, roster) IN
    IF match = NoMatch THEN Attribution(Nobody, 30, "unmatched")
    ELSE Attribution(match.person, match.score, "matched")

Named(name, roster) ==
    LET match == MatchName(name, roster) IN
    CASE match = NoMatch -> Attribution(Nobody, 30, "unmatched")
      [] match # NoMatch /\ match.score < 0 -> Attribution(Nobody, 0, "ambiguous")
      [] OTHER -> Attribution(match.person, match.score, "matched")

\* A hint is a kind of word or a name.
Hint == {"absent", "collective", "first person", "other person", "name"}

ResolveOwner(hint, roster, speaker) ==
    CASE hint.kind = "absent" -> Attribution(Nobody, 0, "absent")
      [] hint.kind = "collective" -> Attribution(Nobody, 0, "collective")
      [] hint.kind = "first person" -> FirstPerson(speaker, roster)
      [] hint.kind = "other person" -> Attribution(Nobody, 0, "pronoun")
      [] OTHER -> Named(hint.name, roster)

\* Mutant of Enrollable: only a label that is exactly somebody's is known.
EnrollableUnlessExact(label, roster) ==
    /\ label \notin NotPeople
    /\ Len(label) \in 1..MaxNameWords
    /\ Exact(label, roster) = {}

\* A speaker's label that names a person the roster has no match for at all.
Enrollable(label, roster) ==
    /\ label \notin NotPeople
    /\ Len(label) \in 1..MaxNameWords
    /\ MatchName(label, roster) = NoMatch

\* The labels enrolled from a transcript, each against the roster as it was
\* loaded: the ones enrolled beside it are not on it yet.
UnenrolledSpeakers(speakers, roster) == {l \in speakers : Enrollable(l, roster)}

\* The person a label becomes.
Enrolled(label) == [name |-> label, aliases |-> {label}]

=============================================================================

--------------------------- MODULE ReadingProofs ----------------------------
(***************************************************************************)
(* Theorems about Reading, for every value of its constants.               *)
(***************************************************************************)
EXTENDS Reading, SelectionProofs

(***************************************************************************)
(* Matching a name against a roster.                                       *)
(***************************************************************************)

\* Of several people there is a first on the roster.
LEMMA FirstIsOne ==
    ASSUME NEW people \in SUBSET Nat, people # {}
    PROVE  First(people) \in people
  <1>1. Lowest(people) \in people /\ \A q \in people : Lowest(people) <= q
    BY LowestIsLeast
  <1>2. QED
    BY <1>1 DEF First

\* A set with one element has that one for its first.
LEMMA FirstOfOne ==
    ASSUME NEW people \in SUBSET Nat, IsFiniteSet(people), Cardinality(people) = 1
    PROVE  people = {First(people)}
  <1>1. PICK p : people = {p}
    BY FS_Singleton
  <1>2. First(people) = p
    BY <1>1 DEF First
  <1>3. QED
    BY <1>1, <1>2

\* The people of a roster are its positions: finitely many numbers.
LEMMA Positions ==
    ASSUME NEW r, r \in Seq(Range(r)), NEW people \in SUBSET DOMAIN r
    PROVE  people \in SUBSET Nat /\ IsFiniteSet(people)
  <1>1. DOMAIN r = 1..Len(r) /\ Len(r) \in Nat
    BY LenProperties
  <1>2. IsFiniteSet(DOMAIN r)
    BY <1>1, FS_Interval
  <1>3. QED
    BY <1>1, <1>2, FS_Subset

\* Nobody matches a name exactly when nobody bears it, nor one like it.
LEMMA NobodyMatches ==
    ASSUME NEW name, NEW r
    PROVE  MatchName(name, r) = NoMatch <=>
             Exact(name, r) = {} /\ ByFirstName(name, r) = {} /\ Similar(name, r) = {}
  <1> DEFINE exact == Exact(name, r)
             first == ByFirstName(name, r)
             similar == Similar(name, r)
  <1>1. \A p, s : Match(p, s) = NoMatch => s = 0
    BY DEF Match, NoMatch
  <1>2. CASE exact # {}
    <2>1. MatchName(name, r) = Match(First(exact), IF Cardinality(exact) = 1 THEN 100 ELSE -100)
      BY <1>2 DEF MatchName
    <2>2. QED
      BY <1>1, <1>2, <2>1
  <1>3. CASE exact = {} /\ first # {}
    <2>1. MatchName(name, r) = Match(First(first), IF Cardinality(first) = 1 THEN 90 ELSE -100)
      BY <1>3 DEF MatchName
    <2>2. QED
      BY <1>1, <1>3, <2>1
  <1>4. CASE exact = {} /\ first = {} /\ similar # {}
    <2>1. MatchName(name, r) = Match(First(similar), 80)
      BY <1>4 DEF MatchName
    <2>2. QED
      BY <1>1, <1>4, <2>1
  <1>5. CASE exact = {} /\ first = {} /\ similar = {}
    BY <1>5 DEF MatchName
  <1>6. QED
    BY <1>2, <1>3, <1>4, <1>5

\* A score is a number.
LEMMA MatchScore ==
    ASSUME NEW name, NEW r
    PROVE  MatchName(name, r).score \in Int
  <1> DEFINE exact == Exact(name, r)
             first == ByFirstName(name, r)
             similar == Similar(name, r)
  <1>1. CASE exact # {}
    <2>1. MatchName(name, r) = Match(First(exact), IF Cardinality(exact) = 1 THEN 100 ELSE -100)
      BY <1>1 DEF MatchName
    <2>2. QED
      BY <2>1 DEF Match
  <1>2. CASE exact = {} /\ first # {}
    <2>1. MatchName(name, r) = Match(First(first), IF Cardinality(first) = 1 THEN 90 ELSE -100)
      BY <1>2 DEF MatchName
    <2>2. QED
      BY <2>1 DEF Match
  <1>3. CASE exact = {} /\ first = {} /\ similar # {}
    <2>1. MatchName(name, r) = Match(First(similar), 80)
      BY <1>3 DEF MatchName
    <2>2. QED
      BY <2>1 DEF Match
  <1>4. CASE exact = {} /\ first = {} /\ similar = {}
    BY <1>4 DEF MatchName, NoMatch, Match
  <1>5. QED
    BY <1>1, <1>2, <1>3, <1>4

\* A person a name is matched to without doubt is singled out by it.
LEMMA MatchedIsSingledOut ==
    ASSUME roster \in Seq(Range(roster)), NEW name,
           MatchName(name, roster) # NoMatch, MatchName(name, roster).score >= 0
    PROVE  SingledOut(MatchName(name, roster).person, name)
  <1> DEFINE exact == Exact(name, roster)
             first == ByFirstName(name, roster)
             similar == Similar(name, roster)
             p == MatchName(name, roster).person
  <1>1. /\ exact \in SUBSET DOMAIN roster
        /\ first \in SUBSET DOMAIN roster
        /\ similar \in SUBSET DOMAIN roster
    BY DEF Exact, ByFirstName, Similar
  <1>2. \A q \in DOMAIN roster : Bears(q, name) \in 0..3
    BY DEF Bears
  <1>3. CASE exact # {}
    <2>1. MatchName(name, roster)
            = Match(First(exact), IF Cardinality(exact) = 1 THEN 100 ELSE -100)
      BY <1>3 DEF MatchName
    <2>2. Cardinality(exact) = 1 /\ p = First(exact)
      BY <2>1 DEF Match
    <2>3. exact = {p}
      BY <1>1, <2>2, Positions, FirstOfOne
    <2>4. \A q \in DOMAIN roster : Bears(q, name) = 3 <=> q = p
      BY <2>3 DEF Bears, Exact
    <2>5. QED
      BY <1>1, <1>2, <2>3, <2>4 DEF SingledOut
  <1>4. CASE exact = {} /\ first # {}
    <2>1. MatchName(name, roster)
            = Match(First(first), IF Cardinality(first) = 1 THEN 90 ELSE -100)
      BY <1>4 DEF MatchName
    <2>2. Cardinality(first) = 1 /\ p = First(first)
      BY <2>1 DEF Match
    <2>3. first = {p}
      BY <1>1, <2>2, Positions, FirstOfOne
    <2>4. \A q \in DOMAIN roster : Bears(q, name) # 3
      BY <1>4 DEF Bears, Exact
    <2>5. \A q \in DOMAIN roster : Bears(q, name) = 2 <=> q = p
      BY <1>4, <2>3 DEF Bears, Exact, ByFirstName
    <2>6. QED
      BY <1>1, <1>2, <2>3, <2>4, <2>5 DEF SingledOut
  <1>5. CASE exact = {} /\ first = {} /\ similar # {}
    <2>1. MatchName(name, roster) = Match(First(similar), 80)
      BY <1>5 DEF MatchName
    <2>2. p = First(similar)
      BY <2>1 DEF Match
    <2>3. p \in similar
      BY <1>1, <1>5, <2>2, Positions, FirstIsOne
    <2>4. \A q \in DOMAIN roster :
            name \notin Labels(roster[q])
              /\ ~ (\E l \in Labels(roster[q]) : name = <<l[1]>>)
      BY <1>5 DEF Exact, ByFirstName
    <2>5. \A q \in DOMAIN roster : Bears(q, name) \in {0, 1}
      BY <2>4 DEF Bears
    <2>6. Bears(p, name) = 1
      BY <1>1, <2>3, <2>4 DEF Bears, Similar
    <2>7. QED
      BY <2>5, <2>6 DEF SingledOut
  <1>6. QED
    BY <1>3, <1>4, <1>5, NobodyMatches

(***************************************************************************)
(* Enrolling the speakers of a transcript.                                 *)
(***************************************************************************)

\* The speakers of a transcript are finitely many.
LEMMA SpeakersFinite ==
    ASSUME NEW m \in Meetings
    PROVE  IsFiniteSet(Participants(Segment(Lines[m])))
  <1> DEFINE turns == Segment(Lines[m])
             starts == TurnStarts(Lines[m])
             speakers == {turns[t].speaker : t \in DOMAIN turns}
             speaker == [t \in DOMAIN turns |-> turns[t].speaker]
  <1>1. IsFiniteSet(starts)
    <2>1. DOMAIN Lines[m] = 1..Len(Lines[m]) /\ Len(Lines[m]) \in Nat
      BY LinesAssumption, LenProperties
    <2>2. IsFiniteSet(DOMAIN Lines[m])
      BY <2>1, FS_Interval
    <2>3. starts \in SUBSET DOMAIN Lines[m]
      BY DEF TurnStarts
    <2>4. QED
      BY <2>2, <2>3, FS_Subset
  <1>2. DOMAIN turns = 1..Cardinality(starts)
    BY DEF Segment
  <1>3. IsFiniteSet(DOMAIN turns)
    BY <1>1, <1>2, FS_CardinalityType, FS_Interval
  <1>4. speaker \in Surjection(DOMAIN turns, speakers)
    BY DEF Surjection
  <1>5. IsFiniteSet(speakers)
    BY <1>3, <1>4, FS_Surjection
  <1>6. QED
    BY <1>5, FS_Subset DEF Participants

\* A finite set as a sequence has all of its elements and no others.
LEMMA SequenceOfSet ==
    ASSUME NEW S, IsFiniteSet(S)
    PROVE  /\ Cardinality(S) \in Nat
           /\ DOMAIN SetToSeq(S) = 1..Cardinality(S)
           /\ \A n \in DOMAIN SetToSeq(S) : SetToSeq(S)[n] \in S
           /\ \A x \in S : \E n \in DOMAIN SetToSeq(S) : SetToSeq(S)[n] = x
  <1> DEFINE N == Cardinality(S)
             f == SetToSeq(S)
  <1>1. N \in Nat /\ ExistsBijection(1..N, S)
    BY FS_CardinalityType
  <1>2. \E g \in [1..N -> S] : IsInjective(g)
    BY <1>1 DEF ExistsBijection, Bijection, Injection
  <1>3. f \in [1..N -> S] /\ IsInjective(f)
    BY <1>2 DEF SetToSeq
  <1>4. f \in Injection(1..N, S)
    BY <1>3 DEF Injection
  <1>5. Cardinality(1..N) = N
    BY <1>1, FS_Interval
  <1>6. f \in Surjection(1..N, S)
    BY <1>4, <1>5, FS_Injection
  <1>7. QED
    BY <1>1, <1>3, <1>6 DEF Surjection

\* The labels a transcript adds to the roster when it is posted.
Newcomers(m) == UnenrolledSpeakers(Participants(Segment(Lines[m])), roster)

\* Posting a transcript puts its newcomers behind the people there are.
LEMMA PostGrows ==
    ASSUME NEW m \in Meetings, Post(m), roster \in Seq(Range(roster))
    PROVE  /\ roster' \in Seq(Range(roster'))
           /\ DOMAIN roster \subseteq DOMAIN roster'
           /\ \A p \in DOMAIN roster : roster'[p] = roster[p]
           /\ \A p \in DOMAIN roster' \ DOMAIN roster :
                \E l \in Newcomers(m) : roster'[p] = Enrolled(l)
           /\ \A l \in Newcomers(m) : \E p \in DOMAIN roster' : roster'[p] = Enrolled(l)
           /\ Newcomers(m) = {} => roster' = roster
  <1> DEFINE new == SetToSeq(Newcomers(m))
             added == [n \in DOMAIN new |-> Enrolled(new[n])]
             All == Range(roster) \cup {Enrolled(l) : l \in Newcomers(m)}
             N == Cardinality(Newcomers(m))
  <1>1. roster' = roster \o added
    BY DEF Post, Newcomers
  <1>2. IsFiniteSet(Newcomers(m))
    BY SpeakersFinite, FS_Subset DEF Newcomers, UnenrolledSpeakers
  <1>3. /\ N \in Nat
        /\ DOMAIN new = 1..N
        /\ \A n \in DOMAIN new : new[n] \in Newcomers(m)
        /\ \A l \in Newcomers(m) : \E n \in DOMAIN new : new[n] = l
    BY <1>2, SequenceOfSet
  <1> HIDE DEF new, N
  <1>4. added \in [1..N -> All]
    BY <1>3
  <1>5. added \in Seq(All) /\ Len(added) = N
    BY <1>3, <1>4
  <1>6. roster \in Seq(All) /\ Len(roster) \in Nat /\ DOMAIN roster = 1..Len(roster)
    BY SeqMonotonic, LenProperties
  <1>7. /\ roster' \in Seq(All)
        /\ Len(roster') = Len(roster) + N
        /\ DOMAIN roster' = 1..Len(roster')
        /\ \A p \in 1..Len(roster') :
             roster'[p] = IF p <= Len(roster) THEN roster[p] ELSE added[p - Len(roster)]
    BY <1>1, <1>3, <1>5, <1>6, ConcatProperties, LenProperties
  <1>8. roster' \in [1..Len(roster') -> Range(roster')] /\ Len(roster') \in Nat
    BY <1>3, <1>6, <1>7, LenProperties DEF Range
  <1>9. roster' \in Seq(Range(roster'))
    BY <1>8
  <1>10. ASSUME NEW p \in DOMAIN roster
         PROVE  p \in DOMAIN roster' /\ roster'[p] = roster[p]
    <2>1. p \in 1..Len(roster)
      BY <1>6
    <2>2. p \in 1..Len(roster') /\ p <= Len(roster)
      BY <1>3, <1>6, <1>7, <2>1
    <2>3. QED
      BY <1>7, <2>2
  <1>11. ASSUME NEW p \in DOMAIN roster' \ DOMAIN roster
         PROVE  \E l \in Newcomers(m) : roster'[p] = Enrolled(l)
    <2>1. p - Len(roster) \in 1..N /\ roster'[p] = added[p - Len(roster)]
      BY <1>3, <1>6, <1>7
    <2>2. QED
      BY <1>3, <2>1
  <1>12. ASSUME NEW l \in Newcomers(m)
         PROVE  \E p \in DOMAIN roster' : roster'[p] = Enrolled(l)
    <2>1. PICK n \in 1..N : new[n] = l
      BY <1>3
    <2>2. Len(roster) + n \in 1..Len(roster') /\ ~ (Len(roster) + n <= Len(roster))
      BY <1>3, <1>6, <1>7, <2>1
    <2>3. (Len(roster) + n) - Len(roster) = n
      BY <1>6, <2>1
    <2>4. roster'[Len(roster) + n] = added[n]
      BY <1>7, <2>2, <2>3
    <2>5. QED
      BY <1>3, <1>7, <2>1, <2>2, <2>4
  <1>13. ASSUME Newcomers(m) = {}
         PROVE  roster' = roster
    <2>1. N = 0
      BY <1>2, <1>13, FS_EmptySet DEF N
    <2>2. Len(roster') = Len(roster) /\ \A p \in 1..Len(roster) : roster'[p] = roster[p]
      BY <1>6, <1>7, <2>1
    <2>3. QED
      BY <1>6, <1>7, <2>2, SeqEqual
  <1>14. QED
    BY <1>9, <1>10, <1>11, <1>12, <1>13

\* Whom the roster had no match for is nobody there under that name.
LEMMA UnmatchedIsUnknown ==
    ASSUME NEW name, MatchName(name, roster) = NoMatch, NEW q \in DOMAIN roster
    PROVE  Bears(q, name) = 0
  <1>1. /\ name \notin Labels(roster[q])
        /\ ~ (\E l \in Labels(roster[q]) : name = <<l[1]>>)
        /\ ~ (\E l \in Labels(roster[q]) : <<name, l>> \in Near)
    BY NobodyMatches DEF Exact, ByFirstName, Similar
  <1>2. QED
    BY <1>1 DEF Bears

\* A label that is on the roster, or that the roster had a match for, is matched
\* on the roster it grows into.
LEMMA MatchesStay ==
    ASSUME NEW r, NEW s, NEW name,
           DOMAIN r \subseteq DOMAIN s, \A p \in DOMAIN r : s[p] = r[p],
           MatchName(name, s) = NoMatch
    PROVE  MatchName(name, r) = NoMatch
  <1>1. /\ Exact(name, s) = {}
        /\ ByFirstName(name, s) = {}
        /\ Similar(name, s) = {}
    BY NobodyMatches
  <1>2. /\ Exact(name, r) \subseteq Exact(name, s)
        /\ ByFirstName(name, r) \subseteq ByFirstName(name, s)
        /\ Similar(name, r) \subseteq Similar(name, s)
    BY DEF Exact, ByFirstName, Similar
  <1>3. QED
    BY <1>1, <1>2, NobodyMatches

\* The roster has everybody who spoke in a transcript that was submitted and can
\* be enrolled.
Enrolments ==
    /\ roster \in Seq(Range(roster))
    /\ submitted \subseteq Meetings
    /\ \A m \in submitted : Newcomers(m) = {}

\* After a transcript is posted nobody of it is left to enrol, and nobody of
\* those posted before.
LEMMA PostSettles ==
    ASSUME Enrolments, NEW m \in Meetings, Post(m)
    PROVE  Enrolments'
  <1>1. /\ roster' \in Seq(Range(roster'))
        /\ DOMAIN roster \subseteq DOMAIN roster'
        /\ \A p \in DOMAIN roster : roster'[p] = roster[p]
        /\ \A l \in Newcomers(m) : \E p \in DOMAIN roster' : roster'[p] = Enrolled(l)
    BY PostGrows DEF Enrolments
  <1>2. submitted' = submitted \cup {m}
    BY DEF Post
  <1>3. ASSUME NEW k \in submitted', NEW l \in Newcomers(k)'
        PROVE  FALSE
    <2>1. /\ l \in Participants(Segment(Lines[k]))
          /\ Enrollable(l, roster')
      BY <1>3 DEF Newcomers, UnenrolledSpeakers
    <2>2. MatchName(l, roster') = NoMatch
      BY <2>1 DEF Enrollable
    <2>3. Enrollable(l, roster)
      BY <1>1, <2>1, <2>2, MatchesStay DEF Enrollable
    <2>4. l \in Newcomers(k)
      BY <2>1, <2>3 DEF Newcomers, UnenrolledSpeakers
    <2>5. k = m
      BY <1>2, <2>4 DEF Enrolments
    <2>6. PICK p \in DOMAIN roster' : roster'[p] = Enrolled(l)
      BY <1>1, <2>4, <2>5
    <2>7. p \in Exact(l, roster')
      BY <2>6 DEF Exact, Labels, Enrolled
    <2>8. QED
      BY <2>2, <2>7, NobodyMatches
  <1>4. QED
    BY <1>1, <1>2, <1>3 DEF Enrolments

LEMMA InitEnrolments == Init => Enrolments
  BY PeopleAssumption DEF Init, Enrolments

LEMMA StepEnrolments == Enrolments /\ [Next]_vars => Enrolments'
  <1> SUFFICES ASSUME Enrolments, [Next]_vars PROVE Enrolments'
    OBVIOUS
  <1>1. ASSUME UNCHANGED <<roster, submitted>>
        PROVE  Enrolments'
    BY <1>1 DEF Enrolments, Newcomers
  <1>2. CASE Reply \/ ReviewReply \/ ResolveItems \/ Save \/ UNCHANGED vars
    BY <1>1, <1>2 DEF Reply, ReviewReply, ResolveItems, Save, vars
  <1>3. QED
    BY <1>2, PostSettles DEF Next

\* A transcript that was submitted before enrols nobody, and nobody is enrolled
\* whom somebody there resembles.
LEMMA StepSettles ==
    Enrolments /\ [Next]_vars =>
      [ /\ meeting' \in submitted => roster' = roster
        /\ \A p \in DOMAIN roster' \ DOMAIN roster, q \in DOMAIN roster :
             Bears(q, roster'[p].name) = 0 ]_<<roster, submitted, meeting, step>>
  <1> SUFFICES ASSUME Enrolments, [Next]_vars,
                      <<roster, submitted, meeting, step>>' # <<roster, submitted, meeting, step>>
               PROVE  /\ meeting' \in submitted => roster' = roster
                      /\ \A p \in DOMAIN roster' \ DOMAIN roster, q \in DOMAIN roster :
                           Bears(q, roster'[p].name) = 0
    OBVIOUS
  <1>1. CASE roster' = roster
    BY <1>1
  <1>2. ASSUME NEW m \in Meetings, Post(m)
        PROVE  /\ meeting' \in submitted => roster' = roster
               /\ \A p \in DOMAIN roster' \ DOMAIN roster, q \in DOMAIN roster :
                    Bears(q, roster'[p].name) = 0
    <2>1. meeting' = m
      BY <1>2 DEF Post
    <2>2. meeting' \in submitted => roster' = roster
      BY <1>2, <2>1, PostGrows DEF Enrolments
    <2>3. ASSUME NEW p \in DOMAIN roster' \ DOMAIN roster, NEW q \in DOMAIN roster
          PROVE  Bears(q, roster'[p].name) = 0
      <3>1. PICK l \in Newcomers(m) : roster'[p] = Enrolled(l)
        BY <1>2, PostGrows DEF Enrolments
      <3>2. roster'[p].name = l /\ MatchName(l, roster) = NoMatch
        BY <3>1 DEF Enrolled, Newcomers, UnenrolledSpeakers, Enrollable
      <3>3. QED
        BY <3>2, UnmatchedIsUnknown
    <2>4. QED
      BY <2>2, <2>3
  <1>3. CASE Reply \/ ReviewReply \/ ResolveItems \/ Save \/ UNCHANGED vars
    <2>1. roster' = roster
      BY <1>3 DEF Reply, ReviewReply, ResolveItems, Save, vars
    <2>2. QED
      BY <1>1, <2>1
  <1>4. QED
    BY <1>2, <1>3 DEF Next

\* Nobody is enrolled whom the roster knows under a name like it, and a transcript
\* that is submitted again enrols nobody (roster.py 238-283, meetings.py 77-116).
THEOREM EnrolmentSettled == Spec => EnrolmentSettles
  <1>1. Spec => []Enrolments
    BY InitEnrolments, StepEnrolments, PTL DEF Spec
  <1>2. QED
    BY <1>1, StepSettles, PTL DEF Spec, EnrolmentSettles

(***************************************************************************)
(* Attributing an item.                                                    *)
(***************************************************************************)

\* A name that is attributed singles its person out.
LEMMA NamedIsSingledOut ==
    ASSUME roster \in Seq(Range(roster)), NEW name
    PROVE  /\ Named(name, roster).method \in {"matched", "unmatched", "ambiguous"}
           /\ Named(name, roster).method = "matched" =>
                SingledOut(Named(name, roster).person, name)
           /\ Named(name, roster).person # Nobody =>
                SingledOut(Named(name, roster).person, name)
  <1> DEFINE match == MatchName(name, roster)
  <1>1. CASE match = NoMatch
    <2>1. Named(name, roster) = Attribution(Nobody, 30, "unmatched")
      BY <1>1 DEF Named
    <2>2. QED
      BY <2>1 DEF Attribution
  <1>2. CASE match # NoMatch /\ match.score < 0
    <2>1. Named(name, roster) = Attribution(Nobody, 0, "ambiguous")
      BY <1>2 DEF Named
    <2>2. QED
      BY <2>1 DEF Attribution
  <1>3. CASE match # NoMatch /\ ~ (match.score < 0)
    <2>1. Named(name, roster) = Attribution(match.person, match.score, "matched")
      BY <1>3 DEF Named
    <2>2. match.score >= 0
      BY <1>3, MatchScore
    <2>3. QED
      BY <1>3, <2>1, <2>2, MatchedIsSingledOut DEF Attribution
  <1>4. QED
    BY <1>1, <1>2, <1>3

\* The methods of an attribution that no agent made.
LEMMA ResolvedIsSingledOut ==
    ASSUME roster \in Seq(Range(roster)), NEW hint, NEW speaker
    PROVE  LET matched == ResolveOwner(hint, roster, speaker) IN
           /\ matched.method # "attributor"
           /\ matched.method = "matched" => SingledOut(matched.person, hint.name)
  <1> DEFINE matched == ResolveOwner(hint, roster, speaker)
             Kinds == {"absent", "collective", "first person", "other person"}
  <1>1. CASE hint.kind \in Kinds \ {"first person"}
    <2>1. \/ matched = Attribution(Nobody, 0, "absent")
          \/ matched = Attribution(Nobody, 0, "collective")
          \/ matched = Attribution(Nobody, 0, "pronoun")
      BY <1>1 DEF ResolveOwner
    <2>2. matched.method \in {"absent", "collective", "pronoun"}
      BY <2>1 DEF Attribution
    <2>3. QED
      BY <2>2
  <1>2. CASE hint.kind = "first person"
    <2>1. matched = FirstPerson(speaker, roster)
      BY <1>2 DEF ResolveOwner
    <2>2. matched.method \in {"pronoun", "unmatched", "first_person"}
      BY <2>1 DEF FirstPerson, Attribution
    <2>3. QED
      BY <2>2
  <1>3. CASE hint.kind \notin Kinds
    <2>1. matched = Named(hint.name, roster)
      BY <1>3 DEF ResolveOwner
    <2>2. QED
      BY <2>1, NamedIsSingledOut
  <1>4. QED
    BY <1>1, <1>2, <1>3

\* What the Attributor's answer comes to.
LEMMA AnsweredIsSingledOut ==
    ASSUME roster \in Seq(Range(roster)), NEW answer
    PROVE  LET given == AttributionFrom(answer, roster) IN
           /\ given.method # "matched"
           /\ given.method = "attributor" => SingledOut(given.person, answer.name)
  <1> DEFINE given == AttributionFrom(answer, roster)
             named == Named(answer.name, roster)
  <1>1. CASE answer.name = <<>> \/ named.person = Nobody
    <2>1. given = Attribution(Nobody, 0, "ambiguous") \/ given = Attribution(Nobody, 0, "unmatched")
      BY <1>1 DEF AttributionFrom
    <2>2. QED
      BY <2>1 DEF Attribution
  <1>2. CASE answer.name # <<>> /\ named.person # Nobody
    <2>1. given = Attribution(named.person,
                              IF answer.confidence < named.confidence THEN answer.confidence
                                                                      ELSE named.confidence,
                              "attributor")
      BY <1>2 DEF AttributionFrom
    <2>2. given.method = "attributor" /\ given.person = named.person
      BY <2>1 DEF Attribution
    <2>3. QED
      BY <1>2, <2>2, NamedIsSingledOut
  <1>3. QED
    BY <1>1, <1>2

\* The owners of the items are what they were resolved to, on this roster, from
\* these items; before they are resolved there are none.
Attributed ==
    /\ step \in {"posted", "corrected", "extracted", "reviewed"} => owners = <<>>
    /\ \A i \in DOMAIN owners :
         \E s \in OwnerAnswers : owners[i] = OwnerOf(lines, roster, batch[i], s)

LEMMA InitAttributed == Init => Attributed
  BY DEF Init, Attributed

LEMMA StepAttributed == Attributed /\ [Next]_vars => Attributed'
  <1> SUFFICES ASSUME Attributed, [Next]_vars PROVE Attributed'
    OBVIOUS
  <1>1. ASSUME owners' = <<>>
        PROVE  Attributed'
    BY <1>1 DEF Attributed
  <1>2. ASSUME NEW m \in Meetings, Post(m)
        PROVE  Attributed'
    BY <1>1, <1>2 DEF Post
  <1>3. CASE Reply
    BY <1>1, <1>3 DEF Reply, Attributed
  <1>4. CASE ReviewReply
    BY <1>1, <1>4 DEF ReviewReply, Attributed
  <1>5. CASE ResolveItems
    <2>1. step' = "resolved" /\ UNCHANGED <<roster, meeting, batch>>
      BY <1>5 DEF ResolveItems
    <2>2. PICK named \in [Obligations(reviewed) -> OwnerAnswers] :
            owners' = [i \in Obligations(reviewed) |->
                         OwnerOf(Lines[meeting], roster, batch[i], named[i])]
      BY <1>5 DEF ResolveItems
    <2>3. \A i \in DOMAIN owners' :
            \E s \in OwnerAnswers : owners'[i] = OwnerOf(Lines[meeting], roster, batch[i], s)
      BY <2>2
    <2>4. QED
      BY <2>1, <2>3 DEF Attributed, lines
  <1>6. CASE Save
    <2>1. step' \in {"saved", "refused"} /\ UNCHANGED <<roster, meeting, batch, owners>>
      BY <1>6 DEF Save, work
    <2>2. QED
      BY <2>1 DEF Attributed, lines
  <1>7. CASE UNCHANGED vars
    BY <1>7 DEF vars, work, Attributed, lines
  <1>8. QED
    BY <1>2, <1>3, <1>4, <1>5, <1>6, <1>7 DEF Next

\* A person named as owner is singled out by the name that was said, or by the
\* one the Attributor answered; a shared name leaves the owner open
\* (roster.py 138-165, resolution.py 199-238).
THEOREM NobodyGuessed == Spec => []NobodyIsGuessed
  <1>1. Enrolments /\ Attributed => NobodyIsGuessed
    <2> SUFFICES ASSUME Enrolments, Attributed, NEW i \in DOMAIN owners
                 PROVE  /\ owners[i].method = "matched" =>
                             SingledOut(owners[i].person, batch[i].owner.name)
                        /\ owners[i].method = "attributor" =>
                             \E a \in UNION {Range(s) : s \in OwnerAnswers} :
                               SingledOut(owners[i].person, a.name)
      BY DEF NobodyIsGuessed
    <2>1. PICK s \in OwnerAnswers : owners[i] = OwnerOf(lines, roster, batch[i], s)
      BY DEF Attributed
    <2>2. roster \in Seq(Range(roster))
      BY DEF Enrolments
    <2> DEFINE matched == ResolveOwner(batch[i].owner, roster, SpeakerFor(lines, batch[i]))
    <2>3. CASE NeedsAgent(matched) /\ s # <<>>
      <3>1. owners[i] = AttributionFrom(s[1], roster)
        BY <2>1, <2>3 DEF OwnerOf
      <3>2. s[1] \in Range(s)
        BY <2>3, AnswersAssumption, EmptySeq, LenProperties DEF Range
      <3>3. QED
        BY <2>2, <3>1, <3>2, AnsweredIsSingledOut
    <2>4. CASE ~ (NeedsAgent(matched) /\ s # <<>>)
      <3>1. owners[i] = matched
        BY <2>1, <2>4 DEF OwnerOf
      <3>2. QED
        BY <2>2, <3>1, ResolvedIsSingledOut
    <2>5. QED
      BY <2>3, <2>4
  <1>2. Spec => []Enrolments
    BY InitEnrolments, StepEnrolments, PTL DEF Spec
  <1>3. Spec => []Attributed
    BY InitAttributed, StepAttributed, PTL DEF Spec
  <1>4. QED
    BY <1>1, <1>2, <1>3, PTL

-----------------------------------------------------------------------------
(***************************************************************************)
(* What grounding and review make of a batch.                              *)
(***************************************************************************)

\* The evidence of an item stands where its quotes are found, and begins with the
\* first of them that is.
LEMMA Evidenced ==
    ASSUME NEW L, NEW item, item.quotes \in Seq(Range(item.quotes))
    PROVE  /\ Places(L, item) = {Locate(L, q) : q \in Range(item.quotes)} \ {0}
           /\ Places(L, item) # {} =>
                LET quotes == item.quotes
                    n == Lowest({k \in DOMAIN quotes : Locate(L, quotes[k]) # 0})
                IN /\ n \in DOMAIN quotes /\ Locate(L, quotes[n]) # 0
                   /\ Verified(L, quotes)[1].turn = TurnIndex(Segment(L), L, quotes[n].text)
  <1> DEFINE quotes == item.quotes
             at == {k \in DOMAIN quotes : Locate(L, quotes[k]) # 0}
             found == Select(quotes, at)
             evidence == Verified(L, quotes)
  <1>1. at \in SUBSET DOMAIN quotes
    OBVIOUS
  <1>2. evidence = [i \in DOMAIN found |->
                      [text |-> found[i].text, place |-> Locate(L, found[i]),
                       turn |-> TurnIndex(Segment(L), L, found[i].text)]]
    BY DEF Verified
  <1>3. \A k \in DOMAIN quotes : k \in at <=> Locate(L, quotes[k]) # 0
    OBVIOUS
  <1> HIDE DEF at
  <1>4. /\ at \in SUBSET Nat
        /\ found \in Seq(Range(quotes)) /\ Len(found) = Cardinality(at)
        /\ \A n \in DOMAIN found : \E k \in at : found[n] = quotes[k]
        /\ \A k \in at : \E n \in DOMAIN found : found[n] = quotes[k]
        /\ found = <<>> <=> at = {}
        /\ at # {} => found[1] = quotes[Lowest(at)]
    <2> DEFINE V == Range(quotes)
    <2>1. quotes \in Seq(V)
      OBVIOUS
    <2> HIDE DEF quotes, V
    <2>2. /\ at \in SUBSET Nat
          /\ Select(quotes, at) \in Seq(V)
          /\ Len(Select(quotes, at)) = Cardinality(at)
          /\ \A n \in DOMAIN Select(quotes, at) : \E k \in at : Select(quotes, at)[n] = quotes[k]
          /\ \A k \in at : \E n \in DOMAIN Select(quotes, at) : Select(quotes, at)[n] = quotes[k]
          /\ Select(quotes, at) = <<>> <=> at = {}
          /\ at # {} => Select(quotes, at)[1] = quotes[Lowest(at)]
      BY <1>1, <2>1, SelectKeeps
    <2>3. QED
      BY <2>2 DEF V
  <1> HIDE DEF found
  <1>5. Places(L, item) = {Locate(L, found[n]) : n \in DOMAIN found}
    BY <1>2 DEF Places
  <1>6. Places(L, item) = {Locate(L, q) : q \in Range(quotes)} \ {0}
    <2>1. ASSUME NEW n \in DOMAIN found
          PROVE  Locate(L, found[n]) \in {Locate(L, q) : q \in Range(quotes)} \ {0}
      BY <1>1, <1>3, <1>4 DEF Range
    <2>2. ASSUME NEW q \in Range(quotes), Locate(L, q) # 0
          PROVE  \E n \in DOMAIN found : found[n] = q
      <3>1. PICK k \in DOMAIN quotes : quotes[k] = q
        BY DEF Range
      <3>2. k \in at
        BY <1>3, <2>2, <3>1
      <3>3. QED
        BY <1>4, <3>1, <3>2
    <2>3. QED
      BY <1>5, <2>1, <2>2
  <1>7. ASSUME Places(L, item) # {}
        PROVE  /\ Lowest(at) \in DOMAIN quotes /\ Locate(L, quotes[Lowest(at)]) # 0
               /\ evidence[1].turn = TurnIndex(Segment(L), L, quotes[Lowest(at)].text)
    <2>1. found # <<>> /\ at # {}
      BY <1>4, <1>5, <1>7, EmptySeq
    <2>2. Lowest(at) \in at
      BY <1>4, <2>1, LowestIsLeast
    <2>3. 1 \in DOMAIN found
      BY <1>4, <2>1, LenProperties, EmptySeq
    <2>4. evidence[1].turn = TurnIndex(Segment(L), L, found[1].text)
      BY <1>2, <2>3
    <2>5. QED
      BY <1>1, <1>3, <1>4, <2>1, <2>2, <2>4
  <1>8. QED
    BY <1>6, <1>7 DEF at

\* Grounding a batch item by item is possible in one way only in so far as that
\* it keeps an item if and only if it is found and none it kept before is its twin.
LEMMA Grounded ==
    ASSUME NEW L, NEW b, b \in Seq(Range(b))
    PROVE  /\ Ground(L, b) \in SUBSET DOMAIN b
           /\ \A i \in DOMAIN b :
                i \in Ground(L, b) <=>
                  /\ Places(L, b[i]) # {}
                  /\ ~ \E j \in Ground(L, b) : j < i /\ Twins(L, b[i], b[j])
  <1> DEFINE Keeps(kept, i) == /\ Places(L, b[i]) # {}
                               /\ ~ \E j \in kept : j < i /\ Twins(L, b[i], b[j])
             UpTo(n) == \E kept \in SUBSET (1..n) : \A i \in 1..n : i \in kept <=> Keeps(kept, i)
             bad == {n \in Nat : ~ UpTo(n)}
  <1>1. ASSUME NEW n \in Nat, UpTo(n)
        PROVE  UpTo(n + 1)
    <2>1. PICK kept \in SUBSET (1..n) : \A i \in 1..n : i \in kept <=> Keeps(kept, i)
      BY <1>1
    <2> DEFINE more == IF Keeps(kept, n + 1) THEN kept \cup {n + 1} ELSE kept
    <2>2. \A j \in kept : j \in Int /\ j <= n
      OBVIOUS
    <2>3. ASSUME NEW i \in 1..(n + 1)
          PROVE  Keeps(more, i) <=> Keeps(kept, i)
      <3>1. ~ (n + 1 < i)
        OBVIOUS
      <3>2. QED
        BY <3>1
    <2>4. ASSUME NEW i \in 1..(n + 1)
          PROVE  i \in more <=> Keeps(kept, i)
      <3>1. CASE i = n + 1
        BY <2>2, <3>1
      <3>2. CASE i # n + 1
        <4>1. i \in 1..n
          BY <3>2
        <4> HIDE DEF Keeps
        <4>2. QED
          BY <2>1, <3>2, <4>1
      <3>3. QED
        BY <3>1, <3>2
    <2>5. more \in SUBSET (1..(n + 1))
      <3> HIDE DEF Keeps
      <3>1. QED
        OBVIOUS
    <2> HIDE DEF more, Keeps
    <2>6. QED
      BY <2>3, <2>4, <2>5
  <1>2. UpTo(0)
    <2>1. 1..0 = {}
      OBVIOUS
    <2> HIDE DEF Keeps
    <2>2. QED
      BY <2>1
  <1> HIDE DEF UpTo
  <1>3. \A n \in Nat : UpTo(n)
    <2>1. SUFFICES ASSUME bad # {} PROVE FALSE
      OBVIOUS
    <2> DEFINE low == Lowest(bad)
    <2>2. low \in bad /\ \A m \in bad : low <= m
      BY <2>1, LowestIsLeast
    <2> HIDE DEF low
    <2>3. low # 0 /\ low \in Nat
      BY <1>2, <2>2
    <2>4. low - 1 \in Nat /\ low - 1 \notin bad
      BY <2>2, <2>3
    <2>5. UpTo((low - 1) + 1)
      BY <1>1, <2>4
    <2>6. QED
      BY <2>2, <2>3, <2>5
  <1>4. DOMAIN b = 1..Len(b) /\ Len(b) \in Nat
    BY LenProperties
  <1>5. UpTo(Len(b))
    BY <1>3, <1>4
  <1>6. \E kept \in SUBSET DOMAIN b : \A i \in DOMAIN b : i \in kept <=> Keeps(kept, i)
    <2> HIDE DEF Keeps
    <2>1. QED
      BY <1>4, <1>5 DEF UpTo
  <1>7. QED
    BY <1>6 DEF Ground

\* The verdict on a candidate is one that was given on it, or to keep it.
LEMMA VerdictGiven ==
    ASSUME NEW s, s \in Seq(Range(s)), NEW index
    PROVE  \/ VerdictOn(s, index).verdict = "keep"
           \/ VerdictOn(s, index) \in Range(s) /\ VerdictOn(s, index).index = index
  <1> DEFINE mine == {n \in DOMAIN s : s[n].index = index}
  <1>1. DOMAIN s = 1..Len(s) /\ Len(s) \in Nat
    BY LenProperties
  <1>2. IsFiniteSet(DOMAIN s) /\ DOMAIN s \in SUBSET Int
    BY <1>1, FS_Interval
  <1>3. mine \in SUBSET DOMAIN s
    OBVIOUS
  <1>4. \A n \in mine : s[n] \in Range(s) /\ s[n].index = index
    BY DEF Range
  <1>5. CASE mine = {}
    <2> DEFINE keep == [index |-> index, verdict |-> "keep", class |-> ""]
    <2>1. VerdictOn(s, index) = keep
      BY <1>5 DEF VerdictOn
    <2>2. keep.verdict = "keep"
      BY Zenon
    <2> HIDE DEF keep
    <2>3. VerdictOn(s, index).verdict = "keep"
      BY <2>1, <2>2
    <2>4. QED
      BY <2>3
  <1>6. CASE mine # {}
    <2>1. VerdictOn(s, index) = s[Highest(mine)]
      BY <1>6 DEF VerdictOn
    <2> HIDE DEF mine
    <2>2. IsFiniteSet(mine) /\ mine \in SUBSET Int
      BY <1>2, <1>3, FS_Subset
    <2>3. Highest(mine) \in mine
      BY <1>6, <2>2, HighestIsGreatest
    <2>4. QED
      BY <1>4, <2>1, <2>3
  <1>7. QED
    BY <1>5, <1>6

\* The items of a batch that are sent to review.
Sent(L, b) == {i \in Ground(L, b) : b[i].class # "decision"}

\* Each item that is sent is rejected or leaves with a class, by the verdict for
\* the number of items that were sent before it.
LEMMA ReviewOf ==
    ASSUME NEW L, NEW b, b \in Seq(Range(b)), NEW s
    PROVE  LET left == Review(b, Candidates(L, b), s)
               On(i) == VerdictOn(s, Cardinality(Below(Sent(L, b), i)))
           IN /\ Sent(L, b) \in SUBSET DOMAIN b
              /\ left.rejected \cup DOMAIN left.class = Sent(L, b)
              /\ \A i \in left.rejected : On(i).verdict = "reject"
              /\ \A i \in DOMAIN left.class : left.class[i] = ClassAfter(On(i), b[i].class)
  <1> DEFINE sent == Sent(L, b)
             order == Ascending(sent)
             left == Review(b, order, s)
             On(i) == VerdictOn(s, Cardinality(Below(sent, i)))
             rejected == {n \in DOMAIN order : Verdict(s, n).verdict = "reject"}
             kept == {order[n] : n \in DOMAIN order \ rejected}
             At(i) == CHOOSE n \in DOMAIN order : order[n] = i
  <1>1. Candidates(L, b) = order
    BY DEF Candidates, Sent
  <1>2. sent \in SUBSET DOMAIN b
    BY Grounded DEF Sent
  <1>3. IsFiniteSet(sent) /\ sent \in SUBSET Int
    <2>1. DOMAIN b = 1..Len(b) /\ Len(b) \in Nat
      BY LenProperties
    <2>2. IsFiniteSet(DOMAIN b) /\ DOMAIN b \in SUBSET Int
      BY <2>1, FS_Interval
    <2>3. QED
      BY <1>2, <2>2, FS_Subset
  <1>4. /\ DOMAIN order = 1..Cardinality(sent) /\ Cardinality(sent) \in Nat
        /\ \A n \in DOMAIN order : order[n] \in sent /\ Cardinality(Below(sent, order[n])) = n - 1
        /\ \A i \in sent : \E n \in DOMAIN order : order[n] = i
    BY <1>3, AscendingLists, FS_CardinalityType, LenProperties
  <1>5. /\ left.rejected = {order[n] : n \in rejected}
        /\ DOMAIN left.class = kept
        /\ \A i \in kept : left.class[i] = ClassAfter(Verdict(s, At(i)), b[order[At(i)]].class)
    BY Zenon DEF Review
  <1> HIDE DEF sent, order, left
  <1>6. \A n \in DOMAIN order : Verdict(s, n) = On(order[n])
    BY <1>4 DEF Verdict
  <1>7. ASSUME NEW i \in left.rejected
        PROVE  On(i).verdict = "reject"
    BY <1>5, <1>6
  <1>8. ASSUME NEW i \in DOMAIN left.class
        PROVE  left.class[i] = ClassAfter(On(i), b[i].class)
    <2>1. i \in kept /\ \E n \in DOMAIN order : order[n] = i
      BY <1>5
    <2> DEFINE n == At(i)
    <2>2. n \in DOMAIN order /\ order[n] = i
      BY <2>1
    <2>3. left.class[i] = ClassAfter(Verdict(s, n), b[order[n]].class)
      BY <1>5, <2>1
    <2> HIDE DEF n
    <2>4. Verdict(s, n) = On(i)
      BY <1>6, <2>2
    <2> HIDE DEF On
    <2>5. QED
      BY <2>2, <2>3, <2>4
  <1>9. left.rejected \cup DOMAIN left.class = sent
    <2>1. \A i \in left.rejected \cup DOMAIN left.class : i \in sent
      BY <1>4, <1>5
    <2>2. ASSUME NEW i \in sent
          PROVE  i \in left.rejected \cup DOMAIN left.class
      <3>1. PICK n \in DOMAIN order : order[n] = i
        BY <1>4
      <3>2. n \in rejected \/ n \in DOMAIN order \ rejected
        BY <3>1
      <3> HIDE DEF rejected
      <3>3. QED
        BY <1>5, <3>1, <3>2
    <2>3. QED
      BY <2>1, <2>2
  <1>10. QED
    BY <1>1, <1>2, <1>7, <1>8, <1>9 DEF sent, left

-----------------------------------------------------------------------------
(***************************************************************************)
(* What an attribution may be.                                             *)
(***************************************************************************)

\* A name that matches has a person who bears it, with one of four scores; with
\* the negative one, two people bear it alike.
LEMMA MatchedPerson ==
    ASSUME roster \in Seq(Range(roster)), NEW name, MatchName(name, roster) # NoMatch
    PROVE  LET match == MatchName(name, roster) IN
           /\ match.person \in DOMAIN roster /\ Bears(match.person, name) > 0
           /\ match.score \in {100, 90, 80, -100}
           /\ match.score = -100 =>
                \E p, q \in DOMAIN roster :
                  p # q /\ Bears(p, name) > 1 /\ Bears(p, name) = Bears(q, name)
  <1> DEFINE exact == Exact(name, roster)
             first == ByFirstName(name, roster)
             similar == Similar(name, roster)
             match == MatchName(name, roster)
  <1>1. /\ exact \in SUBSET DOMAIN roster
        /\ first \in SUBSET DOMAIN roster
        /\ similar \in SUBSET DOMAIN roster
    BY DEF Exact, ByFirstName, Similar
  <1>2. ASSUME NEW people \in SUBSET DOMAIN roster, people # {}
        PROVE  /\ First(people) \in people
               /\ Cardinality(people) # 1 => \E p, q \in people : p # q
    <2>1. people \in SUBSET Nat /\ IsFiniteSet(people)
      BY Positions
    <2>2. First(people) \in people
      BY <1>2, <2>1, FirstIsOne
    <2>3. ASSUME \A q \in people : q = First(people)
          PROVE  Cardinality(people) = 1
      <3>1. people = {First(people)}
        BY <2>2, <2>3
      <3>2. QED
        BY <3>1, FS_Singleton
    <2>4. QED
      BY <2>2, <2>3
  <1>3. \A p \in DOMAIN roster : p \in exact => Bears(p, name) = 3
    BY DEF Bears, Exact
  <1>4. ASSUME exact = {}, NEW p \in DOMAIN roster
        PROVE  p \in first => Bears(p, name) = 2
    BY <1>4 DEF Bears, Exact, ByFirstName
  <1>5. ASSUME exact = {}, first = {}, NEW p \in DOMAIN roster
        PROVE  p \in similar => Bears(p, name) = 1
    BY <1>5 DEF Bears, Exact, ByFirstName, Similar
  <1>6. CASE exact # {}
    <2>1. match = Match(First(exact), IF Cardinality(exact) = 1 THEN 100 ELSE -100)
      BY <1>6 DEF MatchName
    <2>2. match.person = First(exact) /\ match.score = IF Cardinality(exact) = 1 THEN 100 ELSE -100
      BY <2>1 DEF Match
    <2> HIDE DEF exact, match
    <2>3. QED
      BY <1>1, <1>2, <1>3, <1>6, <2>2 DEF match
  <1>7. CASE exact = {} /\ first # {}
    <2>1. match = Match(First(first), IF Cardinality(first) = 1 THEN 90 ELSE -100)
      BY <1>7 DEF MatchName
    <2>2. match.person = First(first) /\ match.score = IF Cardinality(first) = 1 THEN 90 ELSE -100
      BY <2>1 DEF Match
    <2> HIDE DEF exact, first, match
    <2>3. QED
      BY <1>1, <1>2, <1>4, <1>7, <2>2 DEF match
  <1>8. CASE exact = {} /\ first = {} /\ similar # {}
    <2>1. match = Match(First(similar), 80)
      BY <1>8 DEF MatchName
    <2>2. match.person = First(similar) /\ match.score = 80
      BY <2>1 DEF Match
    <2> HIDE DEF exact, first, similar, match
    <2>3. QED
      BY <1>1, <1>2, <1>5, <1>8, <2>2 DEF match
  <1>9. QED
    BY <1>6, <1>7, <1>8, NobodyMatches

\* An attribution by name is to somebody on the roster or nobody, and in range.
LEMMA NamedType ==
    ASSUME roster \in Seq(Range(roster)), NEW name
    PROVE  /\ Named(name, roster).person \in DOMAIN roster \cup {Nobody}
           /\ Named(name, roster).confidence \in 0..100
           /\ Named(name, roster).method # "first_person"
  <1> DEFINE match == MatchName(name, roster)
  <1>1. CASE match = NoMatch
    <2>1. Named(name, roster) = Attribution(Nobody, 30, "unmatched")
      BY <1>1 DEF Named
    <2>2. QED
      BY <2>1 DEF Attribution
  <1>2. CASE match # NoMatch /\ match.score < 0
    <2>1. Named(name, roster) = Attribution(Nobody, 0, "ambiguous")
      BY <1>2 DEF Named
    <2>2. QED
      BY <2>1 DEF Attribution
  <1>3. CASE match # NoMatch /\ ~ (match.score < 0)
    <2>1. Named(name, roster) = Attribution(match.person, match.score, "matched")
      BY <1>3 DEF Named
    <2>2. match.person \in DOMAIN roster /\ match.score \in {100, 90, 80, -100}
      BY <1>3, MatchedPerson
    <2>3. match.score \in {100, 90, 80}
      BY <1>3, <2>2
    <2> HIDE DEF match
    <2>4. QED
      BY <2>1, <2>2, <2>3 DEF Attribution
  <1>4. QED
    BY <1>1, <1>2, <1>3

\* So is what is resolved without an agent, but for a first person whose label
\* two people bear.
OnRoster(owner, hint, speaker) ==
    LET match == MatchName(speaker, roster) IN
    /\ owner.person \in DOMAIN roster \cup {Nobody}
    /\ owner.method = "first_person" =>
         /\ hint.kind = "first person" /\ speaker # Nobody /\ match # NoMatch
         /\ owner.person = match.person
    /\ \/ owner.confidence \in 0..100
       \/ owner.method = "first_person" /\ match.score = -100

LEMMA ResolvedType ==
    ASSUME roster \in Seq(Range(roster)), NEW hint, NEW speaker
    PROVE  OnRoster(ResolveOwner(hint, roster, speaker), hint, speaker)
  <1> DEFINE owner == ResolveOwner(hint, roster, speaker)
             match == MatchName(speaker, roster)
  <1> SUFFICES /\ owner.person \in DOMAIN roster \cup {Nobody}
               /\ owner.method = "first_person" =>
                    /\ hint.kind = "first person" /\ speaker # Nobody /\ match # NoMatch
                    /\ owner.person = match.person
               /\ \/ owner.confidence \in 0..100
                  \/ owner.method = "first_person" /\ match.score = -100
    BY DEF OnRoster
  <1> DEFINE Kinds == {"absent", "collective", "first person", "other person"}
  <1>1. CASE hint.kind \in Kinds \ {"first person"}
    <2>1. \/ owner = Attribution(Nobody, 0, "absent")
          \/ owner = Attribution(Nobody, 0, "collective")
          \/ owner = Attribution(Nobody, 0, "pronoun")
      BY <1>1 DEF ResolveOwner
    <2>2. /\ owner.method \in {"absent", "collective", "pronoun"}
          /\ owner.person = Nobody /\ owner.confidence = 0
      BY <2>1 DEF Attribution
    <2>3. owner.confidence \in 0..100
      BY <2>2
    <2>4. owner.method # "first_person"
      BY <2>2
    <2>5. owner.person \in DOMAIN roster \cup {Nobody}
      BY <2>2
    <2>6. QED
      BY <2>3, <2>4, <2>5
  <1>2. CASE hint.kind = "first person"
    <2>1. owner = FirstPerson(speaker, roster)
      BY <1>2 DEF ResolveOwner
    <2>2. CASE speaker = Nobody \/ match = NoMatch
      <3>1. owner = Attribution(Nobody, 0, "pronoun") \/ owner = Attribution(Nobody, 40, "unmatched")
        BY <2>1, <2>2 DEF FirstPerson
      <3>2. owner.method # "first_person" /\ owner.person = Nobody
        BY <3>1 DEF Attribution
      <3>3. owner.confidence \in 0..100
        BY <3>1 DEF Attribution
      <3>4. QED
        BY <3>2, <3>3
    <2>3. CASE speaker # Nobody /\ match # NoMatch
      <3>1. owner = Attribution(match.person, (95 * match.score) \div 100, "first_person")
        BY <2>1, <2>3 DEF FirstPerson
      <3>2. match.person \in DOMAIN roster /\ match.score \in {100, 90, 80, -100}
        BY <2>3, MatchedPerson
      <3> HIDE DEF owner, match
      <3>3. /\ owner.person = match.person /\ owner.method = "first_person"
            /\ owner.confidence = (95 * match.score) \div 100
        BY <3>1 DEF Attribution
      <3>4. match.score \in {100, 90, 80} => owner.confidence \in 0..100
        <4>1. /\ (95 * 100) \div 100 = 95
              /\ (95 * 90) \div 100 = 85
              /\ (95 * 80) \div 100 = 76
          OBVIOUS
        <4>2. SUFFICES ASSUME match.score \in {100, 90, 80}
                       PROVE  owner.confidence \in {95, 85, 76}
          OBVIOUS
        <4>3. QED
          BY <3>3, <4>1, <4>2
      <3>5. match.score \in {100, 90, 80} \/ match.score = -100
        BY <3>2
      <3>6. owner.person \in DOMAIN roster
        BY <3>2, <3>3
      <3>7. QED
        BY <1>2, <2>3, <3>3, <3>4, <3>5, <3>6
    <2>4. QED
      BY <2>2, <2>3
  <1>3. CASE hint.kind \notin Kinds
    <2>1. owner = Named(hint.name, roster)
      BY <1>3 DEF ResolveOwner
    <2>2. /\ owner.person \in DOMAIN roster \cup {Nobody}
          /\ owner.confidence \in 0..100
          /\ owner.method # "first_person"
      BY <2>1, NamedType
    <2>3. QED
      BY <2>2
  <1>4. QED
    BY <1>1, <1>2, <1>3

\* And the owner of an item, whatever the Attributor answers.
LEMMA OwnerType ==
    ASSUME roster \in Seq(Range(roster)), NEW L, NEW item, NEW s \in OwnerAnswers
    PROVE  OnRoster(OwnerOf(L, roster, item, s), item.owner, SpeakerFor(L, item))
  <1> DEFINE owner == OwnerOf(L, roster, item, s)
             speaker == SpeakerFor(L, item)
             matched == ResolveOwner(item.owner, roster, speaker)
  <1>1. CASE NeedsAgent(matched) /\ s # <<>>
    <2> SUFFICES /\ owner.person \in DOMAIN roster \cup {Nobody}
                 /\ owner.method # "first_person"
                 /\ owner.confidence \in 0..100
      BY DEF OnRoster
    <2> DEFINE answer == s[1]
               named == Named(answer.name, roster)
    <2>1. owner = AttributionFrom(answer, roster)
      BY <1>1 DEF OwnerOf
    <2>2. answer.confidence \in 0..100
      <3>1. s \in Seq(Range(s)) /\ \A n \in DOMAIN s : s[n].confidence \in 0..100
        BY AnswersAssumption
      <3>2. 1 \in DOMAIN s
        BY <1>1, <3>1, EmptySeq, LenProperties
      <3>3. QED
        BY <3>1, <3>2
    <2>3. CASE answer.name = <<>> \/ named.person = Nobody
      <3>1. owner = Attribution(Nobody, 0, "ambiguous") \/ owner = Attribution(Nobody, 0, "unmatched")
        BY <2>1, <2>3 DEF AttributionFrom
      <3>2. owner.method # "first_person" /\ owner.person = Nobody
        BY <3>1 DEF Attribution
      <3>3. owner.confidence \in 0..100
        BY <3>1 DEF Attribution
      <3>4. QED
        BY <3>2, <3>3
    <2>4. CASE answer.name # <<>> /\ named.person # Nobody
      <3>1. owner = Attribution(named.person,
                                IF answer.confidence < named.confidence THEN answer.confidence
                                                                        ELSE named.confidence,
                                "attributor")
        BY <2>1, <2>4 DEF AttributionFrom
      <3>2. named.person \in DOMAIN roster \cup {Nobody} /\ named.confidence \in 0..100
        BY NamedType
      <3> HIDE DEF answer, named, owner
      <3>3. owner.method = "attributor" /\ owner.person = named.person
        BY <3>1 DEF Attribution
      <3>4. owner.confidence \in 0..100
        BY <2>2, <3>1, <3>2 DEF Attribution
      <3>5. QED
        BY <3>2, <3>3, <3>4
    <2>5. QED
      BY <2>3, <2>4
  <1>2. CASE ~ (NeedsAgent(matched) /\ s # <<>>)
    <2>1. owner = matched
      BY <1>2 DEF OwnerOf
    <2>2. OnRoster(matched, item.owner, speaker)
      <3> HIDE DEF speaker
      <3>1. QED
        BY ResolvedType
    <2>3. QED
      BY <2>1, <2>2
  <1>3. QED
    BY <1>1, <1>2

-----------------------------------------------------------------------------
(***************************************************************************)
(* Who said what: the turns of a transcript.                               *)
(***************************************************************************)

\* The line that opens the turn of a line: the last of those that open one.
Opener(L, s, l) ==
    /\ s \in TurnStarts(L) /\ s <= l
    /\ \A k \in TurnStarts(L) : k <= l => k <= s

\* Turns are opened by some lines of the transcript, the first among them.
LEMMA StartsAreLines ==
    ASSUME NEW L, L \in Seq(Range(L))
    PROVE  /\ DOMAIN L \in SUBSET Nat /\ DOMAIN L = 1..Len(L) /\ Len(L) \in Nat
           /\ TurnStarts(L) \in SUBSET DOMAIN L
           /\ TurnStarts(L) \in SUBSET Int /\ IsFiniteSet(TurnStarts(L))
           /\ DOMAIN L # {} => 1 \in TurnStarts(L)
  <1>1. DOMAIN L = 1..Len(L) /\ Len(L) \in Nat
    BY LenProperties
  <1>2. IsFiniteSet(DOMAIN L) /\ DOMAIN L \in SUBSET Nat
    BY <1>1, FS_Interval
  <1>3. TurnStarts(L) \in SUBSET DOMAIN L
    BY DEF TurnStarts
  <1>4. IsFiniteSet(TurnStarts(L))
    BY <1>2, <1>3, FS_Subset
  <1>5. DOMAIN L # {} => 1 \in DOMAIN L
    BY <1>1
  <1>6. DOMAIN L # {} => 1 \in TurnStarts(L)
    BY <1>5 DEF TurnStarts
  <1>7. TurnStarts(L) \in SUBSET Int
    BY <1>2, <1>3
  <1>8. QED
    BY <1>1, <1>2, <1>3, <1>4, <1>6, <1>7

\* A line is in the turn that its opener opens, which is counted by the openers
\* before it.
LEMMA OpenerOfLine ==
    ASSUME NEW L, L \in Seq(Range(L)), NEW l \in DOMAIN L
    PROVE  \E s \in TurnStarts(L) :
             Opener(L, s, l) /\ TurnOf(L, l) = Cardinality(Below(TurnStarts(L), s)) + 1
  <1> DEFINE S == TurnStarts(L)
             upto == {k \in S : k <= l}
  <1>1. S \in SUBSET Nat /\ S \in SUBSET Int /\ IsFiniteSet(S) /\ 1 \in S /\ l \in Nat /\ 1 <= l
    BY StartsAreLines
  <1> HIDE DEF S
  <1>2. upto \in SUBSET S /\ 1 \in upto
    BY <1>1
  <1>3. IsFiniteSet(upto) /\ upto \in SUBSET Int
    BY <1>1, <1>2, FS_Subset
  <1> DEFINE s == Highest(upto)
  <1>4. s \in upto /\ \A k \in upto : k <= s
    <2> HIDE DEF upto
    <2>1. QED
      BY <1>2, <1>3, HighestIsGreatest
  <1> HIDE DEF s
  <1>5. upto = Below(S, s) \cup {s} /\ s \notin Below(S, s) /\ Below(S, s) \in SUBSET S
    <2>1. \A k \in S : k <= l <=> k < s \/ k = s
      BY <1>1, <1>4
    <2>2. s \in S /\ s \notin Below(S, s) /\ Below(S, s) \in SUBSET S
      BY <1>1, <1>4 DEF Below
    <2>3. upto = {k \in S : k < s \/ k = s}
      BY <2>1
    <2>4. {k \in S : k < s \/ k = s} = Below(S, s) \cup {s}
      BY <2>2 DEF Below
    <2>5. QED
      BY <2>2, <2>3, <2>4
  <1>6. IsFiniteSet(Below(S, s))
    BY <1>1, <1>5, FS_Subset
  <1>7. Cardinality(upto) = Cardinality(Below(S, s)) + 1
    BY <1>5, <1>6, FS_AddElement
  <1>8. TurnOf(L, l) = Cardinality(upto)
    BY DEF TurnOf, S
  <1>9. Opener(L, s, l)
    BY <1>4 DEF Opener, S
  <1>10. QED
    BY <1>4, <1>7, <1>8, <1>9 DEF S

\* No two lines open one turn.
LEMMA OneOpener ==
    ASSUME NEW L, L \in Seq(Range(L)), NEW s \in TurnStarts(L), NEW r \in TurnStarts(L),
           Cardinality(Below(TurnStarts(L), s)) = Cardinality(Below(TurnStarts(L), r))
    PROVE  s = r
  <1>1. TurnStarts(L) \in SUBSET Int /\ IsFiniteSet(TurnStarts(L))
    BY StartsAreLines
  <1> DEFINE S == TurnStarts(L)
  <1> HIDE DEF S
  <1>2. S \in SUBSET Int /\ IsFiniteSet(S) /\ s \in S /\ r \in S
    BY <1>1 DEF S
  <1>3. /\ Cardinality(Below(S, s)) \in Nat /\ Cardinality(Below(S, r)) \in Nat
        /\ Cardinality(Below(S, s)) = Cardinality(Below(S, r))
    <2>1. Below(S, s) \in SUBSET S /\ Below(S, r) \in SUBSET S
      BY DEF Below
    <2>2. QED
      BY <1>2, <2>1, FS_Subset, FS_CardinalityType DEF S
  <1>4. s < r \/ r < s \/ s = r
    BY <1>2
  <1>5. ASSUME s < r PROVE FALSE
    BY <1>2, <1>3, <1>5, BelowGrows
  <1>6. ASSUME r < s PROVE FALSE
    BY <1>2, <1>3, <1>6, BelowGrows
  <1>7. QED
    BY <1>4, <1>5, <1>6

\* A turn is its opener's: it bears its label, if it has one, and its sentences are
\* those of the lines that have this opener.
LEMMA TurnSays ==
    ASSUME NEW L, L \in Seq(Range(L)), NEW s \in TurnStarts(L)
    PROVE  LET turn == Segment(L)[Cardinality(Below(TurnStarts(L), s)) + 1] IN
           /\ Cardinality(Below(TurnStarts(L), s)) + 1 \in DOMAIN Segment(L)
           /\ turn.speaker = IF OpensTurn(L[s]) THEN L[s].label ELSE Unsaid
           /\ \A n \in DOMAIN turn.says :
                \E l \in DOMAIN L : Opener(L, s, l) /\ turn.says[n] = L[l].text
           /\ \A l \in DOMAIN L :
                Opener(L, s, l) => \E n \in DOMAIN turn.says : turn.says[n] = L[l].text
  <1> DEFINE S == TurnStarts(L)
             t == Cardinality(Below(S, s)) + 1
             mine == {l \in DOMAIN L : TurnOf(L, l) = t}
             start == CHOOSE l \in mine : \A k \in mine : l <= k
             says == [n \in 1..Cardinality(mine) |-> L[start + n - 1].text]
             label == IF OpensTurn(L[start]) THEN L[start].label ELSE Unsaid
  <1>1. /\ S \in SUBSET Nat /\ S \in SUBSET Int /\ IsFiniteSet(S) /\ S \in SUBSET DOMAIN L
        /\ DOMAIN L \in SUBSET Nat /\ DOMAIN L = 1..Len(L) /\ Len(L) \in Nat
    BY StartsAreLines
  <1>2. t \in 1..Cardinality(S)
    <2> HIDE DEF S
    <2>1. s \in S
      BY DEF S
    <2>2. QED
      BY <1>1, <2>1, PlacesAreTaken
  <1>3. Segment(L)[t] = Turn(label, says) /\ t \in DOMAIN Segment(L)
    BY <1>2 DEF Segment
  <1>4. ASSUME NEW l \in DOMAIN L
        PROVE  l \in mine <=> Opener(L, s, l)
    <2>1. PICK r \in S : Opener(L, r, l) /\ TurnOf(L, l) = Cardinality(Below(S, r)) + 1
      BY OpenerOfLine
    <2>2. Below(S, s) \in SUBSET S /\ Below(S, r) \in SUBSET S
      BY DEF Below
    <2>3. Cardinality(Below(S, s)) \in Nat /\ Cardinality(Below(S, r)) \in Nat
      BY <1>1, <2>2, FS_Subset, FS_CardinalityType
    <2>4. l \in mine <=> Cardinality(Below(S, r)) = Cardinality(Below(S, s))
      BY <2>1, <2>3
    <2>5. Cardinality(Below(S, r)) = Cardinality(Below(S, s)) <=> r = s
      BY OneOpener
    <2>6. Opener(L, s, l) => r = s
      <3>1. s \in Nat /\ r \in Nat
        BY <1>1
      <3>2. QED
        BY <2>1, <3>1 DEF Opener
    <2>7. QED
      BY <2>1, <2>4, <2>5, <2>6
  <1> HIDE DEF t
  <1>5. s \in mine
    <2>1. \A k \in S : k <= s => k <= s
      OBVIOUS
    <2>2. Opener(L, s, s)
      BY <1>1 DEF Opener
    <2>3. QED
      BY <1>1, <1>4, <2>2
  <1>6. mine \in SUBSET DOMAIN L
    OBVIOUS
  <1>7. \A l \in mine : s <= l
    BY <1>4, <1>6 DEF Opener
  <1> HIDE DEF mine
  <1>8. start = s
    <2>1. /\ s \in mine /\ \A k \in mine : s <= k
          /\ \A l \in mine : (\A k \in mine : l <= k) => l = s
      BY <1>1, <1>5, <1>6, <1>7
    <2>2. QED
      BY <2>1
  <1> HIDE DEF start
  <1> DEFINE h == Highest(mine)
  <1>9. IsFiniteSet(mine) /\ mine \in SUBSET Int
    <2>1. IsFiniteSet(DOMAIN L)
      BY <1>1, FS_Interval
    <2>2. QED
      BY <1>1, <1>6, <2>1, FS_Subset
  <1>10. h \in mine /\ \A l \in mine : l <= h
    BY <1>5, <1>9, HighestIsGreatest
  <1> HIDE DEF h
  <1>11. s \in Nat /\ h \in Nat /\ s <= h /\ h <= Len(L) /\ 1 <= s
    BY <1>1, <1>6, <1>7, <1>10
  <1>12. mine = s..h
    <2>1. ASSUME NEW l \in s..h
          PROVE  l \in mine
      <3>1. l \in DOMAIN L
        BY <1>1, <1>11
      <3>2. Opener(L, s, h)
        BY <1>4, <1>6, <1>10
      <3>3. Opener(L, s, l)
        <4>1. \A k \in S : k <= l => k <= h
          BY <1>1, <1>11
        <4>2. QED
          BY <3>2, <4>1, <1>11 DEF Opener
      <3>4. QED
        BY <1>4, <3>1, <3>3
    <2>2. ASSUME NEW l \in mine
          PROVE  l \in s..h
      <3>1. l \in Nat /\ s <= l /\ l <= h
        BY <1>1, <1>6, <1>7, <1>10
      <3>2. QED
        BY <1>11, <3>1
    <2>3. QED
      BY <2>1, <2>2
  <1>13. Cardinality(mine) = h - s + 1
    <2> HIDE DEF mine
    <2>1. ~ (s > h) /\ s \in Int /\ h \in Int
      BY <1>11
    <2>2. Cardinality(s..h) = IF s > h THEN 0 ELSE h - s + 1
      BY <2>1, Zenon, FS_Interval
    <2>3. Cardinality(mine) = Cardinality(s..h)
      BY <1>12, Zenon
    <2>4. QED
      BY <2>1, <2>2, <2>3
  <1>14. DOMAIN says = 1..(h - s + 1) /\ \A n \in DOMAIN says : says[n] = L[s + n - 1].text
    BY <1>8, <1>13
  <1> HIDE DEF says
  <1>15. ASSUME NEW n \in DOMAIN says
         PROVE  \E l \in DOMAIN L : Opener(L, s, l) /\ says[n] = L[l].text
    <2>1. s + n - 1 \in mine
      BY <1>11, <1>12, <1>14
    <2>2. QED
      BY <1>4, <1>6, <1>14, <2>1
  <1>16. ASSUME NEW l \in DOMAIN L, Opener(L, s, l)
         PROVE  \E n \in DOMAIN says : says[n] = L[l].text
    <2>1. l \in s..h
      BY <1>4, <1>12, <1>16
    <2>2. l - s + 1 \in DOMAIN says /\ s + (l - s + 1) - 1 = l
      BY <1>11, <1>14, <2>1
    <2>3. QED
      BY <1>14, <2>2
  <1>17. Segment(L)[t].speaker = label /\ Segment(L)[t].says = says
    BY <1>3 DEF Turn
  <1>18. QED
    BY <1>3, <1>8, <1>15, <1>16, <1>17 DEF t

\* Every turn has an opener.
LEMMA TurnOpened ==
    ASSUME NEW L, L \in Seq(Range(L)), NEW t \in DOMAIN Segment(L)
    PROVE  \E s \in TurnStarts(L) : Cardinality(Below(TurnStarts(L), s)) + 1 = t
  <1> DEFINE S == TurnStarts(L)
  <1>1. S \in SUBSET Int /\ IsFiniteSet(S)
    BY StartsAreLines
  <1>2. t \in 1..Cardinality(S) /\ Cardinality(S) \in Nat
    BY <1>1, FS_CardinalityType DEF Segment
  <1> HIDE DEF S
  <1>3. PICK s \in S : Cardinality(Below(S, s)) = t - 1
    BY <1>1, <1>2, PlacesAreTaken
  <1>4. QED
    BY <1>2, <1>3 DEF S

\* A quote that is found is a sentence of the transcript.
LEMMA FoundIsSaid ==
    ASSUME NEW L, L \in Seq(Range(L)), NEW quote, Locate(L, quote) # 0
    PROVE  \E l \in DOMAIN L : L[l].text = quote.text
  <1>1. \/ LinesSaying(L, quote.text) # {}
        \/ Snaps(Segment(L), quote.text) # {}
    BY DEF Locate
  <1>2. CASE LinesSaying(L, quote.text) # {}
    BY <1>2 DEF LinesSaying
  <1>3. CASE Snaps(Segment(L), quote.text) # {}
    <2>1. PICK t \in DOMAIN Segment(L) : Segment(L)[t].says = <<quote.text>>
      BY <1>3 DEF Snaps
    <2>2. PICK s \in TurnStarts(L) : Cardinality(Below(TurnStarts(L), s)) + 1 = t
      BY TurnOpened
    <2>3. 1 \in DOMAIN Segment(L)[t].says /\ Segment(L)[t].says[1] = quote.text
      BY <2>1
    <2>4. QED
      BY <2>2, <2>3, TurnSays
  <1>4. QED
    BY <1>1, <1>2, <1>3

\* Those who said a sentence of a transcript: SpeakersOf, of any transcript.
SaidBy(L, text) ==
    {L[k].label : k \in {k \in DOMAIN L :
       /\ L[k].label \notin Headings \cup {Unsaid}
       /\ \E l \in DOMAIN L :
            /\ k <= l /\ L[l].text = text
            /\ \A n \in (k + 1)..l : L[n].label \in Headings \cup {Unsaid}}}

\* The speaker an item is ascribed to, if there is one, said the sentence it was
\* extracted from.
LEMMA SpeakerSaidIt ==
    ASSUME NEW L, L \in Seq(Range(L)),
           NEW item, item.quotes \in Seq(Range(item.quotes)),
           Places(L, item) # {}, SpeakerFor(L, item) # Nobody
    PROVE  LET quotes == item.quotes
               n == Lowest({k \in DOMAIN quotes : Locate(L, quotes[k]) # 0})
           IN SpeakerFor(L, item) \in SaidBy(L, quotes[n].text)
  <1> DEFINE quotes == item.quotes
             n == Lowest({k \in DOMAIN quotes : Locate(L, quotes[k]) # 0})
             text == quotes[n].text
             holds == {t \in DOMAIN Segment(L) :
                         \E k \in DOMAIN Segment(L)[t].says : Segment(L)[t].says[k] = text}
             turn == Lowest(holds)
  <1>1. n \in DOMAIN quotes /\ Locate(L, quotes[n]) # 0
    BY Evidenced
  <1>2. Verified(L, quotes)[1].turn = TurnIndex(Segment(L), L, text)
    BY Evidenced
  <1> HIDE DEF n
  <1>3. Verified(L, quotes)[1].turn = turn
    BY <1>2 DEF TurnIndex
  <1>4. SpeakerFor(L, item) = Segment(L)[turn].speaker /\ Segment(L)[turn].speaker # Unsaid
    BY <1>3 DEF SpeakerFor
  <1>5. holds # {}
    <2>1. PICK l \in DOMAIN L : L[l].text = text
      BY <1>1, FoundIsSaid
    <2>2. PICK s \in TurnStarts(L) : Opener(L, s, l)
      BY OpenerOfLine
    <2> DEFINE t == Cardinality(Below(TurnStarts(L), s)) + 1
    <2>3. t \in DOMAIN Segment(L) /\ \E k \in DOMAIN Segment(L)[t].says : Segment(L)[t].says[k] = text
      BY <2>1, <2>2, TurnSays
    <2>4. QED
      BY <2>3
  <1>6. holds \in SUBSET Nat
    <2>1. Cardinality(TurnStarts(L)) \in Nat
      BY StartsAreLines, FS_CardinalityType
    <2>2. DOMAIN Segment(L) = 1..Cardinality(TurnStarts(L))
      BY DEF Segment
    <2>3. QED
      BY <2>1, <2>2
  <1>7. turn \in holds
    <2> HIDE DEF holds
    <2>1. QED
      BY <1>5, <1>6, LowestIsLeast
  <1>8. PICK s \in TurnStarts(L) : Cardinality(Below(TurnStarts(L), s)) + 1 = turn
    <2>1. turn \in DOMAIN Segment(L)
      BY <1>7
    <2> HIDE DEF turn
    <2>2. QED
      BY <2>1, TurnOpened
  <1>9. PICK l \in DOMAIN L : Opener(L, s, l) /\ L[l].text = text
    <2>1. PICK k \in DOMAIN Segment(L)[turn].says : Segment(L)[turn].says[k] = text
      BY <1>7
    <2> HIDE DEF turn, text
    <2>2. QED
      BY <1>8, <2>1, TurnSays
  <1>10. Segment(L)[turn].speaker = IF OpensTurn(L[s]) THEN L[s].label ELSE Unsaid
    <2> HIDE DEF turn
    <2>1. QED
      BY <1>8, TurnSays
  <1> HIDE DEF turn, text
  <1>11. L[s].label \notin Headings \cup {Unsaid} /\ SpeakerFor(L, item) = L[s].label
    BY <1>4, <1>10 DEF OpensTurn
  <1>12. ASSUME NEW m \in (s + 1)..l
         PROVE  L[m].label \in Headings \cup {Unsaid}
    <2>1. s \in Nat /\ s >= 1 /\ s \in DOMAIN L /\ DOMAIN L = 1..Len(L) /\ Len(L) \in Nat /\ l \in Nat
      BY StartsAreLines
    <2>2. m \in DOMAIN L /\ m <= l /\ ~ (m <= s)
      BY <2>1
    <2>3. m \notin TurnStarts(L)
      BY <1>9, <2>2 DEF Opener
    <2>4. QED
      BY <2>2, <2>3 DEF TurnStarts, OpensTurn
  <1>13. s \in DOMAIN L /\ s <= l
    BY <1>9, StartsAreLines DEF Opener
  <1>14. L[s].label \in SaidBy(L, text)
    BY <1>9, <1>11, <1>12, <1>13 DEF SaidBy
  <1>15. QED
    BY <1>11, <1>14 DEF text, n

-----------------------------------------------------------------------------
(***************************************************************************)
(* What a run has made of its transcript so far.                           *)
(***************************************************************************)

\* Nothing before its step: a reply before the review, a review of exactly that
\* reply, owners and dates of exactly what the review calls work.
Worked ==
    /\ step \in {"posted", "corrected", "extracted", "reviewed", "resolved", "saved", "refused"}
    /\ meeting \in Meetings \cup {NoMeeting} /\ day \in Nat
    /\ meeting # NoMeeting => day \in RunDays[meeting]
    /\ meeting = NoMeeting => step = "saved" /\ batch = <<>> /\ reviewed = NoReview
    /\ step = "posted" => batch = <<>>
    /\ step # "posted" /\ meeting # NoMeeting => batch \in Replies[meeting]
    /\ step \in {"posted", "corrected", "extracted"} => reviewed = NoReview
    /\ step \notin {"posted", "corrected", "extracted"} /\ meeting # NoMeeting =>
         /\ verdicts \in Verdicts \cup {<<>>}
         /\ reviewed = Review(batch, Candidates(lines, batch), verdicts)
    /\ step \in {"posted", "corrected", "extracted", "reviewed"} \/ meeting = NoMeeting =>
         owners = <<>> /\ dues = <<>>
    /\ step \in {"resolved", "saved", "refused"} /\ meeting # NoMeeting =>
         DOMAIN owners = Obligations(reviewed) /\ DOMAIN dues = Obligations(reviewed)
    /\ \A i \in DOMAIN dues : \E s \in DateAnswers : dues[i] = DeadlineOf(batch[i], day, s)
    /\ step = "refused" => \E i \in DOMAIN owners : ~ FitsTheTable(owners[i])

LEMMA InitWorked == Init => Worked
  BY NoMeetingAssumption DEF Init, Worked

LEMMA StepWorked == Worked /\ [Next]_vars => Worked'
  <1> SUFFICES ASSUME Worked, [Next]_vars PROVE Worked'
    OBVIOUS
  <1>1. ASSUME NEW m \in Meetings, Post(m)
        PROVE  Worked'
    <2>1. /\ step' = "posted" /\ meeting' = m /\ day' \in RunDays[m]
          /\ batch' = <<>> /\ reviewed' = NoReview /\ owners' = <<>> /\ dues' = <<>>
      BY <1>1 DEF Post
    <2>2. day' \in Nat
      BY <2>1, RunDaysAssumption
    <2>3. QED
      BY <2>1, <2>2, NoMeetingAssumption DEF Worked
  <1>2. CASE Reply
    <2>1. /\ step \in {"posted", "corrected"} /\ step' \in {"corrected", "extracted"}
          /\ batch' \in Replies[meeting]
          /\ UNCHANGED <<meeting, day, reviewed, owners, dues>>
      BY <1>2 DEF Reply
    <2>2. owners = <<>> /\ dues = <<>>
      BY <2>1 DEF Worked
    <2>3. QED
      BY <2>1, <2>2 DEF Worked
  <1>3. CASE ReviewReply
    <2>1. /\ step = "extracted" /\ step' = "reviewed"
          /\ verdicts' \in Verdicts \cup {<<>>}
          /\ reviewed' = Review(batch, Candidates(lines, batch), verdicts')
          /\ UNCHANGED <<meeting, day, batch, owners, dues>>
      BY <1>3 DEF ReviewReply, lines
    <2>2. owners = <<>> /\ dues = <<>>
      BY <2>1 DEF Worked
    <2>3. QED
      BY <2>1, <2>2 DEF Worked, lines
  <1>4. CASE ResolveItems
    <2>1. /\ step = "reviewed" /\ step' = "resolved"
          /\ UNCHANGED <<meeting, day, batch, verdicts, reviewed>>
      BY <1>4 DEF ResolveItems
    <2>2. PICK named \in [Obligations(reviewed) -> OwnerAnswers],
               dated \in [Obligations(reviewed) -> DateAnswers] :
            /\ owners' = [i \in Obligations(reviewed) |->
                            OwnerOf(Lines[meeting], roster, batch[i], named[i])]
            /\ dues' = [i \in Obligations(reviewed) |-> DeadlineOf(batch[i], day, dated[i])]
      BY <1>4 DEF ResolveItems
    <2>3. DOMAIN owners' = Obligations(reviewed') /\ DOMAIN dues' = Obligations(reviewed')
      BY <2>1, <2>2
    <2>4. \A i \in DOMAIN dues' : \E s \in DateAnswers : dues'[i] = DeadlineOf(batch'[i], day', s)
      BY <2>1, <2>2
    <2>5. QED
      BY <2>1, <2>3, <2>4 DEF Worked, lines
  <1>5. CASE Save
    <2>1. step = "resolved" /\ step' \in {"saved", "refused"}
          /\ UNCHANGED <<meeting, day, batch, verdicts, reviewed, owners, dues>>
      BY <1>5 DEF Save, work
    <2>2. step' = "refused" => \E i \in DOMAIN owners : ~ FitsTheTable(owners[i])
      BY <1>5 DEF Save
    <2>3. QED
      BY <2>1, <2>2 DEF Worked, lines
  <1>6. CASE UNCHANGED vars
    BY <1>6 DEF vars, work, Worked, lines
  <1>7. QED
    BY <1>1, <1>2, <1>3, <1>4, <1>5, <1>6 DEF Next

\* A reply is a sequence of items the schema lets through, of this transcript.
LEMMA ReplyType ==
    ASSUME Worked
    PROVE  /\ batch \in Seq(Range(batch))
           /\ \A i \in DOMAIN batch : /\ meeting \in Meetings
                                      /\ batch[i].class \in Classification
                                      /\ batch[i].quotes \in Seq(Range(batch[i].quotes))
                                      /\ batch[i].due \in Seq(Phrase)
           /\ meeting \in Meetings => lines \in Seq(Range(lines))
  <1>1. CASE batch = <<>>
    BY <1>1, LinesAssumption, EmptySeq DEF lines
  <1>2. CASE meeting \in Meetings /\ batch \in Replies[meeting]
    BY <1>2, LinesAssumption, RepliesAssumption DEF lines
  <1>3. QED
    BY <1>1, <1>2 DEF Worked

\* What is on review, or was, is what was grounded; what is owed was kept by it.
LEMMA ReviewedItems ==
    ASSUME Worked
    PROVE  /\ reviewed.rejected \cup DOMAIN reviewed.class \subseteq DOMAIN batch
           /\ DOMAIN owners \subseteq DOMAIN reviewed.class
           /\ \A i \in reviewed.rejected \cup DOMAIN reviewed.class :
                meeting \in Meetings /\ Places(lines, batch[i]) # {}
  <1>1. DOMAIN owners \subseteq DOMAIN reviewed.class
    BY DEF Worked, Obligations
  <1>2. CASE reviewed = NoReview
    BY <1>1, <1>2 DEF NoReview
  <1>3. CASE meeting \in Meetings /\ reviewed = Review(batch, Candidates(lines, batch), verdicts)
    <2>1. batch \in Seq(Range(batch))
      BY ReplyType
    <2>2. /\ Sent(lines, batch) \in SUBSET DOMAIN batch
          /\ reviewed.rejected \cup DOMAIN reviewed.class = Sent(lines, batch)
      BY <1>3, <2>1, ReviewOf
    <2>3. \A i \in Sent(lines, batch) : Places(lines, batch[i]) # {}
      BY <2>1, Grounded DEF Sent
    <2>4. QED
      BY <1>1, <1>3, <2>2, <2>3
  <1>4. QED
    BY <1>2, <1>3 DEF Worked

\* What is owed is an item with a sentence somebody said.
LEMMA OwedItem ==
    ASSUME Enrolments, Attributed, Worked, NEW i \in DOMAIN owners
    PROVE  /\ i \in DOMAIN batch /\ meeting \in Meetings
           /\ lines \in Seq(Range(lines)) /\ roster \in Seq(Range(roster))
           /\ OnRoster(owners[i], batch[i].owner, SpeakerFor(lines, batch[i]))
           /\ SpeakerFor(lines, batch[i]) # Nobody =>
                SpeakerFor(lines, batch[i]) \in SpeakersOf(Spoken(i))
  <1>1. i \in DOMAIN batch /\ meeting \in Meetings /\ Places(lines, batch[i]) # {}
    BY ReviewedItems
  <1>2. lines \in Seq(Range(lines)) /\ batch[i].quotes \in Seq(Range(batch[i].quotes))
    BY <1>1, ReplyType
  <1>3. roster \in Seq(Range(roster))
    BY DEF Enrolments
  <1>4. OnRoster(owners[i], batch[i].owner, SpeakerFor(lines, batch[i]))
    <2>1. PICK s \in OwnerAnswers : owners[i] = OwnerOf(lines, roster, batch[i], s)
      BY DEF Attributed
    <2>2. QED
      BY <1>3, <2>1, OwnerType
  <1>5. ASSUME SpeakerFor(lines, batch[i]) # Nobody
        PROVE  SpeakerFor(lines, batch[i]) \in SpeakersOf(Spoken(i))
    <2>1. SpeakersOf(Spoken(i)) = SaidBy(lines, Spoken(i))
      BY DEF SpeakersOf, SaidBy
    <2>2. SpeakerFor(lines, batch[i]) \in SaidBy(lines, Spoken(i))
      BY <1>1, <1>2, <1>5, SpeakerSaidIt DEF Spoken
    <2>3. QED
      BY <2>1, <2>2
  <1>6. QED
    BY <1>1, <1>2, <1>3, <1>4, <1>5

\* "I'll do it" is owed by one who said it, by label and not by the heading or
\* the continuation it stands in (roster.py 112-125, resolution.py 104-118,
\* segmentation.py 80-135).
THEOREM SpeakerOwesIt == Spec => []FirstPersonIsTheSpeaker
  <1>1. Enrolments /\ Attributed /\ Worked => FirstPersonIsTheSpeaker
    <2> SUFFICES ASSUME Enrolments, Attributed, Worked, NEW i \in DOMAIN owners,
                        owners[i].method = "first_person"
                 PROVE  \E label \in SpeakersOf(Spoken(i)) : Bears(owners[i].person, label) > 0
      BY DEF FirstPersonIsTheSpeaker
    <2> DEFINE label == SpeakerFor(lines, batch[i])
    <2>1. /\ label # Nobody /\ MatchName(label, roster) # NoMatch
          /\ owners[i].person = MatchName(label, roster).person
      BY OwedItem DEF OnRoster
    <2>2. label \in SpeakersOf(Spoken(i))
      BY <2>1, OwedItem
    <2>3. roster \in Seq(Range(roster))
      BY DEF Enrolments
    <2> HIDE DEF label
    <2>4. Bears(owners[i].person, label) > 0
      BY <2>1, <2>3, MatchedPerson
    <2>5. QED
      BY <2>2, <2>4
  <1>2. Spec => []Enrolments
    BY InitEnrolments, StepEnrolments, PTL DEF Spec
  <1>3. Spec => []Attributed
    BY InitAttributed, StepAttributed, PTL DEF Spec
  <1>4. Spec => []Worked
    BY InitWorked, StepWorked, PTL DEF Spec
  <1>5. QED
    BY <1>1, <1>2, <1>3, <1>4, PTL

\* A save is refused for one reason: somebody spoke under a label that two people
\* bear, and said "I" (roster.py 117-124, domain.py 167-170).
THEOREM RefusalExplained == Spec => []OnlySharedLabelsAreRefused
  <1>1. Enrolments /\ Attributed /\ Worked => OnlySharedLabelsAreRefused
    <2> SUFFICES ASSUME Enrolments, Attributed, Worked, step = "refused"
                 PROVE  OnlySharedLabelsAreRefused
      BY DEF OnlySharedLabelsAreRefused
    <2>1. PICK i \in DOMAIN owners : owners[i].confidence \notin 0..100
      BY DEF Worked, FitsTheTable
    <2> DEFINE label == SpeakerFor(lines, batch[i])
    <2>2. /\ batch[i].owner.kind = "first person" /\ label # Nobody
          /\ MatchName(label, roster) # NoMatch /\ MatchName(label, roster).score = -100
      BY <2>1, OwedItem DEF OnRoster
    <2>3. label \in SpeakersOf(Spoken(i))
      BY <2>2, OwedItem
    <2>4. roster \in Seq(Range(roster))
      BY DEF Enrolments
    <2> HIDE DEF label
    <2>5. PICK p, q \in DOMAIN roster :
            p # q /\ Bears(p, label) > 1 /\ Bears(p, label) = Bears(q, label)
      BY <2>2, <2>4, MatchedPerson
    <2>6. QED
      BY <2>2, <2>3, <2>5 DEF OnlySharedLabelsAreRefused
  <1>2. Spec => []Enrolments
    BY InitEnrolments, StepEnrolments, PTL DEF Spec
  <1>3. Spec => []Attributed
    BY InitAttributed, StepAttributed, PTL DEF Spec
  <1>4. Spec => []Worked
    BY InitWorked, StepWorked, PTL DEF Spec
  <1>5. QED
    BY <1>1, <1>2, <1>3, <1>4, PTL

\* A verdict comes from those returned, unless it is to keep an item as it is.
LEMMA VerdictType ==
    ASSUME NEW s \in Verdicts \cup {<<>>}, NEW index, VerdictOn(s, index).verdict # "keep"
    PROVE  /\ VerdictOn(s, index) \in Range(s) /\ VerdictOn(s, index).index = index
           /\ VerdictOn(s, index).class \in Classification \cup {""}
  <1> DEFINE v == VerdictOn(s, index)
  <1>1. s \in Seq(Range(s)) /\ \A n \in DOMAIN s : s[n].class \in Classification \cup {""}
    <2>1. CASE s = <<>>
      BY <2>1, EmptySeq
    <2>2. CASE s \in Verdicts
      BY <2>2, VerdictsAssumption
    <2>3. QED
      BY <2>1, <2>2
  <1>2. v \in Range(s) /\ v.index = index
    BY <1>1, VerdictGiven
  <1>3. v.class \in Classification \cup {""}
    BY <1>1, <1>2 DEF Range
  <1>4. QED
    BY <1>2, <1>3

\* What review made of the items, by the verdict on each.
LEMMA ReviewedBy ==
    ASSUME Worked, step \notin {"posted", "corrected", "extracted"}, meeting # NoMeeting
    PROVE  LET candidates == reviewed.rejected \cup DOMAIN reviewed.class
               On(i) == VerdictOn(verdicts, Cardinality({j \in candidates : j < i}))
           IN /\ verdicts \in Verdicts \cup {<<>>}
              /\ candidates = Sent(lines, batch)
              /\ \A i \in reviewed.rejected : On(i).verdict = "reject"
              /\ \A i \in DOMAIN reviewed.class :
                   reviewed.class[i] = ClassAfter(On(i), batch[i].class)
  <1>1. /\ verdicts \in Verdicts \cup {<<>>}
        /\ reviewed = Review(batch, Candidates(lines, batch), verdicts)
        /\ batch \in Seq(Range(batch))
    BY ReplyType DEF Worked
  <1> DEFINE On(i) == VerdictOn(verdicts, Cardinality(Below(Sent(lines, batch), i)))
  <1>2. /\ reviewed.rejected \cup DOMAIN reviewed.class = Sent(lines, batch)
        /\ \A i \in reviewed.rejected : On(i).verdict = "reject"
        /\ \A i \in DOMAIN reviewed.class : reviewed.class[i] = ClassAfter(On(i), batch[i].class)
    BY <1>1, ReviewOf
  <1>3. QED
    BY <1>1, <1>2 DEF Below

\* A class an item leaves review with is its own, or one a verdict on it names.
LEMMA ClassType ==
    ASSUME NEW s \in Verdicts \cup {<<>>}, NEW index, NEW own \in Classification,
           NEW class, class = ClassAfter(VerdictOn(s, index), own)
    PROVE  /\ class \in Classification
           /\ \/ class = own
              \/ \E v \in Range(s) : v.index = index /\ v.verdict = "downgrade" /\ v.class = class
  <1> DEFINE v == VerdictOn(s, index)
  <1>1. CASE v.verdict = "downgrade" /\ v.class # ""
    <2>1. v \in Range(s) /\ v.index = index /\ v.class \in Classification \cup {""}
      BY <1>1, VerdictType
    <2>2. class = v.class
      BY <1>1 DEF ClassAfter
    <2> HIDE DEF v
    <2>3. QED
      BY <1>1, <2>1, <2>2
  <1>2. CASE ~ (v.verdict = "downgrade" /\ v.class # "")
    <2>1. class = own
      BY <1>2 DEF ClassAfter
    <2>2. QED
      BY <2>1
  <1>3. QED
    BY <1>1, <1>2

\* What the Analyst reported leaves review with a class, unless nobody said it,
\* it is a decision, it says of a sentence what another item says of it, or the
\* verdict on this item, not on a neighbour of it, is to reject it; and its class
\* is its own unless that verdict names another (intelligence.py 242-330, 393-444).
THEOREM ReviewKeepsTheRest == Spec => []NothingIsDropped
  <1>1. Worked => NothingIsDropped
    <2> SUFFICES ASSUME Worked, step \in {"reviewed", "resolved", "saved", "refused"},
                        meeting # NoMeeting
                 PROVE  NothingIsDropped
      BY DEF NothingIsDropped
    <2> DEFINE candidates == reviewed.rejected \cup DOMAIN reviewed.class
               On(i) == Cardinality({j \in candidates : j < i})
               Says(i, verdict, classes) ==
                 \E v \in Range(verdicts) :
                   v.index = On(i) /\ v.verdict = verdict /\ v.class \in classes
    <2>1. /\ verdicts \in Verdicts \cup {<<>>} /\ candidates = Sent(lines, batch)
          /\ \A i \in reviewed.rejected : VerdictOn(verdicts, On(i)).verdict = "reject"
          /\ \A i \in DOMAIN reviewed.class :
               reviewed.class[i] = ClassAfter(VerdictOn(verdicts, On(i)), batch[i].class)
      BY ReviewedBy
    <2> HIDE DEF candidates, On
    <2>2. SUFFICES ASSUME NEW i \in DOMAIN batch
                   PROVE  \/ \A q \in Range(batch[i].quotes) : Locate(lines, q) = 0
                          \/ batch[i].class = "decision"
                          \/ \E j \in 1..(i - 1) :
                               /\ <<batch[i].body, batch[j].body>> \in SameThing
                               /\ Places(lines, batch[i]) \cap Places(lines, batch[j]) # {}
                          \/ i \in reviewed.rejected /\ Says(i, "reject", Classification \cup {""})
                          \/ /\ i \in DOMAIN reviewed.class
                             /\ \/ reviewed.class[i] = batch[i].class
                                \/ Says(i, "downgrade", {reviewed.class[i]})
      BY DEF NothingIsDropped, On, candidates
    <2>3. /\ batch \in Seq(Range(batch)) /\ batch[i].class \in Classification
          /\ batch[i].quotes \in Seq(Range(batch[i].quotes))
      BY ReplyType
    <2>4. CASE Places(lines, batch[i]) = {}
      <3>1. Places(lines, batch[i]) = {Locate(lines, q) : q \in Range(batch[i].quotes)} \ {0}
        BY <2>3, Evidenced
      <3>2. \A q \in Range(batch[i].quotes) : Locate(lines, q) = 0
        BY <2>4, <3>1
      <3>3. QED
        BY <3>2
    <2>5. CASE Places(lines, batch[i]) # {} /\ i \notin Ground(lines, batch)
      <3>1. PICK j \in Ground(lines, batch) : j < i /\ Twins(lines, batch[i], batch[j])
        BY <2>3, <2>5, Grounded
      <3>2. Ground(lines, batch) \in SUBSET DOMAIN batch
        BY <2>3, Grounded
      <3>3. DOMAIN batch = 1..Len(batch) /\ Len(batch) \in Nat
        BY <2>3, LenProperties
      <3>4. j \in 1..(i - 1)
        BY <3>1, <3>2, <3>3
      <3>5. QED
        BY <3>1, <3>4 DEF Twins
    <2>6. CASE i \in Ground(lines, batch) /\ i \in reviewed.rejected
      <3>1. VerdictOn(verdicts, On(i)).verdict = "reject"
        BY <2>1, <2>6
      <3>2. Says(i, "reject", Classification \cup {""})
        BY <2>1, <3>1, VerdictType
      <3>3. QED
        BY <2>6, <3>2
    <2>7. CASE i \in Ground(lines, batch) /\ i \in DOMAIN reviewed.class
      <3>1. \/ reviewed.class[i] = batch[i].class
            \/ \E v \in Range(verdicts) :
                 v.index = On(i) /\ v.verdict = "downgrade" /\ v.class = reviewed.class[i]
        BY <2>1, <2>3, <2>7, ClassType
      <3>2. QED
        BY <2>7, <3>1
    <2>8. CASE i \in Ground(lines, batch) /\ batch[i].class = "decision"
      BY <2>8
    <2>9. i \in Ground(lines, batch) => batch[i].class = "decision" \/ i \in candidates
      BY <2>1 DEF Sent
    <2>10. QED
      BY <2>4, <2>5, <2>6, <2>7, <2>8, <2>9 DEF candidates
  <1>2. Spec => []Worked
    BY InitWorked, StepWorked, PTL DEF Spec
  <1>3. QED
    BY <1>1, <1>2, PTL

\* A rule gives one date, and no phrase asks for more.
LEMMA OneDeadline ==
    ASSUME NEW item, NEW d, NEW s \in DateAnswers
    PROVE  Len(DeadlineOf(item, d, s)) <= 1
  <1>1. ASSUME NEW phrase
        PROVE  Len(Resolve(phrase, d).due) <= 1
    <2> DEFINE rules == Rules(phrase, d)
               matching == {r \in DOMAIN rules : rules[r].matches}
               first == CHOOSE r \in matching : \A t \in matching : r <= t
    <2>1. CASE matching = {}
      <3>1. Resolve(phrase, d) = [due |-> <<>>, help |-> TRUE]
        BY <2>1, Zenon DEF Resolve
      <3>2. QED
        BY <3>1
    <2>2. CASE matching # {}
      <3>1. Resolve(phrase, d) = [due |-> <<rules[first].due>>, help |-> rules[first].vague]
        BY <2>2, Zenon DEF Resolve
      <3> HIDE DEF rules, first
      <3>2. Resolve(phrase, d).due = <<rules[first].due>>
        BY <3>1
      <3>3. QED
        BY <3>2
    <2>3. QED
      BY <2>1, <2>2
  <1>2. Len(s) <= 1
    BY AnswersAssumption
  <1>3. \/ DeadlineOf(item, d, s) \in {s, <<>>}
        \/ \E phrase : DeadlineOf(item, d, s) = Resolve(phrase, d).due
    BY Zenon DEF DeadlineOf
  <1>4. Len(<<>>) <= 1
    OBVIOUS
  <1>5. QED
    BY <1>1, <1>2, <1>3, <1>4

\* Every reply, review and resolution is of the items before it, and everybody who
\* owes one is on the roster.
THEOREM ReadingIsTyped == Spec => []TypeOK
  <1>1. Enrolments /\ Attributed /\ Worked => TypeOK
    <2> SUFFICES ASSUME Enrolments, Attributed, Worked PROVE TypeOK
      OBVIOUS
    <2>1. /\ meeting \in Meetings \cup {NoMeeting} /\ day \in Nat /\ submitted \subseteq Meetings
          /\ step \in {"posted", "corrected", "extracted", "reviewed", "resolved", "saved", "refused"}
          /\ DOMAIN owners = DOMAIN dues
      BY DEF Worked, Enrolments
    <2>2. /\ reviewed.rejected \cup DOMAIN reviewed.class \subseteq DOMAIN batch
          /\ DOMAIN owners \subseteq DOMAIN reviewed.class
      BY ReviewedItems
    <2>3. Range(reviewed.class) \subseteq Classification
      <3>1. CASE reviewed = NoReview
        BY <3>1 DEF NoReview, Range
      <3>2. CASE step \notin {"posted", "corrected", "extracted"} /\ meeting # NoMeeting
        <4>1. ASSUME NEW i \in DOMAIN reviewed.class
              PROVE  reviewed.class[i] \in Classification
          <5>1. batch[i].class \in Classification
            BY <2>2, ReplyType
          <5> DEFINE On == Cardinality({j \in reviewed.rejected \cup DOMAIN reviewed.class : j < i})
          <5>2. /\ verdicts \in Verdicts \cup {<<>>}
                /\ reviewed.class[i] = ClassAfter(VerdictOn(verdicts, On), batch[i].class)
            BY <3>2, ReviewedBy
          <5> HIDE DEF On
          <5>3. QED
            BY <5>1, <5>2, ClassType
        <4>2. QED
          BY <4>1 DEF Range
      <3>3. QED
        BY <3>1, <3>2 DEF Worked
    <2>4. \A i \in DOMAIN owners : owners[i].person \in DOMAIN roster \cup {Nobody}
      BY OwedItem DEF OnRoster
    <2>5. \A i \in DOMAIN dues : Len(dues[i]) <= 1
      BY OneDeadline DEF Worked
    <2>6. QED
      BY <2>1, <2>2, <2>3, <2>4, <2>5 DEF TypeOK
  <1>2. Spec => []Enrolments
    BY InitEnrolments, StepEnrolments, PTL DEF Spec
  <1>3. Spec => []Attributed
    BY InitAttributed, StepAttributed, PTL DEF Spec
  <1>4. Spec => []Worked
    BY InitWorked, StepWorked, PTL DEF Spec
  <1>5. QED
    BY <1>1, <1>2, <1>3, <1>4, PTL

-----------------------------------------------------------------------------
(***************************************************************************)
(* The calendar.                                                           *)
(***************************************************************************)

Months == 1..(Len(MonthStart) - 1)
End == MonthStart[Len(MonthStart)]

\* A later month starts later.
LEMMA MonthsGrow ==
    \A a, b \in 1..Len(MonthStart) :
      /\ MonthStart[a] \in Nat
      /\ a < b => MonthStart[a] < MonthStart[b]
  <1>1. /\ \A m \in 1..Len(MonthStart) : MonthStart[m] \in Nat
        /\ Len(MonthStart) \in Nat
    BY MonthStartAssumption, LenProperties, ElementOfSeq
  <1> SUFFICES ASSUME NEW a \in 1..Len(MonthStart), NEW c \in 1..Len(MonthStart),
                      a < c, ~ (MonthStart[a] < MonthStart[c])
               PROVE  FALSE
    BY <1>1
  <1> DEFINE bad == {b \in 1..Len(MonthStart) : a < b /\ ~ (MonthStart[a] < MonthStart[b])}
             low == Lowest(bad)
  <1>2. low \in bad /\ \A b \in bad : low <= b
    <2>1. bad \in SUBSET Nat /\ bad # {}
      BY <1>1
    <2> HIDE DEF bad
    <2>2. QED
      BY <2>1, LowestIsLeast
  <1> HIDE DEF low
  <1>3. low - 1 \in Months /\ (low - 1) + 1 = low /\ low - 1 \in 1..Len(MonthStart)
    BY <1>1, <1>2 DEF Months
  <1>4. MonthStart[low] - MonthStart[low - 1] \in 28..31
    BY <1>3, MonthStartAssumption DEF Months
  <1>5. low - 1 = a \/ (low - 1 \notin bad /\ a < low - 1)
    <2>1. low \in Int /\ a \in Int /\ a < low
      BY <1>2
    <2> HIDE DEF bad
    <2>2. low - 1 \notin bad
      BY <1>2, <2>1
    <2>3. low - 1 = a \/ a < low - 1
      BY <2>1
    <2>4. QED
      BY <2>2, <2>3
  <1>6. MonthStart[a] <= MonthStart[low - 1]
    BY <1>1, <1>3, <1>5
  <1>7. QED
    BY <1>1, <1>2, <1>3, <1>4, <1>6

\* The calendar ends somewhere.
LEMMA CalendarEnds == End \in Nat /\ Len(MonthStart) \in Nat
  <1>1. Len(MonthStart) \in Nat /\ Len(MonthStart) > 12
    BY MonthStartAssumption, LenProperties
  <1>2. Len(MonthStart) \in 1..Len(MonthStart)
    BY <1>1
  <1>3. QED
    BY <1>1, <1>2, MonthsGrow DEF End

\* A day of the calendar is in one month.
LEMMA MonthOfDay ==
    ASSUME NEW d \in Nat, d < End
    PROVE  /\ MonthOf(d) \in Months
           /\ MonthStart[MonthOf(d)] <= d /\ d < MonthStart[MonthOf(d) + 1]
  <1> DEFINE after == {m \in 1..Len(MonthStart) : d < MonthStart[m]}
             low == Lowest(after)
  <1>1. Len(MonthStart) \in Nat /\ Len(MonthStart) > 12 /\ MonthStart[1] = 0
    BY MonthStartAssumption, LenProperties
  <1>2. low \in after /\ \A m \in after : low <= m
    <2>1. after \in SUBSET Nat /\ Len(MonthStart) \in after
      BY <1>1 DEF End
    <2> HIDE DEF after
    <2>2. QED
      BY <2>1, LowestIsLeast
  <1> HIDE DEF low
  <1>3. low # 1
    BY <1>1, <1>2
  <1>4. low - 1 \in Months /\ low - 1 \in 1..Len(MonthStart) /\ low - 1 \notin after
    BY <1>1, <1>2, <1>3 DEF Months
  <1>5. MonthStart[low - 1] <= d /\ d < MonthStart[(low - 1) + 1]
    BY <1>2, <1>4, MonthsGrow
  <1>6. QED
    BY <1>4, <1>5 DEF MonthOf, Months

\* A day is in a month when it is on or after its first and before the next's.
LEMMA InMonth ==
    ASSUME NEW d \in Nat, NEW m \in Months, MonthStart[m] <= d, d < MonthStart[m + 1]
    PROVE  MonthOf(d) = m /\ d < End
  <1> DEFINE k == MonthOf(d)
  <1>1. Len(MonthStart) \in Nat
    BY MonthStartAssumption, LenProperties
  <1>2. m \in 1..Len(MonthStart) /\ m + 1 \in 1..Len(MonthStart) /\ Len(MonthStart) \in 1..Len(MonthStart)
    BY <1>1 DEF Months
  <1>3. MonthStart[m + 1] <= End
    <2>1. m + 1 = Len(MonthStart) \/ m + 1 < Len(MonthStart)
      BY <1>1 DEF Months
    <2>2. QED
      BY <1>2, <2>1, MonthsGrow DEF End
  <1>4. d < End
    BY <1>2, <1>3, MonthsGrow DEF End
  <1>5. k \in Months /\ MonthStart[k] <= d /\ d < MonthStart[k + 1]
    BY <1>4, MonthOfDay
  <1> HIDE DEF k
  <1>6. k \in 1..Len(MonthStart) /\ k + 1 \in 1..Len(MonthStart)
    BY <1>1, <1>5 DEF Months
  <1>7. ~ (k < m)
    <2>1. SUFFICES ASSUME k < m PROVE FALSE
      OBVIOUS
    <2>2. k + 1 = m \/ k + 1 < m
      BY <1>2, <1>6, <2>1
    <2>3. MonthStart[k + 1] <= MonthStart[m]
      BY <1>2, <1>6, <2>2, MonthsGrow
    <2>4. QED
      BY <1>2, <1>5, <1>6, <2>3, MonthsGrow
  <1>8. ~ (m < k)
    <2>1. SUFFICES ASSUME m < k PROVE FALSE
      OBVIOUS
    <2>2. m + 1 = k \/ m + 1 < k
      BY <1>2, <1>6, <2>1
    <2>3. MonthStart[m + 1] <= MonthStart[k]
      BY <1>2, <1>6, <2>2, MonthsGrow
    <2>4. QED
      BY <1>2, <1>5, <1>6, <2>3, MonthsGrow
  <1>9. k = m
    BY <1>2, <1>6, <1>7, <1>8
  <1>10. QED
    BY <1>4, <1>9 DEF k

\* A later day is in no earlier month.
LEMMA MonthsFollow ==
    ASSUME NEW d \in Nat, NEW e \in Nat, d <= e, e < End
    PROVE  MonthOf(d) <= MonthOf(e)
  <1> DEFINE m == MonthOf(d)
             k == MonthOf(e)
  <1>1. End \in Nat /\ Len(MonthStart) \in Nat
    BY CalendarEnds
  <1>2. /\ m \in Months /\ MonthStart[m] <= d /\ d < MonthStart[m + 1]
        /\ k \in Months /\ MonthStart[k] <= e /\ e < MonthStart[k + 1]
    BY <1>1, MonthOfDay
  <1> HIDE DEF m, k
  <1>3. m \in 1..Len(MonthStart) /\ k + 1 \in 1..Len(MonthStart) /\ m \in Nat /\ k \in Nat
    BY <1>1, <1>2 DEF Months
  <1>4. SUFFICES ASSUME k < m PROVE FALSE
    BY <1>3 DEF m, k
  <1>5. k + 1 = m \/ k + 1 < m
    BY <1>3, <1>4
  <1>6. MonthStart[k + 1] <= MonthStart[m]
    BY <1>3, <1>5, MonthsGrow
  <1>7. QED
    BY <1>2, <1>3, <1>6, MonthsGrow

\* The month after a day's, when the calendar goes on for another.
LEMMA NextMonth ==
    ASSUME NEW d \in Nat, d + 31 < End
    PROVE  LET m == MonthOf(d) IN
           /\ m \in Months /\ m + 1 \in Months
           /\ MonthStart[m] \in Nat /\ MonthStart[m + 1] \in Nat /\ MonthStart[m + 2] \in Nat
           /\ MonthStart[m] <= d /\ d < MonthStart[m + 1]
           /\ MonthStart[m + 1] - MonthStart[m] \in 28..31
           /\ MonthStart[m + 2] - MonthStart[m + 1] \in 28..31
  <1> DEFINE m == MonthOf(d)
  <1>1. End \in Nat /\ Len(MonthStart) \in Nat
    BY CalendarEnds
  <1>2. m \in Months /\ MonthStart[m] <= d /\ d < MonthStart[m + 1]
    BY <1>1, MonthOfDay
  <1> HIDE DEF m
  <1>3. MonthStart[m + 1] - MonthStart[m] \in 28..31
    BY <1>2, MonthStartAssumption DEF Months
  <1>4. /\ m \in 1..Len(MonthStart) /\ m + 1 \in 1..Len(MonthStart)
        /\ MonthStart[m] \in Nat /\ MonthStart[m + 1] \in Nat
    BY <1>1, <1>2, MonthsGrow DEF Months
  <1>5. m + 1 # Len(MonthStart)
    BY <1>1, <1>2, <1>3, <1>4 DEF End
  <1>6. m + 1 \in Months /\ m + 2 \in 1..Len(MonthStart) /\ (m + 1) + 1 = m + 2
    BY <1>1, <1>2, <1>5 DEF Months
  <1>7. MonthStart[m + 2] - MonthStart[m + 1] \in 28..31
    <2>1. MonthStart[(m + 1) + 1] - MonthStart[m + 1] \in 28..31
      BY <1>6, MonthStartAssumption DEF Months
    <2>2. QED
      BY <1>6, <2>1
  <1>8. MonthStart[m + 2] \in Nat
    BY <1>6, MonthsGrow
  <1>9. QED
    BY <1>2, <1>3, <1>4, <1>6, <1>7, <1>8 DEF m

\* The last day of a day's month, by way of the 28th, is the one before the next.
LEMMA MonthEnds ==
    ASSUME NEW d \in Nat, d + 31 < End
    PROVE  EndOfMonth(d) = MonthStart[MonthOf(d) + 1] - 1
  <1> DEFINE m == MonthOf(d)
             x == MonthStart[m] + 31
  <1>1. /\ m \in Months /\ m + 1 \in Months
        /\ MonthStart[m] \in Nat /\ MonthStart[m + 1] \in Nat /\ MonthStart[m + 2] \in Nat
        /\ MonthStart[m + 1] - MonthStart[m] \in 28..31
        /\ MonthStart[m + 2] - MonthStart[m + 1] \in 28..31
    BY NextMonth
  <1>2. OnDayOfMonth(d, 28) + 4 = x
    <2>1. OnDayOfMonth(d, 28) = d - (d - MonthStart[m] + 1) + 28
      BY DEF OnDayOfMonth, DayOfMonth
    <2> HIDE DEF m
    <2>2. QED
      BY <1>1, <2>1
  <1>3. MonthOf(x) = m + 1
    <2> HIDE DEF m
    <2>1. x \in Nat /\ MonthStart[m + 1] <= x /\ x < MonthStart[m + 2]
      BY <1>1
    <2>2. (m + 1) + 1 = m + 2
      <3>1. m \in Nat
        BY <1>1, CalendarEnds DEF Months
      <3>2. QED
        BY <3>1
    <2> HIDE DEF x
    <2>3. QED
      BY <1>1, <2>1, <2>2, InMonth
  <1>4. OnDayOfMonth(x, 1) = x - (x - MonthStart[m + 1] + 1) + 1
    BY <1>3 DEF OnDayOfMonth, DayOfMonth
  <1>5. EndOfMonth(d) = OnDayOfMonth(x, 1) - 1
    BY <1>2 DEF EndOfMonth
  <1> HIDE DEF m
  <1>6. QED
    BY <1>1, <1>4, <1>5 DEF m

\* The last month of a month's quarter.
LastOfQuarter(m) == 3 * ((m - 1) \div 3) + 3

LEMMA QuarterOf ==
    ASSUME NEW m \in Months
    PROVE  /\ LastOfQuarter(m) \in Months /\ LastOfQuarter(m) % 3 = 0
           /\ m <= LastOfQuarter(m) /\ LastOfQuarter(m) <= m + 2
           /\ \A k \in Nat : m <= k /\ k % 3 = 0 => LastOfQuarter(m) <= k
           /\ \A k \in Months : m <= k => LastOfQuarter(m) <= LastOfQuarter(k)
  <1>1. m \in Nat /\ 1 <= m /\ m < Len(MonthStart) /\ Len(MonthStart) \in Nat /\ Len(MonthStart) % 12 = 1
    <2>1. Len(MonthStart) % 12 = 1
      BY MonthStartAssumption
    <2>2. m \in Nat /\ 1 <= m /\ m < Len(MonthStart) /\ Len(MonthStart) \in Nat
      BY CalendarEnds DEF Months
    <2>3. QED
      BY <2>1, <2>2
  <1>2. LastOfQuarter(m) \in Nat /\ LastOfQuarter(m) % 3 = 0
    BY <1>1 DEF LastOfQuarter
  <1>3. m <= LastOfQuarter(m) /\ LastOfQuarter(m) <= m + 2
    BY <1>1 DEF LastOfQuarter
  <1>4. \A k \in Nat : m <= k /\ k % 3 = 0 => LastOfQuarter(m) <= k
    BY <1>1 DEF LastOfQuarter
  <1>5. LastOfQuarter(m) < Len(MonthStart)
    BY <1>1 DEF LastOfQuarter
  <1>6. \A k \in Months : m <= k => LastOfQuarter(m) <= LastOfQuarter(k)
    BY <1>1, CalendarEnds DEF LastOfQuarter, Months
  <1>7. QED
    BY <1>1, <1>2, <1>3, <1>4, <1>5, <1>6 DEF Months

\* The end of a day's quarter, with its turn of the year, is the day before the
\* month after the quarter's last.
LEMMA QuarterEnds ==
    ASSUME NEW d \in Nat, d < End
    PROVE  EndOfQuarter(d) = MonthStart[LastOfQuarter(MonthOf(d)) + 1] - 1
  <1> DEFINE m == MonthOf(d)
             year == (m - 1) \div 12
             month == ((m - 1) % 12) + 1
             last == 3 * ((month - 1) \div 3) + 3
             index == 12 * (year + (IF last = 12 THEN 1 ELSE 0)) + (last % 12) + 1
  <1>1. EndOfQuarter(d) = MonthStart[index] - 1
    BY DEF EndOfQuarter
  <1>2. m \in Nat /\ 1 <= m
    BY MonthOfDay, CalendarEnds DEF Months
  <1> HIDE DEF m
  <1>3. index = LastOfQuarter(m) + 1
    BY <1>2 DEF LastOfQuarter
  <1>4. QED
    BY <1>1, <1>3 DEF m

\* It is within a hundred days.
LEMMA QuarterIsShort ==
    ASSUME NEW d \in Nat, d + 101 < End
    PROVE  LET last == LastOfQuarter(MonthOf(d)) IN
           /\ last \in Months
           /\ MonthStart[last] \in Nat /\ MonthStart[last + 1] \in Nat
           /\ d <= MonthStart[last + 1] - 1 /\ MonthStart[last + 1] - 1 <= d + 100
           /\ MonthStart[last] <= MonthStart[last + 1] - 1
           /\ MonthOf(MonthStart[last + 1] - 1) = last
  <1> DEFINE m == MonthOf(d)
             last == LastOfQuarter(m)
  <1>1. m \in Months /\ MonthStart[m] <= d /\ d < MonthStart[m + 1] /\ m \in Nat /\ End \in Nat
    BY MonthOfDay, CalendarEnds DEF Months
  <1> HIDE DEF m
  <1>2. last \in Months /\ m <= last /\ last <= m + 2 /\ last \in Nat
    BY <1>1, QuarterOf, CalendarEnds DEF Months
  <1> HIDE DEF last
  <1>3. last \in {m, m + 1, m + 2}
    BY <1>1, <1>2
  <1>4. \A k \in Months : /\ MonthStart[k] \in Nat /\ MonthStart[k + 1] \in Nat
                          /\ MonthStart[k + 1] - MonthStart[k] \in 28..31
    <2>1. \A k \in Months : k \in 1..Len(MonthStart) /\ k + 1 \in 1..Len(MonthStart)
      BY CalendarEnds DEF Months
    <2>2. QED
      BY <2>1, MonthsGrow, MonthStartAssumption DEF Months
  <1>5. \A k \in m..last : k \in Months
    BY <1>1, <1>2, CalendarEnds DEF Months
  <1>6. MonthStart[m + 1] <= MonthStart[last + 1] /\ MonthStart[last + 1] <= MonthStart[m + 1] + 62
    <2>1. CASE last = m
      BY <1>1, <1>4, <2>1
    <2>2. CASE last = m + 1
      <3>1. m + 1 \in Months
        BY <1>2, <2>2
      <3>2. MonthStart[(m + 1) + 1] - MonthStart[m + 1] \in 28..31
        BY <1>4, <3>1
      <3>3. QED
        BY <1>1, <1>4, <2>2, <3>1, <3>2
    <2>3. CASE last = m + 2
      <3>1. m + 1 \in Months /\ m + 2 \in Months /\ (m + 1) + 1 = m + 2 /\ (m + 2) + 1 = last + 1
        BY <1>1, <1>2, <1>5, <2>3
      <3>2. /\ MonthStart[m + 2] - MonthStart[m + 1] \in 28..31
            /\ MonthStart[last + 1] - MonthStart[m + 2] \in 28..31
        BY <1>4, <2>3, <3>1
      <3>3. MonthStart[m + 1] \in Nat /\ MonthStart[m + 2] \in Nat /\ MonthStart[last + 1] \in Nat
        BY <1>2, <1>4, <3>1
      <3>4. QED
        BY <3>2, <3>3
    <2>4. QED
      BY <1>3, <2>1, <2>2, <2>3
  <1>7. /\ MonthStart[last] \in Nat /\ MonthStart[last + 1] \in Nat
        /\ MonthStart[last] <= MonthStart[last + 1] - 1
        /\ MonthStart[m] \in Nat /\ MonthStart[m + 1] \in Nat
        /\ MonthStart[m + 1] <= MonthStart[m] + 31
    BY <1>1, <1>2, <1>4
  <1>8. d <= MonthStart[last + 1] - 1 /\ MonthStart[last + 1] - 1 <= d + 100
    BY <1>1, <1>6, <1>7
  <1> DEFINE x == MonthStart[last + 1] - 1
  <1>9. MonthOf(x) = last
    <2>1. x \in Nat /\ MonthStart[last] <= x /\ x < MonthStart[last + 1]
      BY <1>7, <1>8
    <2> HIDE DEF x
    <2>2. QED
      BY <1>2, <2>1, InMonth
  <1>10. QED
    BY <1>2, <1>7, <1>8, <1>9 DEF m, last

-----------------------------------------------------------------------------
(***************************************************************************)
(* Deadlines.                                                              *)
(***************************************************************************)

\* The rules a phrase matches, whatever the day.
Matching(phrase) ==
    {r \in 1..11 :
       \/ r = 1 /\ phrase.iso # <<>>
       \/ r = 2 /\ ("today" \in phrase.marks \/ "end_of_day" \in phrase.marks)
       \/ r = 3 /\ "tomorrow" \in phrase.marks
       \/ r = 4 /\ phrase.offset # <<>>
       \/ r = 5 /\ "next_month" \in phrase.marks
       \/ r = 6 /\ "end_of_week" \in phrase.marks
       \/ r = 7 /\ "next_week" \in phrase.marks
       \/ r = 8 /\ "end_of_month" \in phrase.marks
       \/ r = 9 /\ "sprint" \in phrase.marks
       \/ r = 10 /\ "end_of_quarter" \in phrase.marks
       \/ r = 11 /\ phrase.weekday # <<>>}

\* The first rule that matches decides, on every day the same.
LEMMA FirstRule ==
    ASSUME NEW phrase, NEW d
    PROVE  /\ Matching(phrase) = {} => Resolve(phrase, d).due = <<>>
           /\ Matching(phrase) # {} =>
                /\ Lowest(Matching(phrase)) \in Matching(phrase)
                /\ Resolve(phrase, d).due = <<Rules(phrase, d)[Lowest(Matching(phrase))].due>>
                /\ Resolve(phrase, d).help = Rules(phrase, d)[Lowest(Matching(phrase))].vague
  <1> DEFINE rules == Rules(phrase, d)
             matching == {r \in DOMAIN rules : rules[r].matches}
  <1>1. DOMAIN rules = 1..11
    BY DEF Rules
  <1>2. ASSUME NEW r \in 1..11
        PROVE  rules[r].matches <=> r \in Matching(phrase)
    <2>1. /\ rules[1].matches <=> phrase.iso # <<>>
          /\ rules[2].matches <=> ("today" \in phrase.marks \/ "end_of_day" \in phrase.marks)
          /\ rules[3].matches <=> "tomorrow" \in phrase.marks
          /\ rules[4].matches <=> phrase.offset # <<>>
          /\ rules[5].matches <=> "next_month" \in phrase.marks
          /\ rules[6].matches <=> "end_of_week" \in phrase.marks
          /\ rules[7].matches <=> "next_week" \in phrase.marks
          /\ rules[8].matches <=> "end_of_month" \in phrase.marks
          /\ rules[9].matches <=> "sprint" \in phrase.marks
          /\ rules[10].matches <=> "end_of_quarter" \in phrase.marks
          /\ rules[11].matches <=> phrase.weekday # <<>>
      BY DEF Rules
    <2>2. r \in {1, 2, 3, 4, 5, 6, 7, 8, 9, 10, 11}
      OBVIOUS
    <2> HIDE DEF rules
    <2>3. CASE r = 1
      BY <2>1, <2>3 DEF Matching
    <2>4. CASE r = 2
      BY <2>1, <2>4 DEF Matching
    <2>5. CASE r = 3
      BY <2>1, <2>5 DEF Matching
    <2>6. CASE r = 4
      BY <2>1, <2>6 DEF Matching
    <2>7. CASE r = 5
      BY <2>1, <2>7 DEF Matching
    <2>8. CASE r = 6
      BY <2>1, <2>8 DEF Matching
    <2>9. CASE r = 7
      BY <2>1, <2>9 DEF Matching
    <2>10. CASE r = 8
      BY <2>1, <2>10 DEF Matching
    <2>11. CASE r = 9
      BY <2>1, <2>11 DEF Matching
    <2>12. CASE r = 10
      BY <2>1, <2>12 DEF Matching
    <2>13. CASE r = 11
      BY <2>1, <2>13 DEF Matching
    <2>14. QED
      BY <2>2, <2>3, <2>4, <2>5, <2>6, <2>7, <2>8, <2>9, <2>10, <2>11, <2>12, <2>13
  <1> HIDE DEF rules
  <1>3. matching = Matching(phrase)
    <2>1. Matching(phrase) \in SUBSET (1..11)
      BY DEF Matching
    <2>2. QED
      BY <1>1, <1>2, <2>1
  <1>4. CASE matching = {}
    <2>1. Resolve(phrase, d) = [due |-> <<>>, help |-> TRUE]
      BY <1>4, Zenon DEF Resolve, rules
    <2>2. Resolve(phrase, d).due = <<>>
      BY <2>1
    <2>3. QED
      BY <1>3, <1>4, <2>2
  <1>5. CASE matching # {}
    <2> DEFINE first == Lowest(matching)
    <2>1. Resolve(phrase, d) = [due |-> <<rules[first].due>>, help |-> rules[first].vague]
      BY <1>5, Zenon DEF Resolve, rules, Lowest
    <2>2. first \in matching
      <3>1. matching \in SUBSET Nat
        BY <1>1
      <3> HIDE DEF matching
      <3>2. QED
        BY <1>5, <3>1, LowestIsLeast
    <2> HIDE DEF first
    <2>3. Resolve(phrase, d).due = <<rules[first].due>> /\ Resolve(phrase, d).help = rules[first].vague
      BY <2>1
    <2>4. first = Lowest(Matching(phrase))
      BY <1>3 DEF first
    <2> HIDE DEF matching
    <2>5. QED
      BY <1>3, <1>5, <2>2, <2>3, <2>4 DEF rules
  <1>6. QED
    BY <1>4, <1>5

\* What each rule but the first gives is no sooner a day later, and never past.
LEMMA RuleFollows ==
    ASSUME NEW phrase \in Phrase, NEW d \in Nat, d + 101 < End,
           NEW r \in Matching(phrase), r # 1
    PROVE  d <= Rules(phrase, d)[r].due /\ Rules(phrase, d)[r].due <= Rules(phrase, d + 1)[r].due
  <1> DEFINE Due(c) == Rules(phrase, c)[r].due
  <1>1. r \in {2, 3, 4, 5, 6, 7, 8, 9, 10, 11} /\ End \in Nat
    BY CalendarEnds DEF Matching
  <1>2. CASE r = 2
    <2>1. \A c \in Nat : Due(c) = c
      BY <1>2 DEF Rules
    <2>2. QED
      BY <2>1
  <1>3. CASE r = 3
    <2>1. \A c \in Nat : Due(c) = c + 1
      BY <1>3 DEF Rules
    <2>2. QED
      BY <2>1
  <1>4. CASE r = 4
    <2>1. phrase.offset # <<>> /\ phrase.offset \in Seq([count : Nat, unit : DOMAIN Unit])
      BY <1>4 DEF Matching, Phrase
    <2>2. phrase.offset[1] \in [count : Nat, unit : DOMAIN Unit]
      <3> DEFINE Offset == [count : Nat, unit : DOMAIN Unit]
      <3>1. phrase.offset \in Seq(Offset)
        BY <2>1
      <3> HIDE DEF Offset
      <3>2. phrase.offset[1] \in Offset
        BY <2>1, <3>1, EmptySeq, LenProperties
      <3>3. QED
        BY <3>2 DEF Offset
    <2> DEFINE ahead == Unit[phrase.offset[1].unit] * phrase.offset[1].count
    <2>3. \A c \in Nat : Due(c) = c + ahead
      BY <1>4, <2>1 DEF Rules
    <2>4. ahead \in Nat
      <3>1. /\ phrase.offset[1].count \in Nat
            /\ phrase.offset[1].unit \in {"day", "week", "month"}
        BY <2>2 DEF Unit
      <3>2. Unit[phrase.offset[1].unit] \in {1, 7, 30}
        BY <3>1 DEF Unit
      <3>3. QED
        BY <3>1, <3>2
    <2> HIDE DEF ahead
    <2>5. QED
      BY <2>3, <2>4
  <1>5. CASE r = 5
    <2>1. \A c \in Nat : Due(c) = c + 30
      BY <1>5 DEF Rules
    <2>2. QED
      BY <2>1
  <1>6. CASE r \in {6, 7}
    <2>1. \A c \in Nat : Due(c) = EndOfThisWeek(c) + (IF r = 7 THEN 7 ELSE 0)
      <3>1. CASE r = 6
        <4>1. \A c \in Nat : Due(c) = EndOfThisWeek(c)
          BY <3>1 DEF Rules
        <4>2. \A c \in Nat : EndOfThisWeek(c) \in Int
          BY DEF EndOfThisWeek, Weekday
        <4>3. QED
          BY <3>1, <4>1, <4>2
      <3>2. CASE r = 7
        BY <3>2 DEF Rules
      <3>3. QED
        BY <1>6, <3>1, <3>2
    <2>2. /\ EndOfThisWeek(d) \in Int /\ EndOfThisWeek(d + 1) \in Int
          /\ d <= EndOfThisWeek(d) /\ EndOfThisWeek(d) <= EndOfThisWeek(d + 1)
      BY DEF EndOfThisWeek, Weekday
    <2> HIDE DEF Due
    <2>3. QED
      BY <2>1, <2>2 DEF Due
  <1>7. CASE r = 8
    <2>1. Due(d) = EndOfMonth(d) /\ Due(d + 1) = EndOfMonth(d + 1)
      BY <1>7 DEF Rules
    <2> DEFINE m == MonthOf(d)
               k == MonthOf(d + 1)
    <2>2. Due(d) = MonthStart[m + 1] - 1 /\ Due(d + 1) = MonthStart[k + 1] - 1
      BY <1>1, <2>1, MonthEnds
    <2>3. m \in Months /\ d < MonthStart[m + 1] /\ k \in Months
      BY <1>1, MonthOfDay
    <2>4. m <= k
      BY <1>1, MonthsFollow
    <2> HIDE DEF m, k, Due
    <2>5. m + 1 \in 1..Len(MonthStart) /\ k + 1 \in 1..Len(MonthStart)
      BY <2>3, CalendarEnds DEF Months
    <2>6. MonthStart[m + 1] \in Nat /\ MonthStart[k + 1] \in Nat /\ MonthStart[m + 1] <= MonthStart[k + 1]
      <3>1. m + 1 = k + 1 \/ m + 1 < k + 1
        BY <2>3, <2>4, CalendarEnds DEF Months
      <3>2. QED
        BY <2>5, <3>1, MonthsGrow
    <2>7. QED
      BY <2>2, <2>3, <2>6 DEF Due
  <1>8. CASE r = 9
    <2>1. \A c \in Nat : Due(c) = c + 14
      BY <1>8 DEF Rules
    <2>2. QED
      BY <2>1
  <1>9. CASE r = 10
    <2>1. Due(d) = EndOfQuarter(d) /\ Due(d + 1) = EndOfQuarter(d + 1)
      BY <1>9 DEF Rules
    <2> DEFINE m == LastOfQuarter(MonthOf(d))
               k == LastOfQuarter(MonthOf(d + 1))
    <2>2. Due(d) = MonthStart[m + 1] - 1 /\ Due(d + 1) = MonthStart[k + 1] - 1
      BY <1>1, <2>1, QuarterEnds
    <2>3. MonthOf(d) \in Months /\ MonthOf(d + 1) \in Months /\ MonthOf(d) <= MonthOf(d + 1)
      BY <1>1, MonthOfDay, MonthsFollow
    <2>4. m \in Months /\ k \in Months /\ m <= k
      BY <2>3, QuarterOf
    <2>5. MonthStart[m + 1] \in Nat /\ d <= MonthStart[m + 1] - 1
      BY QuarterIsShort
    <2> HIDE DEF m, k, Due
    <2>6. m + 1 \in 1..Len(MonthStart) /\ k + 1 \in 1..Len(MonthStart)
      BY <2>4, CalendarEnds DEF Months
    <2>7. MonthStart[k + 1] \in Nat /\ MonthStart[m + 1] <= MonthStart[k + 1]
      <3>1. m + 1 = k + 1 \/ m + 1 < k + 1
        BY <2>4, CalendarEnds DEF Months
      <3>2. QED
        BY <2>6, <3>1, MonthsGrow
    <2>8. QED
      BY <2>2, <2>5, <2>7 DEF Due
  <1>10. CASE r = 11
    <2>1. phrase.weekday # <<>> /\ phrase.weekday \in Seq(0..6)
      BY <1>10 DEF Matching, Phrase
    <2> DEFINE w == phrase.weekday[1]
    <2>2. w \in 0..6
      BY <2>1, EmptySeq, LenProperties
    <2>3. \A c \in Nat : Due(c) = IF phrase.next THEN NextWeekday(w, c) ELSE BareWeekday(w, c)
      BY <1>10, <2>1 DEF Rules
    <2> HIDE DEF w, Due
    <2>4. /\ NextWeekday(w, d) \in Int /\ NextWeekday(w, d + 1) \in Int
          /\ d <= NextWeekday(w, d) /\ NextWeekday(w, d) <= NextWeekday(w, d + 1)
      BY <2>2 DEF NextWeekday, Weekday
    <2>5. /\ BareWeekday(w, d) \in Int /\ BareWeekday(w, d + 1) \in Int
          /\ d <= BareWeekday(w, d) /\ BareWeekday(w, d) <= BareWeekday(w, d + 1)
      BY <2>2 DEF BareWeekday, Weekday
    <2>6. QED
      BY <2>3, <2>4, <2>5 DEF Due
  <1>11. QED
    BY <1>1, <1>2, <1>3, <1>4, <1>5, <1>6, <1>7, <1>8, <1>9, <1>10

\* The phrase and the day of a date that was worked out.
LEMMA DatedItem ==
    ASSUME Worked, NEW i \in DOMAIN dues, batch[i].due # <<>>
    PROVE  /\ batch[i].due[1] \in Phrase
           /\ day \in Nat /\ day + 101 < End
           /\ \E s \in DateAnswers : dues[i] = DeadlineOf(batch[i], day, s)
  <1>1. i \in DOMAIN reviewed.class
    BY DEF Worked, Obligations
  <1>2. i \in DOMAIN batch
    BY <1>1, ReviewedItems
  <1>3. meeting \in Meetings /\ batch[i].due \in Seq(Phrase)
    BY <1>2, ReplyType
  <1>4. batch[i].due[1] \in Phrase
    BY <1>3, EmptySeq, LenProperties
  <1>5. day \in RunDays[meeting]
    BY <1>3, NoMeetingAssumption DEF Worked
  <1>6. day \in Nat /\ day + 101 < End
    BY <1>3, <1>5, RunDaysAssumption DEF End
  <1>7. QED
    BY <1>4, <1>6 DEF Worked

\* A promise phrased relative to the day is never due before it, and the same
\* phrase a day later is due no sooner, whatever rule it falls to
\* (temporal.py 60-175).
THEOREM DueInOrder == Spec => []LaterSaidLaterDue
  <1>1. Worked => LaterSaidLaterDue
    <2> SUFFICES ASSUME Worked, NEW i \in DOMAIN dues, batch[i].due # <<>>,
                        batch[i].due[1].iso = <<>>,
                        Resolve(batch[i].due[1], day).due # <<>>
                 PROVE  /\ day <= Resolve(batch[i].due[1], day).due[1]
                        /\ Resolve(batch[i].due[1], day).due[1]
                             <= Resolve(batch[i].due[1], day + 1).due[1]
      BY DEF LaterSaidLaterDue
    <2> DEFINE phrase == batch[i].due[1]
               first == Lowest(Matching(phrase))
    <2>1. phrase \in Phrase /\ day \in Nat /\ day + 101 < End
      BY DatedItem
    <2>2. phrase.iso = <<>> /\ Resolve(phrase, day).due # <<>>
      OBVIOUS
    <2> HIDE DEF phrase
    <2>3. Matching(phrase) # {}
      BY <2>2, FirstRule
    <2>4. /\ first \in Matching(phrase)
          /\ Resolve(phrase, day).due = <<Rules(phrase, day)[first].due>>
          /\ Resolve(phrase, day + 1).due = <<Rules(phrase, day + 1)[first].due>>
      BY <2>3, FirstRule
    <2> HIDE DEF first
    <2>5. first # 1
      <3>1. 1 \notin Matching(phrase)
        BY <2>2 DEF Matching
      <3>2. QED
        BY <2>4, <3>1
    <2>6. /\ day <= Rules(phrase, day)[first].due
          /\ Rules(phrase, day)[first].due <= Rules(phrase, day + 1)[first].due
      BY <2>1, <2>4, <2>5, RuleFollows
    <2>7. /\ day <= Resolve(phrase, day).due[1]
          /\ Resolve(phrase, day).due[1] <= Resolve(phrase, day + 1).due[1]
      BY <2>4, <2>6
    <2>8. QED
      BY <2>7 DEF phrase
  <1>2. Spec => []Worked
    BY InitWorked, StepWorked, PTL DEF Spec
  <1>3. QED
    BY <1>1, <1>2, PTL

\* The earliest of some days is the one that none is before.
LEMMA EarliestIs ==
    ASSUME NEW S \in SUBSET Int, NEW d \in S, \A e \in S : d <= e
    PROVE  Earliest(S) = d
  <1>1. \A c \in S : (\A e \in S : c <= e) => c = d
    OBVIOUS
  <1>2. QED
    BY <1>1 DEF Earliest

\* A phrase of one part has that part and no other.
LEMMA OnePart ==
    ASSUME NEW phrase \in Phrase, Parts(phrase) = 1
    PROVE  /\ phrase.marks # {} => phrase.iso = <<>> /\ phrase.offset = <<>> /\ phrase.weekday = <<>>
           /\ phrase.weekday # <<>> => phrase.marks = {} /\ phrase.iso = <<>> /\ phrase.offset = <<>>
  <1>1. /\ phrase.marks \in SUBSET Mark /\ phrase.iso \in Seq(Int)
        /\ phrase.weekday \in Seq(0..6)
    BY DEF Phrase
  <1>2. Len(phrase.offset) \in Nat /\ (phrase.offset = <<>> <=> Len(phrase.offset) = 0)
    <2> DEFINE Offset == [count : Nat, unit : DOMAIN Unit]
    <2>1. phrase.offset \in Seq(Offset)
      BY DEF Phrase
    <2> HIDE DEF Offset
    <2>2. QED
      BY <2>1, EmptySeq, LenProperties
  <1>3. Len(phrase.iso) \in Nat /\ (phrase.iso = <<>> <=> Len(phrase.iso) = 0)
    BY <1>1, EmptySeq, LenProperties
  <1>4. Len(phrase.weekday) \in Nat /\ (phrase.weekday = <<>> <=> Len(phrase.weekday) = 0)
    BY <1>1, EmptySeq, LenProperties
  <1>5. IsFiniteSet(phrase.marks)
    <2>1. IsFiniteSet(Mark)
      <3>1. /\ IsFiniteSet({})
            /\ \A S, x : IsFiniteSet(S) => IsFiniteSet(S \cup {x})
        BY FS_EmptySet, FS_AddElement
      <3>2. Mark = {} \cup {"today"} \cup {"end_of_day"} \cup {"tomorrow"} \cup {"next_month"}
                     \cup {"end_of_week"} \cup {"next_week"} \cup {"end_of_month"}
                     \cup {"sprint"} \cup {"end_of_quarter"}
        BY DEF Mark
      <3>3. QED
        BY <3>1, <3>2
    <2>2. QED
      BY <1>1, <2>1, FS_Subset
  <1>6. Cardinality(phrase.marks) \in Nat /\ (phrase.marks = {} <=> Cardinality(phrase.marks) = 0)
    BY <1>5, FS_CardinalityType, FS_EmptySet
  <1>7. QED
    BY <1>2, <1>3, <1>4, <1>6 DEF Parts

\* A phrase that one rule reads, and not a vague one, is due when that rule says.
LEMMA DueByRule ==
    ASSUME NEW item, item.due # <<>>, NEW d, NEW s, NEW r \in Nat,
           Matching(item.due[1]) = {r}, ~ Rules(item.due[1], d)[r].vague
    PROVE  DeadlineOf(item, d, s) = <<Rules(item.due[1], d)[r].due>>
  <1> DEFINE phrase == item.due[1]
  <1>1. Lowest({r}) = r
    BY DEF Lowest
  <1>2. /\ Resolve(phrase, d).due = <<Rules(phrase, d)[r].due>>
        /\ Resolve(phrase, d).help = Rules(phrase, d)[r].vague
    BY <1>1, FirstRule
  <1>3. QED
    BY <1>2, Zenon DEF DeadlineOf

\* The three rules for the end of a period, and the day each names.
LEMMA PeriodRule ==
    ASSUME NEW phrase \in Phrase, Parts(phrase) = 1, NEW d
    PROVE  /\ phrase.marks = {"end_of_week"} =>
                /\ Matching(phrase) = {6} /\ ~ Rules(phrase, d)[6].vague
                /\ Rules(phrase, d)[6].due = EndOfThisWeek(d)
           /\ phrase.marks = {"end_of_month"} =>
                /\ Matching(phrase) = {8} /\ ~ Rules(phrase, d)[8].vague
                /\ Rules(phrase, d)[8].due = EndOfMonth(d)
           /\ phrase.marks = {"end_of_quarter"} =>
                /\ Matching(phrase) = {10} /\ ~ Rules(phrase, d)[10].vague
                /\ Rules(phrase, d)[10].due = EndOfQuarter(d)
  <1>1. phrase.marks # {} => phrase.iso = <<>> /\ phrase.offset = <<>> /\ phrase.weekday = <<>>
    BY OnePart
  <1>2. ASSUME phrase.marks = {"end_of_week"}
        PROVE  /\ Matching(phrase) = {6} /\ ~ Rules(phrase, d)[6].vague
               /\ Rules(phrase, d)[6].due = EndOfThisWeek(d)
    <2>1. Matching(phrase) = {6}
      <3>1. /\ phrase.iso = <<>> /\ phrase.offset = <<>> /\ phrase.weekday = <<>>
            /\ \A mark : mark \in phrase.marks <=> mark = "end_of_week"
        BY <1>1, <1>2
      <3>2. 6 \in Matching(phrase)
        BY <3>1 DEF Matching
      <3>3. ASSUME NEW r \in Matching(phrase)
            PROVE  r = 6
        BY <3>1 DEF Matching
      <3>4. QED
        BY <3>2, <3>3
    <2>2. ~ Rules(phrase, d)[6].vague /\ Rules(phrase, d)[6].due = EndOfThisWeek(d)
      BY DEF Rules
    <2>3. QED
      BY <2>1, <2>2
  <1>3. ASSUME phrase.marks = {"end_of_month"}
        PROVE  /\ Matching(phrase) = {8} /\ ~ Rules(phrase, d)[8].vague
               /\ Rules(phrase, d)[8].due = EndOfMonth(d)
    <2>1. Matching(phrase) = {8}
      <3>1. /\ phrase.iso = <<>> /\ phrase.offset = <<>> /\ phrase.weekday = <<>>
            /\ \A mark : mark \in phrase.marks <=> mark = "end_of_month"
        BY <1>1, <1>3
      <3>2. 8 \in Matching(phrase)
        BY <3>1 DEF Matching
      <3>3. ASSUME NEW r \in Matching(phrase)
            PROVE  r = 8
        BY <3>1 DEF Matching
      <3>4. QED
        BY <3>2, <3>3
    <2>2. ~ Rules(phrase, d)[8].vague /\ Rules(phrase, d)[8].due = EndOfMonth(d)
      BY DEF Rules
    <2>3. QED
      BY <2>1, <2>2
  <1>4. ASSUME phrase.marks = {"end_of_quarter"}
        PROVE  /\ Matching(phrase) = {10} /\ ~ Rules(phrase, d)[10].vague
               /\ Rules(phrase, d)[10].due = EndOfQuarter(d)
    <2>1. Matching(phrase) = {10}
      <3>1. /\ phrase.iso = <<>> /\ phrase.offset = <<>> /\ phrase.weekday = <<>>
            /\ \A mark : mark \in phrase.marks <=> mark = "end_of_quarter"
        BY <1>1, <1>4
      <3>2. 10 \in Matching(phrase)
        BY <3>1 DEF Matching
      <3>3. ASSUME NEW r \in Matching(phrase)
            PROVE  r = 10
        BY <3>1 DEF Matching
      <3>4. QED
        BY <3>2, <3>3
    <2>2. ~ Rules(phrase, d)[10].vague /\ Rules(phrase, d)[10].due = EndOfQuarter(d)
      BY DEF Rules
    <2>3. QED
      BY <2>1, <2>2
  <1>5. QED
    BY <1>2, <1>3, <1>4

\* A day ends a month when the next begins one.
LEMMA EndsAMonth ==
    ASSUME NEW d \in Nat, d + 1 < End
    PROVE  DayOfMonth(d + 1) = 1 <=> MonthStart[MonthOf(d + 1)] = d + 1
  <1>1. MonthOf(d + 1) \in Months
    BY MonthOfDay
  <1>2. MonthStart[MonthOf(d + 1)] \in Nat
    BY <1>1, MonthsGrow, CalendarEnds DEF Months
  <1>3. QED
    BY <1>2 DEF DayOfMonth

\* Of the days that end a month, none from a day on is before the end of its month;
\* and the end of any month is one of them.
LEMMA MonthEndings ==
    ASSUME NEW m \in Months, MonthStart[m + 1] < End
    PROVE  /\ MonthStart[m + 1] - 1 \in Nat /\ DayOfMonth((MonthStart[m + 1] - 1) + 1) = 1
           /\ \A e \in Nat : e + 1 < End /\ DayOfMonth(e + 1) = 1 /\ MonthStart[m] <= e =>
                MonthStart[m + 1] - 1 <= e
  <1> DEFINE x == MonthStart[m + 1]
  <1>1. /\ m \in 1..Len(MonthStart) /\ m + 1 \in 1..Len(MonthStart)
        /\ m \in Nat /\ End \in Nat /\ Len(MonthStart) \in Nat
    BY CalendarEnds DEF Months
  <1>2. MonthStart[m] \in Nat /\ x \in Nat /\ MonthStart[m] < x
    BY <1>1, MonthsGrow
  <1>3. m + 1 \in Months
    <2>1. m + 1 # Len(MonthStart)
      BY <1>1, <1>2 DEF End
    <2>2. QED
      BY <1>1, <2>1 DEF Months
  <1>4. (x - 1) + 1 = x /\ x - 1 \in Nat
    BY <1>2
  <1>5. MonthOf(x) = m + 1
    <2>1. (m + 1) + 1 \in 1..Len(MonthStart) /\ x < MonthStart[(m + 1) + 1]
      BY <1>1, <1>3, MonthsGrow DEF Months
    <2> HIDE DEF x
    <2>2. MonthStart[m + 1] <= x
      BY <1>2 DEF x
    <2>3. QED
      BY <1>2, <1>3, <2>1, <2>2, InMonth
  <1>6. DayOfMonth((x - 1) + 1) = 1
    BY <1>2, <1>4, <1>5 DEF DayOfMonth
  <1> HIDE DEF x
  <1>7. ASSUME NEW e \in Nat, e + 1 < End, DayOfMonth(e + 1) = 1, MonthStart[m] <= e
        PROVE  x - 1 <= e
    <2> DEFINE k == MonthOf(e + 1)
    <2>1. MonthStart[k] = e + 1 /\ k \in Months
      BY <1>7, EndsAMonth, MonthOfDay
    <2> HIDE DEF k
    <2>2. k \in 1..Len(MonthStart) /\ k \in Nat
      BY <1>1, <2>1 DEF Months
    <2>3. ~ (k <= m)
      <3>1. k = m \/ k < m => MonthStart[k] <= MonthStart[m]
        BY <1>1, <1>2, <2>2, MonthsGrow
      <3>2. QED
        BY <1>1, <1>2, <1>7, <2>1, <2>2, <3>1
    <2>4. k = m + 1 \/ m + 1 < k
      BY <1>1, <2>2, <2>3
    <2>5. x <= MonthStart[k]
      BY <1>1, <1>2, <2>2, <2>4, MonthsGrow DEF x
    <2>6. QED
      BY <1>2, <2>1, <2>5
  <1>8. QED
    BY <1>4, <1>6, <1>7 DEF x

\* A phrase that names a weekday and nothing else falls to the last rule.
LEMMA WeekdayRule ==
    ASSUME NEW phrase \in Phrase, Parts(phrase) = 1, phrase.weekday # <<>>, NEW d
    PROVE  /\ phrase.weekday[1] \in 0..6 /\ phrase.marks = {}
           /\ Matching(phrase) = {11} /\ ~ Rules(phrase, d)[11].vague
           /\ Rules(phrase, d)[11].due = IF phrase.next THEN NextWeekday(phrase.weekday[1], d)
                                                        ELSE BareWeekday(phrase.weekday[1], d)
  <1>1. phrase.marks = {} /\ phrase.iso = <<>> /\ phrase.offset = <<>>
    BY OnePart
  <1>2. phrase.weekday[1] \in 0..6
    <2>1. phrase.weekday \in Seq(0..6)
      BY DEF Phrase
    <2>2. QED
      BY <2>1, EmptySeq, LenProperties
  <1>3. Matching(phrase) = {11}
    <2>1. 11 \in Matching(phrase)
      BY DEF Matching
    <2>2. ASSUME NEW r \in Matching(phrase)
          PROVE  r = 11
      BY <1>1 DEF Matching
    <2>3. QED
      BY <2>1, <2>2
  <1>4. ~ Rules(phrase, d)[11].vague
    BY DEF Rules
  <1>5. Rules(phrase, d)[11].due = IF phrase.next THEN NextWeekday(phrase.weekday[1], d)
                                                  ELSE BareWeekday(phrase.weekday[1], d)
    BY DEF Rules
  <1>6. QED
    BY <1>1, <1>2, <1>3, <1>4, <1>5

\* What fits a phrase of one part, for each of the five that say something.
LEMMA FittingDays ==
    ASSUME NEW phrase \in Phrase, Parts(phrase) = 1
    PROVE  /\ phrase.marks = {"end_of_week"} => Fitting(phrase) = {d \in Ahead : Weekday(d) = 4}
           /\ phrase.marks = {"end_of_month"} =>
                Fitting(phrase) = {d \in Ahead : DayOfMonth(d + 1) = 1}
           /\ phrase.marks = {"end_of_quarter"} =>
                Fitting(phrase) = {d \in Ahead : DayOfMonth(d + 1) = 1 /\ MonthOf(d) % 3 = 0}
           /\ phrase.weekday # <<>> /\ ~ phrase.next =>
                Fitting(phrase) = {d \in Ahead : d > day /\ Weekday(d) = phrase.weekday[1]}
           /\ phrase.weekday # <<>> /\ phrase.next =>
                Fitting(phrase) = {d \in Ahead :
                                     /\ d >= Earliest({e \in Ahead : e > day /\ Weekday(e) = 0})
                                     /\ Weekday(d) = phrase.weekday[1]}
           /\ Fitting(phrase) # {} =>
                \/ phrase.marks \in {{"end_of_week"}, {"end_of_month"}, {"end_of_quarter"}}
                \/ phrase.weekday # <<>>
  <1>1. phrase.weekday # <<>> => phrase.marks = {}
    BY OnePart
  <1>2. /\ {"end_of_week"} # {} /\ {"end_of_month"} # {} /\ {"end_of_quarter"} # {}
        /\ {"end_of_week"} # {"end_of_month"} /\ {"end_of_week"} # {"end_of_quarter"}
        /\ {"end_of_month"} # {"end_of_quarter"}
    <2>1. "end_of_week" # "end_of_month" /\ "end_of_week" # "end_of_quarter"
          /\ "end_of_month" # "end_of_quarter"
      OBVIOUS
    <2>2. QED
      BY <2>1
  <1> DEFINE week == {"end_of_week"}
             month == {"end_of_month"}
             quarter == {"end_of_quarter"}
  <1>3. CASE phrase.marks = week
    BY <1>1, <1>2, <1>3, Zenon DEF Fitting
  <1>4. CASE phrase.marks = month
    BY <1>1, <1>2, <1>4 DEF Fitting
  <1>5. CASE phrase.marks = quarter
    BY <1>1, <1>2, <1>5 DEF Fitting
  <1>6. CASE phrase.marks \notin {week, month, quarter}
    BY <1>1, <1>2, <1>6 DEF Fitting
  <1>7. QED
    BY <1>3, <1>4, <1>5, <1>6

\* The date of an item is the nearest day that fits its phrase, also across the
\* ends of months and years (temporal.py 60-175).
THEOREM DueWhenItFits == Spec => []DeadlinesAreNearest
  <1>1. Worked => DeadlinesAreNearest
    <2> SUFFICES ASSUME Worked, NEW i \in DOMAIN dues, batch[i].due # <<>>,
                        Parts(batch[i].due[1]) = 1, Fitting(batch[i].due[1]) # {}
                 PROVE  dues[i] = <<Earliest(Fitting(batch[i].due[1]))>>
      BY DEF DeadlinesAreNearest
    <2> DEFINE phrase == batch[i].due[1]
               fits == Fitting(phrase)
    <2>1. phrase \in Phrase /\ day \in Nat /\ day + 101 < End /\ End \in Nat
      BY DatedItem, CalendarEnds
    <2>2. PICK s \in DateAnswers : dues[i] = DeadlineOf(batch[i], day, s)
      BY DatedItem
    <2>3. ASSUME NEW r \in Nat, Matching(phrase) = {r}, ~ Rules(phrase, day)[r].vague,
                 NEW due, Rules(phrase, day)[r].due = due,
                 fits \in SUBSET Int, due \in fits, \A e \in fits : due <= e
          PROVE  dues[i] = <<Earliest(fits)>>
      <3>1. dues[i] = <<due>>
        BY <2>2, <2>3, DueByRule
      <3> HIDE DEF fits
      <3>2. Earliest(fits) = due
        BY <2>3, EarliestIs
      <3>3. QED
        BY <3>1, <3>2
    <2>4. Parts(phrase) = 1 /\ fits # {}
      OBVIOUS
    <2> HIDE DEF phrase, fits
    <2>5. \A d : d \in Ahead <=> d \in Int /\ day <= d /\ d <= day + 100
      BY <2>1 DEF Ahead
    <2>6. CASE phrase.marks = {"end_of_week"}
      <3> DEFINE due == EndOfThisWeek(day)
      <3>1. fits = {d \in Ahead : Weekday(d) = 4}
        BY <2>1, <2>4, <2>6, FittingDays DEF fits
      <3>2. due \in Int /\ day <= due /\ due <= day + 100 /\ Weekday(due) = 4
        BY <2>1 DEF EndOfThisWeek, Weekday
      <3>3. ASSUME NEW e \in Int, day <= e, Weekday(e) = 4
            PROVE  due <= e
        BY <2>1, <3>3 DEF EndOfThisWeek, Weekday
      <3> HIDE DEF due
      <3>4. fits \in SUBSET Int /\ due \in fits /\ \A e \in fits : due <= e
        BY <2>5, <3>1, <3>2, <3>3
      <3>5. Matching(phrase) = {6} /\ ~ Rules(phrase, day)[6].vague /\ Rules(phrase, day)[6].due = due
        BY <2>1, <2>4, <2>6, PeriodRule DEF due
      <3>6. QED
        BY <2>3, <3>4, <3>5 DEF fits, phrase
    <2>7. CASE phrase.marks = {"end_of_month"}
      <3> DEFINE m == MonthOf(day)
                 due == MonthStart[m + 1] - 1
      <3>1. fits = {d \in Ahead : DayOfMonth(d + 1) = 1}
        BY <2>1, <2>4, <2>7, FittingDays DEF fits
      <3>2. EndOfMonth(day) = due
        BY <2>1, MonthEnds
      <3>3. /\ m \in Months /\ MonthStart[m] \in Nat /\ MonthStart[m + 1] \in Nat
            /\ MonthStart[m] <= day /\ day < MonthStart[m + 1]
            /\ MonthStart[m + 1] - MonthStart[m] \in 28..31
        BY <2>1, NextMonth
      <3> HIDE DEF m
      <3>4. MonthStart[m + 1] < End
        BY <2>1, <3>3
      <3>5. /\ due \in Nat /\ DayOfMonth(due + 1) = 1
            /\ \A e \in Nat : e + 1 < End /\ DayOfMonth(e + 1) = 1 /\ MonthStart[m] <= e => due <= e
        BY <3>3, <3>4, MonthEndings
      <3>6. day <= due /\ due <= day + 100
        BY <2>1, <3>3
      <3> HIDE DEF due
      <3>7. due \in fits /\ fits \in SUBSET Int
        BY <2>5, <3>1, <3>5, <3>6
      <3>8. ASSUME NEW e \in fits
            PROVE  due <= e
        <4>1. e \in Int /\ day <= e /\ e <= day + 100 /\ DayOfMonth(e + 1) = 1
          BY <2>5, <3>1
        <4>2. e \in Nat /\ e + 1 < End /\ MonthStart[m] <= e
          BY <2>1, <3>3, <4>1
        <4>3. QED
          BY <3>5, <4>1, <4>2
      <3>9. Matching(phrase) = {8} /\ ~ Rules(phrase, day)[8].vague /\ Rules(phrase, day)[8].due = due
        BY <2>1, <2>4, <2>7, <3>2, PeriodRule
      <3>10. QED
        BY <2>3, <3>7, <3>8, <3>9 DEF fits, phrase
    <2>8. CASE phrase.marks = {"end_of_quarter"}
      <3> DEFINE last == LastOfQuarter(MonthOf(day))
                 due == MonthStart[last + 1] - 1
      <3>1. fits = {d \in Ahead : DayOfMonth(d + 1) = 1 /\ MonthOf(d) % 3 = 0}
        BY <2>1, <2>4, <2>8, FittingDays DEF fits
      <3>2. EndOfQuarter(day) = due
        BY <2>1, QuarterEnds
      <3>3. /\ last \in Months /\ MonthStart[last] \in Nat /\ MonthStart[last + 1] \in Nat
            /\ day <= due /\ due <= day + 100 /\ MonthOf(due) = last
        BY <2>1, QuarterIsShort
      <3>4. MonthOf(day) \in Months
        BY <2>1, MonthOfDay
      <3>5. last % 3 = 0 /\ \A k \in Nat : MonthOf(day) <= k /\ k % 3 = 0 => last <= k
        BY <3>4, QuarterOf
      <3> HIDE DEF last
      <3>6. MonthStart[last + 1] < End
        BY <2>1, <3>3
      <3>7. /\ due \in Nat /\ DayOfMonth(due + 1) = 1
            /\ \A e \in Nat : e + 1 < End /\ DayOfMonth(e + 1) = 1 /\ MonthStart[last] <= e => due <= e
        BY <3>3, <3>6, MonthEndings
      <3> HIDE DEF due
      <3>8. due \in fits /\ fits \in SUBSET Int
        BY <2>5, <3>1, <3>3, <3>5, <3>7
      <3>9. ASSUME NEW e \in fits
            PROVE  due <= e
        <4>1. /\ e \in Int /\ day <= e /\ e <= day + 100
              /\ DayOfMonth(e + 1) = 1 /\ MonthOf(e) % 3 = 0
          BY <2>5, <3>1
        <4>2. e \in Nat /\ e + 1 < End /\ e < End
          BY <2>1, <4>1
        <4>3. MonthOf(day) <= MonthOf(e) /\ MonthOf(e) \in Months /\ MonthStart[MonthOf(e)] <= e
          BY <2>1, <4>1, <4>2, MonthsFollow, MonthOfDay
        <4>4. last <= MonthOf(e)
          BY <3>5, <4>1, <4>3, CalendarEnds DEF Months
        <4> DEFINE k == MonthOf(e)
        <4>5. k \in Months /\ last <= k /\ MonthStart[k] <= e
          BY <4>3, <4>4
        <4> HIDE DEF k
        <4>6. k \in 1..Len(MonthStart) /\ last \in 1..Len(MonthStart) /\ (last = k \/ last < k)
          BY <3>3, <4>5, CalendarEnds DEF Months
        <4>7. MonthStart[last] <= e
          BY <3>3, <4>1, <4>5, <4>6, MonthsGrow
        <4>8. QED
          BY <3>7, <4>1, <4>2, <4>7
      <3>10. Matching(phrase) = {10} /\ ~ Rules(phrase, day)[10].vague /\ Rules(phrase, day)[10].due = due
        BY <2>1, <2>4, <2>8, <3>2, PeriodRule
      <3>11. QED
        BY <2>3, <3>8, <3>9, <3>10 DEF fits, phrase
    <2>9. CASE phrase.weekday # <<>>
      <3> DEFINE w == phrase.weekday[1]
                 due == Rules(phrase, day)[11].due
      <3>1. /\ w \in 0..6 /\ Matching(phrase) = {11} /\ ~ Rules(phrase, day)[11].vague
            /\ due = IF phrase.next THEN NextWeekday(w, day) ELSE BareWeekday(w, day)
        BY <2>1, <2>4, <2>9, WeekdayRule
      <3>2. /\ ~ phrase.next => fits = {d \in Ahead : d > day /\ Weekday(d) = w}
            /\ phrase.next => fits = {d \in Ahead :
                                        /\ d >= Earliest({e \in Ahead : e > day /\ Weekday(e) = 0})
                                        /\ Weekday(d) = w}
        BY <2>1, <2>4, <2>9, FittingDays DEF fits
      <3> HIDE DEF w, due
      <3>3. CASE ~ phrase.next
        <4>1. due = BareWeekday(w, day)
          BY <3>1, <3>3
        <4>2. due \in Int /\ day < due /\ due <= day + 100 /\ Weekday(due) = w
          BY <2>1, <3>1, <4>1 DEF BareWeekday, Weekday
        <4>3. ASSUME NEW e \in Int, day < e, Weekday(e) = w
              PROVE  due <= e
          BY <2>1, <3>1, <4>1, <4>3 DEF BareWeekday, Weekday
        <4>4. fits \in SUBSET Int /\ due \in fits /\ \A e \in fits : due <= e
          BY <2>1, <2>5, <3>2, <3>3, <4>2, <4>3
        <4>5. QED
          BY <2>3, <3>1, <4>4 DEF fits, phrase, due
      <3>4. CASE phrase.next
        <4> DEFINE monday == day + (7 - Weekday(day))
                   mondays == {e \in Ahead : e > day /\ Weekday(e) = 0}
        <4>1. Earliest(mondays) = monday
          <5>1. monday \in Int /\ day < monday /\ monday <= day + 100 /\ Weekday(monday) = 0
            BY <2>1 DEF Weekday
          <5>2. ASSUME NEW e \in Int, day < e, Weekday(e) = 0
                PROVE  monday <= e
            BY <2>1, <5>2 DEF Weekday
          <5> HIDE DEF monday
          <5>3. mondays \in SUBSET Int /\ monday \in mondays /\ \A e \in mondays : monday <= e
            BY <2>1, <2>5, <5>1, <5>2
          <5> HIDE DEF mondays
          <5>4. QED
            BY <5>3, EarliestIs
        <4>2. due = NextWeekday(w, day)
          BY <3>1, <3>4
        <4>3. fits = {d \in Ahead : d >= monday /\ Weekday(d) = w}
          BY <3>2, <3>4, <4>1
        <4>4. due \in Int /\ day <= due /\ due <= day + 100 /\ due >= monday /\ Weekday(due) = w
          BY <2>1, <3>1, <4>2 DEF NextWeekday, Weekday
        <4>5. ASSUME NEW e \in Int, e >= monday, Weekday(e) = w
              PROVE  due <= e
          BY <2>1, <3>1, <4>2, <4>5 DEF NextWeekday, Weekday
        <4> HIDE DEF monday
        <4>6. fits \in SUBSET Int /\ due \in fits /\ \A e \in fits : due <= e
          BY <2>5, <4>3, <4>4, <4>5
        <4>7. QED
          BY <2>3, <3>1, <4>6 DEF fits, phrase, due
      <3>5. QED
        BY <3>3, <3>4
    <2>10. \/ phrase.marks \in {{"end_of_week"}, {"end_of_month"}, {"end_of_quarter"}}
           \/ phrase.weekday # <<>>
      BY <2>1, <2>4, FittingDays DEF fits
    <2>11. QED
      BY <2>6, <2>7, <2>8, <2>9, <2>10
  <1>2. Spec => []Worked
    BY InitWorked, StepWorked, PTL DEF Spec
  <1>3. QED
    BY <1>1, <1>2, PTL

=============================================================================

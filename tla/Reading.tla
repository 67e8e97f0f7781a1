------------------------------ MODULE Reading -------------------------------
(***************************************************************************)
(* What a run makes of a transcript: its speakers are enrolled, the reply  *)
(* to the commitments brief is grounded in its sentences, reviewed,        *)
(* resolved to owners and dates, and saved.  Models reply whatever the     *)
(* instance lets them.  Meetings are run one after another, again or not,  *)
(* and share a roster.                                                     *)
(***************************************************************************)
EXTENDS Resolution

CONSTANTS
    Meetings,      \* the transcripts that are submitted
    Lines,         \* the lines of each
    RunDays,       \* the days each may be run on
    Replies,       \* the batches the Analyst may return about each
    Verdicts,      \* the sequences of verdicts the Skeptic may return
    OwnerAnswers,  \* what the Attributor may return about an item
    DateAnswers,   \* what Chronos may return about an item
    People,        \* the roster to begin with
    NoMeeting      \* no meeting

ASSUME NoMeetingAssumption == NoMeeting \notin Meetings
\* The calendar goes on beyond the quarter after any run.
ASSUME RunDaysAssumption ==
    /\ RunDays \in [Meetings -> SUBSET Nat]
    /\ \A m \in Meetings : \A d \in RunDays[m] : d + 101 < MonthStart[Len(MonthStart)]
ASSUME LinesAssumption == \A m \in Meetings : Lines[m] \in Seq(Range(Lines[m]))
ASSUME PeopleAssumption == People \in Seq(Range(People))

\* What the schemas of the agents' answers see to: a batch has classified items
\* with quotes and at most one deadline, a verdict names a class or none, an
\* answer is one confidence or one date, or is missing.
ASSUME RepliesAssumption ==
    \A m \in Meetings : \A b \in Replies[m] :
      /\ b \in Seq(Range(b))
      /\ \A i \in DOMAIN b : /\ b[i].class \in Classification
                             /\ b[i].quotes \in Seq(Range(b[i].quotes))
                             /\ b[i].owner.kind \in Hint
                             /\ b[i].due \in Seq(Phrase)
ASSUME VerdictsAssumption ==
    \A s \in Verdicts : /\ s \in Seq(Range(s))
                        /\ \A n \in DOMAIN s : s[n].class \in Classification \cup {""}
ASSUME AnswersAssumption ==
    /\ \A s \in OwnerAnswers : /\ s \in Seq(Range(s))
                               /\ \A n \in DOMAIN s : s[n].confidence \in 0..100
    /\ \A s \in DateAnswers : s \in Seq(Int) /\ Len(s) <= 1

VARIABLES
    roster,    \* the people of the workspace
    submitted, \* history variable: the meetings submitted so far
    meeting,   \* the meeting of this run
    day,       \* the day of this run
    batch,     \* the Analyst's reply
    verdicts,  \* the Skeptic's
    reviewed,  \* what review left, as Review returns it
    owners,    \* the attribution of each obligation, by its position
    dues,      \* its date, if any
    step       \* what was done last

work == <<batch, verdicts, reviewed, owners, dues>>
vars == <<roster, submitted, meeting, day, work, step>>

NoReview == [rejected |-> {}, class |-> <<>>]

Init ==
    /\ roster = People
    /\ submitted = {}
    /\ meeting = NoMeeting
    /\ day = 0
    /\ batch = <<>> /\ verdicts = <<>> /\ reviewed = NoReview
    /\ owners = <<>> /\ dues = <<>>
    /\ step = "saved"

-----------------------------------------------------------------------------
\* A transcript is posted, again or for the first time: who spoke and is not
\* known is put on the roster before a run starts.
Post(m) ==
    /\ step \in {"saved", "refused"}
    /\ LET speakers == Participants(Segment(Lines[m]))
           new == SetToSeq(UnenrolledSpeakers(speakers, roster))
       IN roster' = roster \o [n \in DOMAIN new |-> Enrolled(new[n])]
    /\ submitted' = submitted \cup {m}
    /\ meeting' = m
    /\ day' \in RunDays[m]
    /\ batch' = <<>> /\ verdicts' = <<>> /\ reviewed' = NoReview
    /\ owners' = <<>> /\ dues' = <<>>
    /\ step' = "posted"

\* The Analyst replies; quotes that are nowhere send it back, once.
Reply ==
    /\ step \in {"posted", "corrected"}
    /\ batch' \in Replies[meeting]
    /\ step' = IF step = "posted" /\ AsksForCorrection(Lines[meeting], batch')
                 THEN "corrected" ELSE "extracted"
    /\ UNCHANGED <<roster, submitted, meeting, day, verdicts, reviewed, owners, dues>>

\* The Skeptic is asked when there are candidates and may fail to answer.
ReviewReply ==
    /\ step = "extracted"
    /\ LET candidates == Candidates(Lines[meeting], batch) IN
       /\ verdicts' \in IF candidates = <<>> THEN {<<>>} ELSE Verdicts \cup {<<>>}
       /\ reviewed' = Review(batch, candidates, verdicts')
    /\ step' = "reviewed"
    /\ UNCHANGED <<roster, submitted, meeting, day, batch, owners, dues>>

\* Owners and dates of what creates work; each item is asked about by itself.
ResolveItems ==
    /\ step = "reviewed"
    /\ LET items == Obligations(reviewed) IN
       \E named \in [items -> OwnerAnswers], dated \in [items -> DateAnswers] :
         /\ owners' = [i \in items |-> OwnerOf(Lines[meeting], roster, batch[i], named[i])]
         /\ dues' = [i \in items |-> DeadlineOf(batch[i], day, dated[i])]
    /\ step' = "resolved"
    /\ UNCHANGED <<roster, submitted, meeting, day, batch, verdicts, reviewed>>

\* The items are saved together, or none is: the column's check refuses one.
Save ==
    /\ step = "resolved"
    /\ step' = IF \A i \in DOMAIN owners : FitsTheTable(owners[i]) THEN "saved" ELSE "refused"
    /\ UNCHANGED <<roster, submitted, meeting, day, work>>

Next ==
    \/ \E m \in Meetings : Post(m)
    \/ Reply
    \/ ReviewReply
    \/ ResolveItems
    \/ Save

Spec == Init /\ [][Next]_vars

-----------------------------------------------------------------------------
lines == Lines[meeting]

TypeOK ==
    /\ meeting \in Meetings \cup {NoMeeting}
    /\ day \in Nat
    /\ submitted \subseteq Meetings
    /\ step \in {"posted", "corrected", "extracted", "reviewed", "resolved", "saved", "refused"}
    /\ reviewed.rejected \cup DOMAIN reviewed.class \subseteq DOMAIN batch
    /\ Range(reviewed.class) \subseteq Classification
    /\ DOMAIN owners = DOMAIN dues
    /\ DOMAIN owners \subseteq DOMAIN reviewed.class
    /\ \A i \in DOMAIN owners : owners[i].person \in DOMAIN roster \cup {Nobody}
    /\ \A i \in DOMAIN dues : Len(dues[i]) <= 1

\* What the Analyst reported leaves review with a class, unless nobody said it,
\* it is a decision, it says of a sentence what another item says of it, or the
\* verdict on this item, not on a neighbour of it, is to reject it; and its class
\* is its own unless that verdict names another (intelligence.py 242-330, 393-444).
NothingIsDropped ==
    step \in {"reviewed", "resolved", "saved", "refused"} /\ meeting # NoMeeting =>
      LET candidates == reviewed.rejected \cup DOMAIN reviewed.class
          On(i) == Cardinality({j \in candidates : j < i})
          Says(i, verdict, classes) ==
            \E v \in Range(verdicts) :
              v.index = On(i) /\ v.verdict = verdict /\ v.class \in classes
      IN \A i \in DOMAIN batch :
           \/ \A q \in Range(batch[i].quotes) : Locate(lines, q) = 0
           \/ batch[i].class = "decision"
           \/ \E j \in 1..(i - 1) : /\ <<batch[i].body, batch[j].body>> \in SameThing
                                    /\ Places(lines, batch[i]) \cap Places(lines, batch[j]) # {}
           \/ i \in reviewed.rejected /\ Says(i, "reject", Classification \cup {""})
           \/ /\ i \in DOMAIN reviewed.class
              /\ \/ reviewed.class[i] = batch[i].class
                 \/ Says(i, "downgrade", {reviewed.class[i]})

\* How well a person bears a name: as a name or alias, as the first word of one,
\* nearly, or not.
Bears(p, name) ==
    CASE name \in Labels(roster[p]) -> 3
      [] name \notin Labels(roster[p]) /\ \E l \in Labels(roster[p]) : name = <<l[1]>> -> 2
      [] OTHER -> IF \E l \in Labels(roster[p]) : <<name, l>> \in Near THEN 1 ELSE 0

\* Nobody else on the roster bears the name as well; of near misses the nearest
\* is taken, however near another is.
SingledOut(p, name) ==
    /\ Bears(p, name) > 0
    /\ \A q \in DOMAIN roster \ {p} : Bears(q, name) < Bears(p, name) \/ Bears(q, name) = 1

\* A sentence an item was extracted from, and those who said it: the last label
\* of a speaker at or above each line it stands on.
Spoken(i) ==
    LET quotes == batch[i].quotes IN
    quotes[Lowest({n \in DOMAIN quotes : Locate(lines, quotes[n]) # 0})].text
SpeakersOf(text) ==
    {lines[k].label : k \in {k \in DOMAIN lines :
       /\ lines[k].label \notin Headings \cup {Unsaid}
       /\ \E l \in DOMAIN lines :
            /\ k <= l /\ lines[l].text = text
            /\ \A n \in (k + 1)..l : lines[n].label \in Headings \cup {Unsaid}}}

\* A person named as owner is singled out by the name that was said, or by the
\* one the Attributor answered; a shared name leaves the owner open
\* (roster.py 138-165, resolution.py 199-238).
NobodyIsGuessed ==
    \A i \in DOMAIN owners :
      CASE owners[i].method = "matched" -> SingledOut(owners[i].person, batch[i].owner.name)
        [] owners[i].method = "attributor" ->
             \E a \in UNION {Range(s) : s \in OwnerAnswers} : SingledOut(owners[i].person, a.name)
        [] OTHER -> TRUE

\* "I'll do it" is owed by one who said it, by label and not by the heading or
\* the continuation it stands in (roster.py 112-125, resolution.py 104-118,
\* segmentation.py 80-135).
FirstPersonIsTheSpeaker ==
    \A i \in DOMAIN owners :
      owners[i].method = "first_person" =>
        \E label \in SpeakersOf(Spoken(i)) : Bears(owners[i].person, label) > 0

\* A save is refused for one reason: somebody spoke under a label that two people
\* bear, and said "I" (roster.py 117-124, domain.py 167-170).
OnlySharedLabelsAreRefused ==
    step = "refused" =>
      \E i \in DOMAIN owners :
        /\ batch[i].owner.kind = "first person"
        /\ \E label \in SpeakersOf(Spoken(i)), p, q \in DOMAIN roster :
             p # q /\ Bears(p, label) > 1 /\ Bears(p, label) = Bears(q, label)

\* Nobody is enrolled whom the roster knows under a name like it, and a transcript
\* that is submitted again enrols nobody (roster.py 238-283, meetings.py 77-116).
EnrolmentSettles ==
    [][ /\ meeting' \in submitted => roster' = roster
        /\ \A p \in DOMAIN roster' \ DOMAIN roster, q \in DOMAIN roster :
             Bears(q, roster'[p].name) = 0 ]_<<roster, submitted, meeting, step>>

-----------------------------------------------------------------------------
Earliest(S) == CHOOSE d \in S : \A e \in S : d <= e
Ahead == day..(day + 100)

\* What a phrase of one part means, as a person would look it up in a calendar:
\* the set of the days that fit, of which the nearest is meant.
Fitting(phrase) ==
    LET Ends(d) == DayOfMonth(d + 1) = 1
        Monday == Earliest({d \in Ahead : d > day /\ Weekday(d) = 0})
    IN CASE phrase.marks = {"end_of_week"} -> {d \in Ahead : Weekday(d) = 4}
         [] phrase.marks = {"end_of_month"} -> {d \in Ahead : Ends(d)}
         [] phrase.marks = {"end_of_quarter"} ->
              {d \in Ahead : Ends(d) /\ MonthOf(d) % 3 = 0}
         [] phrase.weekday # <<>> /\ ~ phrase.next ->
              {d \in Ahead : d > day /\ Weekday(d) = phrase.weekday[1]}
         [] phrase.weekday # <<>> /\ phrase.next ->
              {d \in Ahead : d >= Monday /\ Weekday(d) = phrase.weekday[1]}
         [] OTHER -> {}

Parts(phrase) == Cardinality(phrase.marks) + Len(phrase.iso) + Len(phrase.offset) + Len(phrase.weekday)

\* The date of an item is the nearest day that fits its phrase, also across the
\* ends of months and years (temporal.py 60-175).
DeadlinesAreNearest ==
    \A i \in DOMAIN dues :
      batch[i].due # <<>> =>
        LET phrase == batch[i].due[1] IN
        Parts(phrase) = 1 /\ Fitting(phrase) # {} => dues[i] = <<Earliest(Fitting(phrase))>>

\* A promise phrased relative to the day is never due before it, and the same
\* phrase a day later is due no sooner, whatever rule it falls to
\* (temporal.py 60-175).
LaterSaidLaterDue ==
    \A i \in DOMAIN dues :
      batch[i].due # <<>> =>
        LET phrase == batch[i].due[1]
            due == Resolve(phrase, day).due
        IN phrase.iso = <<>> /\ due # <<>> =>
             day <= due[1] /\ due[1] <= Resolve(phrase, day + 1).due[1]

=============================================================================

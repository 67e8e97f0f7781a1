-------------------------- MODULE HistorianProofs --------------------------
(***************************************************************************)
(* Theorems about HistorianBatches, for every value of its constants.  All *)
(* but the commit of a session leaves the ledger alone or is a step of the *)
(* ledger, so the invariant says of an open session what its commit needs: *)
(* its copies, mentions and events are what the verdicts heard so far and  *)
(* the silences noted so far make of the rows it loaded.                   *)
(***************************************************************************)
EXTENDS HistorianBatches, LedgerProofs

\* Writing back a row nobody edited writes nothing.
LEMMA FlushSame ==
    ASSUME NEW stored \in Row, NEW loaded
    PROVE  Flush(stored, loaded, loaded) = stored
  BY DEF Flush, Column, Row

\* A sequence has no more members than places.
LEMMA MembersOfSeq ==
    ASSUME NEW S, NEW s \in Seq(S)
    PROVE  /\ IsFiniteSet(Range(s))
           /\ Cardinality(Range(s)) <= Len(s)
           /\ Range(s) \subseteq S
  <1>1. DOMAIN s = 1..Len(s) /\ Len(s) \in Nat
    OBVIOUS
  <1>2. s \in Surjection(1..Len(s), Range(s))
    BY <1>1 DEF Surjection, Range
  <1>3. IsFiniteSet(1..Len(s)) /\ Cardinality(1..Len(s)) = Len(s)
    BY <1>1, FS_Interval
  <1>4. IsFiniteSet(Range(s)) /\ Cardinality(Range(s)) <= Len(s)
    BY <1>2, <1>3, FS_Surjection
  <1>5. Range(s) \subseteq S
    BY <1>1, ElementOfSeq DEF Range
  <1>6. QED
    BY <1>4, <1>5

\* What is put to the model is loaded, and within the cap.
LEMMA CheckedType ==
    ASSUME NEW meeting, NEW open, IsFiniteSet(open), NEW checked \in Checked(meeting, open)
    PROVE  checked \in Seq(open) /\ Len(checked) <= MaxChecked
  <1>1. PICK s \in SetToSeqs(open) :
          checked = SubSeq(s, 1, IF Len(s) < MaxChecked THEN Len(s) ELSE MaxChecked)
    BY DEF Checked
  <1>2. Cardinality(open) \in Nat
    BY FS_CardinalityType
  <1>3. s \in Seq(open)
    BY <1>1, <1>2 DEF SetToSeqs
  <1> DEFINE last == IF Len(s) < MaxChecked THEN Len(s) ELSE MaxChecked
  <1>4. last \in Nat /\ last <= Len(s) /\ last <= MaxChecked
    BY <1>3, MaxCheckedAssumption
  <1>5. \A i \in 1..last : s[i] \in open
    BY <1>3, <1>4, ElementOfSeq
  <1>6. checked = SubSeq(s, 1, last)
    BY <1>1
  <1> HIDE DEF last
  <1>7. QED
    BY <1>4, <1>5, <1>6, SubSeqProperties

-----------------------------------------------------------------------------
(***************************************************************************)
(* What holds of an open session.  `new` are the commitments it has noted  *)
(* that its meeting had no mention of when it noted them.                  *)
(***************************************************************************)

\* What the session has made of a row it loaded.
CopyOf(talk, job, meeting, new, c) ==
    IF c \in DOMAIN talk.said THEN Apply(job.seen[c], talk.said[c], meeting)
    ELSE IF c \in new THEN [job.seen[c] EXCEPT !.silence = @ + 1]
    ELSE job.seen[c]

\* What it has noted of one.
NoteOf(talk, c) == IF c \in DOMAIN talk.said THEN talk.said[c].outcome ELSE "unmentioned"

\* The events it is going to write.
TrailOf(talk, job, new) ==
    {[run |-> job.run, commitment |-> c, type |-> EventOf(talk.said[c].outcome)] :
       c \in DOMAIN talk.said}
    \cup {[run |-> job.run, commitment |-> c, type |-> "unmentioned"] :
            c \in new \ DOMAIN talk.said}

\* There are verdicts to come.
Hearing(talk) == talk.verdicts # <<>> \/ talk.next <= Len(talk.checked)

Fields == {"checked", "next", "batch", "attempt", "verdicts", "said", "restated",
           "copies", "notes", "trail", "wants"}

Shape(talk) == talk = [field \in Fields |-> talk[field]]

Types(talk, job) ==
    /\ talk.checked \in Seq(DOMAIN job.seen)
    /\ Len(talk.checked) <= MaxChecked
    /\ talk.next \in Nat \ {0}
    /\ talk.batch \in Seq(Range(talk.checked))
    /\ talk.verdicts \in Seq(BatchVerdict)
    /\ talk.said \in [DOMAIN talk.said -> Verdict]
    /\ DOMAIN talk.said \subseteq Range(talk.checked)
    /\ talk.wants \in DOMAIN job.seen \cup {None}
    /\ DOMAIN talk.notes \subseteq DOMAIN job.seen

Noted(talk, job) ==
    /\ talk.notes = [c \in DOMAIN talk.notes |-> NoteOf(talk, c)]
    /\ talk.wants \notin DOMAIN talk.notes
    /\ DOMAIN talk.said \subseteq DOMAIN talk.notes \cup {talk.wants}
    /\ \A c \in DOMAIN talk.notes \cup {talk.wants} :
         c \in DOMAIN talk.said \cup {None} \/ Owed(job.seen[c], RunDay[job.run])
    /\ Hearing(talk) => DOMAIN talk.notes \cup {talk.wants} \subseteq DOMAIN talk.said \cup {None}

Edited(talk, job, meeting, new) ==
    /\ talk.copies = [c \in DOMAIN job.seen |-> CopyOf(talk, job, meeting, new, c)]
    /\ talk.trail = TrailOf(talk, job, new)
    /\ talk.restated \subseteq
         {i \in DOMAIN job.items :
            \E c \in DOMAIN talk.said : Restates(job.seen[c], job.items[i])}

Faithful(talk, job, meeting, new) ==
    /\ Shape(talk)
    /\ Types(talk, job)
    /\ Noted(talk, job)
    /\ Edited(talk, job, meeting, new)

New(w) == {c \in DOMAIN talks[w].notes : mentions[c][MeetingAt(w)] = None}

\* Sessions of one meeting have not noted the same commitment.
Apart(v, w) ==
    MeetingAt(v) = MeetingAt(w) => DOMAIN talks[v].notes \cap DOMAIN talks[w].notes = {}

Sessions ==
    /\ DOMAIN talks = Workers
    /\ \A w \in Workers : Reading(w) => Faithful(talks[w], jobs[w], MeetingAt(w), New(w))
    /\ \A v, w \in Workers : v # w /\ Reading(v) /\ Reading(w) => Apart(v, w)

HistorianInv == TypeOK /\ Sessions

-----------------------------------------------------------------------------
\* A session that has just been opened is faithful.
LEMMA OpenedFaithful ==
    ASSUME NEW job, NEW meeting, NEW checked \in Seq(DOMAIN job.seen),
           Len(checked) <= MaxChecked,
           NEW copies, copies = [c \in DOMAIN job.seen |-> job.seen[c]],
           None \notin DOMAIN job.seen
    PROVE  Faithful(Opened(copies, checked), job, meeting, {})
  <1> DEFINE talk == Opened(copies, checked)
  <1>1. /\ talk.checked = checked /\ talk.next = 1 /\ talk.batch = <<>>
        /\ talk.verdicts = <<>> /\ DOMAIN talk.said = {} /\ talk.restated = {}
        /\ talk.said = [c \in {} |-> None]
        /\ talk.copies = copies /\ talk.notes = [c \in {} |-> None] /\ talk.trail = {}
        /\ DOMAIN talk.notes = {} /\ talk.wants = None
        /\ Shape(talk)
    BY DEF Opened, Shape, Fields
  <1> HIDE DEF talk
  <1>2. Types(talk, job)
    BY <1>1 DEF Types
  <1>3. Noted(talk, job)
    BY <1>1 DEF Noted
  <1>4. Edited(talk, job, meeting, {})
    BY <1>1 DEF Edited, CopyOf, TrailOf
  <1>5. Faithful(talk, job, meeting, {})
    BY <1>1, <1>2, <1>3, <1>4 DEF Faithful
  <1>6. QED
    BY <1>5 DEF talk

-----------------------------------------------------------------------------
(***************************************************************************)
(* What the steps of a session keep.                                       *)
(***************************************************************************)

\* Asking about a batch, with or without success, changes nothing but what is
\* to come.
LEMMA AskingFaithful ==
    ASSUME NEW talk, NEW job, NEW meeting, NEW new, Faithful(talk, job, meeting, new),
           Hearing(talk), NEW told, Shape(told),
           told.checked = talk.checked, told.said = talk.said,
           told.restated = talk.restated, told.copies = talk.copies,
           told.notes = talk.notes, told.trail = talk.trail, told.wants = talk.wants,
           told.next \in Nat \ {0}, told.batch \in Seq(Range(talk.checked)),
           told.verdicts \in Seq(BatchVerdict)
    PROVE  Faithful(told, job, meeting, new)
  <1>1. Types(told, job)
    BY DEF Faithful, Types
  <1>2. Noted(told, job)
    BY DEF Faithful, Noted, NoteOf
  <1>3. Edited(told, job, meeting, new)
    BY DEF Faithful, Edited, CopyOf, TrailOf
  <1>4. QED
    BY <1>1, <1>2, <1>3 DEF Faithful

\* A verdict leaves what was promised and by whom.
LEMMA ApplyKeeps ==
    ASSUME NEW row \in Row, NEW verdict \in Verdict, NEW meeting \in Meetings
    PROVE  /\ Apply(row, verdict, meeting).text = row.text
           /\ Apply(row, verdict, meeting).owner = row.owner
  BY DEF Apply, Row, Verdict

\* So a copy that was not counted silent restates what its row does.
LEMMA CopyKeeps ==
    ASSUME NEW talk, NEW job, NEW meeting \in Meetings, NEW new \in SUBSET DOMAIN talk.notes,
           Faithful(talk, job, meeting, new),
           \A c \in DOMAIN job.seen : job.seen[c] \in Row,
           NEW c \in DOMAIN job.seen, NEW item
    PROVE  Restates(talk.copies[c], item) <=> Restates(job.seen[c], item)
  <1>1. talk.copies[c] = CopyOf(talk, job, meeting, new, c)
    BY DEF Faithful, Edited
  <1>2. talk.copies[c].text = job.seen[c].text /\ talk.copies[c].owner = job.seen[c].owner
    <2>1. CASE c \in DOMAIN talk.said
      <3>1. talk.said[c] \in Verdict
        BY <2>1 DEF Faithful, Types
      <3>2. QED
        BY <1>1, <2>1, <3>1, ApplyKeeps DEF CopyOf
    <2>2. CASE c \notin DOMAIN talk.said
      BY <1>1, <2>2 DEF CopyOf, Row
    <2>3. QED
      BY <2>1, <2>2
  <1>3. QED
    BY <1>2 DEF Restates

\* An item that is folded restates a commitment that came up.
LEMMA FoldFaithful ==
    ASSUME NEW talk, NEW job, NEW meeting \in Meetings, NEW new \in SUBSET DOMAIN talk.notes,
           Faithful(talk, job, meeting, new), Hearing(talk),
           \A c \in DOMAIN job.seen : job.seen[c] \in Row,
           NEW c \in DOMAIN talk.said, NEW head, NEW told, Shape(told),
           told.checked = talk.checked, told.said = talk.said,
           told.restated = talk.restated \cup Folds(talk, c, head, job.items),
           told.copies = talk.copies,
           told.notes = talk.notes, told.trail = talk.trail, told.wants = talk.wants,
           told.next = talk.next, told.batch = talk.batch,
           told.verdicts \in Seq(BatchVerdict)
    PROVE  Faithful(told, job, meeting, new)
  <1>1. Types(told, job)
    BY DEF Faithful, Types
  <1>2. Noted(told, job)
    BY DEF Faithful, Noted, NoteOf
  <1>3. c \in DOMAIN job.seen
    BY MembersOfSeq DEF Faithful, Types
  <1>4. \A i \in Folds(talk, c, head, job.items) :
          i \in DOMAIN job.items /\ Restates(job.seen[c], job.items[i])
    BY <1>3, CopyKeeps DEF Folds
  <1>5. Edited(told, job, meeting, new)
    <2>1. told.copies = [d \in DOMAIN job.seen |-> CopyOf(told, job, meeting, new, d)]
      BY DEF Faithful, Edited, CopyOf
    <2>2. told.trail = TrailOf(told, job, new)
      BY DEF Faithful, Edited, TrailOf
    <2>3. QED
      BY <1>4, <2>1, <2>2 DEF Faithful, Edited
  <1>6. QED
    BY <1>1, <1>2, <1>5 DEF Faithful

\* The first verdict on a commitment edits its copy, which is still as loaded.
Revised(copies, c, value, meeting) == [copies EXCEPT ![c] = Apply(@, value, meeting)]

LEMMA HearFaithful ==
    ASSUME NEW talk, NEW job, NEW meeting \in Meetings, NEW new \in SUBSET DOMAIN talk.notes,
           Faithful(talk, job, meeting, new), Hearing(talk), talk.wants = None,
           None \notin DOMAIN job.seen,
           \A c \in DOMAIN job.seen : job.seen[c] \in Row,
           NEW c \in Range(talk.checked), c \notin DOMAIN talk.said,
           NEW head \in BatchVerdict, NEW told, Shape(told),
           told.checked = talk.checked,
           told.said = Also(talk.said, c, head.verdict),
           told.restated = talk.restated \cup Folds(talk, c, head, job.items),
           told.copies = Revised(talk.copies, c, head.verdict, meeting),
           told.notes = talk.notes,
           NEW event, event = [run |-> job.run, commitment |-> c,
                               type |-> EventOf(head.verdict.outcome)],
           told.trail = talk.trail \cup {event},
           told.wants = c,
           told.next = talk.next, told.batch = talk.batch,
           told.verdicts \in Seq(BatchVerdict)
    PROVE  Faithful(told, job, meeting, new)
  <1>1. /\ DOMAIN told.said = DOMAIN talk.said \cup {c}
        /\ told.said[c] = head.verdict
        /\ \A d \in DOMAIN talk.said : told.said[d] = talk.said[d]
        /\ told.said \in [DOMAIN told.said -> Verdict]
    <2>1. head.verdict \in Verdict /\ talk.said \in [DOMAIN talk.said -> Verdict]
      BY DEF Faithful, Types, BatchVerdict
    <2>2. told.said = Also(talk.said, c, head.verdict)
      OBVIOUS
    <2> DEFINE said == talk.said
               value == head.verdict
    <2>3. said \in [DOMAIN said -> Verdict] /\ value \in Verdict
      BY <2>1
    <2>4. c \notin DOMAIN said
      OBVIOUS
    <2> HIDE DEF said, value
    <2>5. Also(said, c, value) \in [DOMAIN Also(said, c, value) -> Verdict]
      BY ONLY <2>3 DEF Also
    <2>6. /\ DOMAIN Also(said, c, value) = DOMAIN said \cup {c}
          /\ Also(said, c, value)[c] = value
          /\ \A d \in DOMAIN said : Also(said, c, value)[d] = said[d]
      BY ONLY <2>4 DEF Also
    <2>7. QED
      BY <2>2, <2>5, <2>6 DEF said, value
  <1>2. c \in DOMAIN job.seen
    BY MembersOfSeq DEF Faithful, Types
  <1>3. DOMAIN talk.notes = DOMAIN talk.said
    <2>1. DOMAIN talk.said \subseteq DOMAIN job.seen
      BY MembersOfSeq DEF Faithful, Types
    <2>2. DOMAIN talk.notes \subseteq DOMAIN job.seen
      BY DEF Faithful, Types
    <2>3. /\ DOMAIN talk.said \subseteq DOMAIN talk.notes \cup {None}
          /\ DOMAIN talk.notes \subseteq DOMAIN talk.said \cup {None}
      BY DEF Faithful, Noted
    <2>4. QED
      BY ONLY <2>1, <2>2, <2>3, None \notin DOMAIN job.seen
  <1>4. talk.copies[c] = job.seen[c]
    BY <1>2, <1>3 DEF Faithful, Edited, CopyOf
  <1>5. Types(told, job)
    BY <1>1, <1>2 DEF Faithful, Types
  <1>6. Noted(told, job)
    <2>1. told.notes = [d \in DOMAIN told.notes |-> NoteOf(told, d)]
      BY <1>1, <1>3 DEF Faithful, Noted, NoteOf
    <2>2. QED
      BY <1>1, <1>3, <2>1 DEF Noted
  <1>7. told.copies = [d \in DOMAIN job.seen |-> CopyOf(told, job, meeting, new, d)]
    <2>1. talk.copies = [d \in DOMAIN job.seen |-> CopyOf(talk, job, meeting, new, d)]
      BY DEF Faithful, Edited
    <2>2. told.copies = [d \in DOMAIN job.seen |->
                           IF d = c THEN Apply(job.seen[c], head.verdict, meeting)
                           ELSE CopyOf(talk, job, meeting, new, d)]
      BY <1>2, <1>4, <2>1 DEF Revised
    <2>3. \A d \in DOMAIN job.seen : d # c =>
            CopyOf(talk, job, meeting, new, d) = CopyOf(told, job, meeting, new, d)
      BY <1>1 DEF CopyOf
    <2>4. CopyOf(told, job, meeting, new, c) = Apply(job.seen[c], head.verdict, meeting)
      BY <1>1 DEF CopyOf
    <2>5. QED
      BY <2>2, <2>3, <2>4
  <1>8. told.trail = TrailOf(told, job, new)
    <2>1. talk.trail = TrailOf(talk, job, new)
      BY DEF Faithful, Edited
    <2>2. new \ DOMAIN told.said = {} /\ new \ DOMAIN talk.said = {}
      BY <1>1, <1>3
    <2> DEFINE Event(d, outcome) ==
                 [run |-> job.run, commitment |-> d, type |-> EventOf(outcome)]
    <2>3. {Event(d, told.said[d].outcome) : d \in DOMAIN told.said} =
            {Event(d, talk.said[d].outcome) : d \in DOMAIN talk.said}
            \cup {Event(c, head.verdict.outcome)}
      <3> HIDE DEF Event
      <3>1. QED
        BY <1>1
    <2>4. event = Event(c, head.verdict.outcome)
      OBVIOUS
    <2>5. QED
      BY <2>1, <2>2, <2>3, <2>4 DEF TrailOf
  <1>9. told.restated \subseteq
          {i \in DOMAIN job.items :
             \E d \in DOMAIN told.said : Restates(job.seen[d], job.items[i])}
    <2>1. \A i \in Folds(talk, c, head, job.items) :
            i \in DOMAIN job.items /\ Restates(job.seen[c], job.items[i])
      BY <1>2, CopyKeeps DEF Folds
    <2>2. QED
      BY <1>1, <2>1 DEF Faithful, Edited
  <1>10. QED
    BY <1>5, <1>6, <1>7, <1>8, <1>9 DEF Faithful, Edited

\* A silence is going to be noted of a commitment that is owed.
LEMMA SilentFaithful ==
    ASSUME NEW talk, NEW job, NEW meeting, NEW new \in SUBSET DOMAIN talk.notes,
           Faithful(talk, job, meeting, new), ~ Hearing(talk), talk.wants = None,
           NEW c \in DOMAIN job.seen, c \notin DOMAIN talk.said \cup DOMAIN talk.notes,
           None \notin DOMAIN job.seen,
           Owed(talk.copies[c], RunDay[job.run]),
           NEW told, Shape(told),
           told.checked = talk.checked, told.said = talk.said,
           told.restated = talk.restated, told.copies = talk.copies,
           told.notes = talk.notes, told.trail = talk.trail, told.wants = c,
           told.next = talk.next, told.batch = talk.batch,
           told.verdicts = talk.verdicts
    PROVE  Faithful(told, job, meeting, new)
  <1>1. Types(told, job)
    BY DEF Faithful, Types
  <1>2. Owed(job.seen[c], RunDay[job.run])
    <2>1. talk.copies[c] = job.seen[c]
      BY DEF Faithful, Edited, CopyOf
    <2>2. QED
      BY <2>1
  <1>3. Noted(told, job)
    <2>1. ~ Hearing(told)
      BY DEF Hearing
    <2>2. None \notin DOMAIN talk.said
      BY MembersOfSeq DEF Faithful, Types
    <2>3. told.notes = [d \in DOMAIN told.notes |-> NoteOf(told, d)]
      BY DEF Faithful, Noted, NoteOf
    <2>4. QED
      BY <1>2, <2>1, <2>2, <2>3 DEF Faithful, Noted
  <1>4. Edited(told, job, meeting, new)
    BY DEF Faithful, Edited, CopyOf, TrailOf
  <1>5. QED
    BY <1>1, <1>3, <1>4 DEF Faithful

\* A mention of what was said is written.
LEMMA NoteSaidFaithful ==
    ASSUME NEW talk, NEW job, NEW meeting, NEW new, NEW more,
           Faithful(talk, job, meeting, new),
           None \notin DOMAIN job.seen,
           NEW c \in DOMAIN talk.said, c = talk.wants,
           more \in {new, new \cup {c}},
           NEW told, Shape(told),
           told.checked = talk.checked, told.said = talk.said,
           told.restated = talk.restated, told.copies = talk.copies,
           told.notes = Also(talk.notes, c, talk.said[c].outcome),
           told.trail = talk.trail, told.wants = None,
           told.next = talk.next, told.batch = talk.batch,
           told.verdicts = talk.verdicts
    PROVE  Faithful(told, job, meeting, more)
  <1>1. DOMAIN talk.said \subseteq DOMAIN job.seen /\ None \notin DOMAIN talk.notes
    BY MembersOfSeq DEF Faithful, Types
  <1>2. /\ DOMAIN told.notes = DOMAIN talk.notes \cup {c}
        /\ told.notes = [d \in DOMAIN talk.notes \cup {c} |->
                           IF d = c THEN talk.said[c].outcome ELSE talk.notes[d]]
    BY DEF Also
  <1>3. Types(told, job)
    BY <1>1, <1>2 DEF Faithful, Types
  <1>4. Noted(told, job)
    <2>1. \A d \in DOMAIN talk.notes : talk.notes[d] = NoteOf(talk, d)
      BY DEF Faithful, Noted
    <2>2. \A d : NoteOf(told, d) = NoteOf(talk, d)
      BY DEF NoteOf
    <2>3. NoteOf(talk, c) = talk.said[c].outcome
      BY DEF NoteOf
    <2>4. told.notes = [d \in DOMAIN told.notes |-> NoteOf(told, d)]
      BY <1>2, <2>1, <2>2, <2>3
    <2>5. Hearing(told) = Hearing(talk)
      BY DEF Hearing
    <2>6. QED
      BY <1>1, <1>2, <2>4, <2>5 DEF Faithful, Noted
  <1>5. Edited(told, job, meeting, more)
    <2>1. \A d : CopyOf(told, job, meeting, more, d) = CopyOf(talk, job, meeting, new, d)
      BY DEF CopyOf
    <2>2. TrailOf(told, job, more) = TrailOf(talk, job, new)
      <3>1. more \ DOMAIN talk.said = new \ DOMAIN talk.said
        OBVIOUS
      <3>2. QED
        BY <3>1 DEF TrailOf
    <2>3. QED
      BY <2>1, <2>2 DEF Faithful, Edited
  <1>6. QED
    BY <1>3, <1>4, <1>5 DEF Faithful

\* What is kept when a silence is noted, counted or not.
LEMMA NoteSilentTypes ==
    ASSUME NEW talk, NEW job, NEW meeting, NEW new,
           Faithful(talk, job, meeting, new),
           None \notin DOMAIN job.seen,
           NEW c \in DOMAIN job.seen \ DOMAIN talk.said, c = talk.wants,
           NEW told,
           told.checked = talk.checked, told.said = talk.said,
           told.notes = Also(talk.notes, c, "unmentioned"), told.wants = None,
           told.next = talk.next, told.batch = talk.batch,
           told.verdicts = talk.verdicts
    PROVE  Types(told, job) /\ Noted(told, job)
  <1>1. DOMAIN talk.said \subseteq DOMAIN job.seen /\ None \notin DOMAIN talk.notes
    BY MembersOfSeq DEF Faithful, Types
  <1>2. /\ DOMAIN told.notes = DOMAIN talk.notes \cup {c}
        /\ told.notes = [d \in DOMAIN talk.notes \cup {c} |->
                           IF d = c THEN "unmentioned" ELSE talk.notes[d]]
    BY DEF Also
  <1>3. Types(told, job)
    BY <1>1, <1>2 DEF Faithful, Types
  <1>4. Noted(told, job)
    <2>1. \A d \in DOMAIN talk.notes : talk.notes[d] = NoteOf(talk, d)
      BY DEF Faithful, Noted
    <2>2. \A d : NoteOf(told, d) = NoteOf(talk, d)
      BY DEF NoteOf
    <2>3. NoteOf(talk, c) = "unmentioned"
      BY DEF NoteOf
    <2>4. told.notes = [d \in DOMAIN told.notes |-> NoteOf(told, d)]
      BY <1>2, <2>1, <2>2, <2>3
    <2>5. Hearing(told) = Hearing(talk)
      BY DEF Hearing
    <2>6. QED
      BY <1>1, <1>2, <2>4, <2>5 DEF Faithful, Noted
  <1>5. QED
    BY <1>3, <1>4

\* A meeting's first silence on a commitment is counted on its copy.
Counted(copies, c) == [copies EXCEPT ![c].silence = @ + 1]

LEMMA CountFaithful ==
    ASSUME NEW talk, NEW job, NEW meeting, NEW new \in SUBSET DOMAIN talk.notes,
           Faithful(talk, job, meeting, new),
           None \notin DOMAIN job.seen,
           NEW c \in DOMAIN job.seen \ DOMAIN talk.said, c = talk.wants,
           NEW told, Shape(told),
           told.checked = talk.checked, told.said = talk.said,
           told.restated = talk.restated,
           told.copies = Counted(talk.copies, c),
           told.notes = Also(talk.notes, c, "unmentioned"),
           NEW event, event = [run |-> job.run, commitment |-> c, type |-> "unmentioned"],
           told.trail = talk.trail \cup {event},
           told.wants = None,
           told.next = talk.next, told.batch = talk.batch,
           told.verdicts = talk.verdicts
    PROVE  Faithful(told, job, meeting, new \cup {c})
  <1>1. Types(told, job) /\ Noted(told, job)
    BY NoteSilentTypes
  <1>2. c \notin new
    BY DEF Faithful, Noted
  <1>3. told.copies = [d \in DOMAIN job.seen |-> CopyOf(told, job, meeting, new \cup {c}, d)]
    <2>1. talk.copies = [d \in DOMAIN job.seen |-> CopyOf(talk, job, meeting, new, d)]
      BY DEF Faithful, Edited
    <2>2. CopyOf(talk, job, meeting, new, c) = job.seen[c]
      BY <1>2 DEF CopyOf
    <2>3. CopyOf(told, job, meeting, new \cup {c}, c) = [job.seen[c] EXCEPT !.silence = @ + 1]
      BY DEF CopyOf
    <2>4. told.copies = [d \in DOMAIN job.seen |->
                           IF d = c THEN [talk.copies[c] EXCEPT !.silence = @ + 1]
                           ELSE talk.copies[d]]
      BY <2>1 DEF Counted
    <2>5. talk.copies[c] = job.seen[c]
      BY <2>1, <2>2
    <2>6. \A d \in DOMAIN job.seen :
            (IF d = c THEN [talk.copies[c] EXCEPT !.silence = @ + 1] ELSE talk.copies[d])
              = CopyOf(told, job, meeting, new \cup {c}, d)
      <3>1. [talk.copies[c] EXCEPT !.silence = @ + 1]
              = CopyOf(told, job, meeting, new \cup {c}, c)
        BY <2>3, <2>5
      <3>2. ASSUME NEW d \in DOMAIN job.seen, d # c
            PROVE  talk.copies[d] = CopyOf(told, job, meeting, new \cup {c}, d)
        <4>1. talk.copies[d] = CopyOf(talk, job, meeting, new, d)
          BY <2>1
        <4>2. QED
          BY <3>2, <4>1 DEF CopyOf
      <3>3. QED
        BY <3>1, <3>2
    <2>7. QED
      BY <2>4, <2>6
  <1>4. told.trail = TrailOf(told, job, new \cup {c})
    <2>1. talk.trail = TrailOf(talk, job, new)
      BY DEF Faithful, Edited
    <2>2. (new \cup {c}) \ DOMAIN talk.said = (new \ DOMAIN talk.said) \cup {c}
      OBVIOUS
    <2> DEFINE Silence(d) == [run |-> job.run, commitment |-> d, type |-> "unmentioned"]
    <2>3. {Silence(d) : d \in (new \ DOMAIN talk.said) \cup {c}} =
            {Silence(d) : d \in new \ DOMAIN talk.said} \cup {Silence(c)}
      <3> HIDE DEF Silence
      <3>1. QED
        OBVIOUS
    <2>4. event = Silence(c)
      OBVIOUS
    <2>5. QED
      BY <2>1, <2>2, <2>3, <2>4 DEF TrailOf
  <1>5. QED
    BY <1>1, <1>3, <1>4 DEF Faithful, Edited

\* One that is noted again is not.
LEMMA NoteAgainFaithful ==
    ASSUME NEW talk, NEW job, NEW meeting, NEW new \in SUBSET DOMAIN talk.notes,
           Faithful(talk, job, meeting, new),
           None \notin DOMAIN job.seen,
           NEW c \in DOMAIN job.seen \ DOMAIN talk.said, c = talk.wants,
           NEW told, Shape(told),
           told.checked = talk.checked, told.said = talk.said,
           told.restated = talk.restated, told.copies = talk.copies,
           told.notes = Also(talk.notes, c, "unmentioned"),
           told.trail = talk.trail, told.wants = None,
           told.next = talk.next, told.batch = talk.batch,
           told.verdicts = talk.verdicts
    PROVE  Faithful(told, job, meeting, new)
  <1>1. Types(told, job) /\ Noted(told, job)
    BY NoteSilentTypes
  <1>2. Edited(told, job, meeting, new)
    BY DEF Faithful, Edited, CopyOf, TrailOf
  <1>3. QED
    BY <1>1, <1>2 DEF Faithful

-----------------------------------------------------------------------------
(***************************************************************************)
(* One session moves; the ledger and the other sessions stay.              *)
(***************************************************************************)

\* What is known of a run whose Historian is at work.
LEMMA ReadingJob ==
    ASSUME HistorianInv, NEW w \in Workers, Reading(w)
    PROVE  /\ Faithful(talks[w], jobs[w], MeetingAt(w), New(w))
           /\ MeetingAt(w) \in Meetings
           /\ None \notin DOMAIN jobs[w].seen
           /\ DOMAIN jobs[w].seen \subseteq RowIds
           /\ \A c \in DOMAIN jobs[w].seen : jobs[w].seen[c] \in Row
           /\ New(w) \in SUBSET DOMAIN talks[w].notes
           /\ jobs[w].run \in 1..Len(runs)
  <1>1. JobOK(jobs[w], Len(runs), Len(rows)) /\ Len(rows) \in Nat /\ MeetingAt(w) \in Meetings
    BY BusyJob DEF HistorianInv, Reading, MeetingAt
  <1>2. Faithful(talks[w], jobs[w], MeetingAt(w), New(w))
    BY DEF HistorianInv, Sessions
  <1>3. /\ DOMAIN jobs[w].seen \subseteq RowIds
        /\ \A c \in DOMAIN jobs[w].seen : jobs[w].seen[c] \in Row
        /\ jobs[w].run \in 1..Len(runs)
    BY <1>1 DEF JobOK, RowIds
  <1>4. None \notin RowIds
    BY <1>1, RowIdsAssumption DEF RowIds
  <1>5. New(w) \in SUBSET DOMAIN talks[w].notes
    BY DEF New
  <1>6. QED
    BY <1>1, <1>2, <1>3, <1>4, <1>5

\* A session moves on.
LEMMA SessionMoves ==
    ASSUME HistorianInv, UNCHANGED vars, NEW w \in Workers, Reading(w),
           NEW told, talks' = [talks EXCEPT ![w] = told],
           Faithful(told, jobs[w], MeetingAt(w),
                    {c \in DOMAIN told.notes : mentions[c][MeetingAt(w)] = None}),
           \A v \in Workers \ {w} : Reading(v) /\ MeetingAt(v) = MeetingAt(w) =>
             DOMAIN told.notes \cap DOMAIN talks[v].notes = {}
    PROVE  HistorianInv'
  <1>1. TypeOK'
    BY TypeStep DEF HistorianInv
  <1>2. /\ jobs' = jobs /\ mentions' = mentions /\ runs' = runs
        /\ DOMAIN talks' = Workers /\ talks'[w] = told
        /\ \A v \in Workers \ {w} : talks'[v] = talks[v]
    BY DEF HistorianInv, Sessions, vars
  <1>3. \A v \in Workers : Reading(v)' = Reading(v) /\ MeetingAt(v)' = MeetingAt(v)
    BY <1>2 DEF Reading, MeetingAt, MeetingOf
  <1>4. \A v \in Workers : Reading(v)' => Faithful(talks[v], jobs[v], MeetingAt(v), New(v))'
    <2>1. Faithful(talks[w], jobs[w], MeetingAt(w), New(w))'
      BY <1>2, <1>3 DEF New
    <2>2. \A v \in Workers \ {w} : New(v)' = New(v)
      BY <1>2, <1>3 DEF New
    <2>3. QED
      BY <1>2, <1>3, <2>1, <2>2 DEF HistorianInv, Sessions
  <1>5. ASSUME NEW v \in Workers, NEW u \in Workers, v # u, Reading(v)', Reading(u)'
        PROVE  Apart(v, u)'
    <2>1. Apart(v, u)
      BY <1>3, <1>5 DEF HistorianInv, Sessions
    <2>2. QED
      BY <1>2, <1>3, <1>5, <2>1 DEF Apart
  <1>6. QED
    BY <1>1, <1>2, <1>4, <1>5 DEF HistorianInv, Sessions

\* One that notes nothing does so apart from the others.
LEMMA SessionMovesQuietly ==
    ASSUME HistorianInv, UNCHANGED vars, NEW w \in Workers, Reading(w),
           NEW told, talks' = [talks EXCEPT ![w] = told],
           told.notes = talks[w].notes,
           Faithful(told, jobs[w], MeetingAt(w), New(w))
    PROVE  HistorianInv'
  <1>1. New(w) = {c \in DOMAIN told.notes : mentions[c][MeetingAt(w)] = None}
    BY DEF New
  <1>2. \A v \in Workers \ {w} : Reading(v) /\ MeetingAt(v) = MeetingAt(w) =>
          DOMAIN told.notes \cap DOMAIN talks[v].notes = {}
    BY DEF HistorianInv, Sessions, Apart
  <1>3. Faithful(told, jobs[w], MeetingAt(w),
                 {c \in DOMAIN told.notes : mentions[c][MeetingAt(w)] = None})
    BY <1>1
  <1>4. QED
    BY <1>2, <1>3, SessionMoves

\* A call ends.
LEMMA ReplyStep ==
    ASSUME HistorianInv, NEW w \in Workers, NEW verdicts \in Replies, Reply(w, verdicts)
    PROVE  HistorianInv'
  <1> DEFINE talk == talks[w]
             last == BatchEnd(talk)
             batch == SubSeq(talk.checked, talk.next, last)
             told == [talk EXCEPT !.batch = batch, !.next = last + 1, !.attempt = 1,
                                  !.verdicts = verdicts]
  <1>1. Faithful(talk, jobs[w], MeetingAt(w), New(w)) /\ Reading(w) /\ UNCHANGED vars
    BY ReadingJob DEF Reply, Asking
  <1>2. talks' = [talks EXCEPT ![w] = told]
    BY DEF Reply
  <1>3. Hearing(talk) /\ talk.next <= Len(talk.checked)
    BY DEF Reply, Asking, Hearing
  <1>4. Shape(talk) /\ Types(talk, jobs[w])
    BY <1>1 DEF Faithful
  <1>5. last \in Nat /\ last <= Len(talk.checked)
    BY <1>3, <1>4, BatchSizeAssumption DEF BatchEnd, Types
  <1>6. batch \in Seq(Range(talk.checked))
    <2>1. \A i \in talk.next..last : talk.checked[i] \in Range(talk.checked)
      BY <1>4, <1>5 DEF Types, Range
    <2>2. QED
      BY <1>4, <1>5, <2>1, SubSeqProperties DEF Types
  <1>7. verdicts \in Seq(BatchVerdict)
    BY RepliesAssumption
  <1> HIDE DEF talk, last, batch
  <1>8. /\ Shape(told)
        /\ told.checked = talk.checked /\ told.said = talk.said
        /\ told.restated = talk.restated /\ told.copies = talk.copies
        /\ told.notes = talk.notes /\ told.trail = talk.trail /\ told.wants = talk.wants
        /\ told.next = last + 1 /\ told.batch = batch /\ told.verdicts = verdicts
    BY <1>4 DEF Shape, Fields
  <1> HIDE DEF told
  <1>9. Faithful(told, jobs[w], MeetingAt(w), New(w))
    BY <1>1, <1>3, <1>5, <1>6, <1>7, <1>8, AskingFaithful
  <1>10. QED
    BY <1>1, <1>2, <1>8, <1>9, SessionMovesQuietly DEF talk

\* A call raises.
LEMMA CallRaisesStep ==
    ASSUME HistorianInv, NEW w \in Workers, CallRaises(w)
    PROVE  HistorianInv'
  <1> DEFINE talk == talks[w]
             told == IF AttemptsLeft(talk)
                       THEN [talk EXCEPT !.attempt = 2]
                       ELSE [talk EXCEPT !.attempt = 1, !.next = BatchEnd(talk) + 1]
  <1>1. Faithful(talk, jobs[w], MeetingAt(w), New(w)) /\ Reading(w) /\ UNCHANGED vars
    BY ReadingJob DEF CallRaises, Asking
  <1>2. talks' = [talks EXCEPT ![w] = told]
    BY DEF CallRaises
  <1>3. Hearing(talk) /\ talk.next <= Len(talk.checked)
    BY DEF CallRaises, Asking, Hearing
  <1>4. Shape(talk) /\ Types(talk, jobs[w])
    BY <1>1 DEF Faithful
  <1>5. BatchEnd(talk) \in Nat
    BY <1>3, <1>4, BatchSizeAssumption DEF BatchEnd, Types
  <1> HIDE DEF talk
  <1>6. /\ Shape(told)
        /\ told.checked = talk.checked /\ told.said = talk.said
        /\ told.restated = talk.restated /\ told.copies = talk.copies
        /\ told.notes = talk.notes /\ told.trail = talk.trail /\ told.wants = talk.wants
        /\ told.next \in {talk.next, BatchEnd(talk) + 1}
        /\ told.batch = talk.batch /\ told.verdicts = talk.verdicts
    BY <1>4 DEF Shape, Fields
  <1> HIDE DEF told
  <1>7. told.next \in Nat \ {0} /\ told.batch \in Seq(Range(talk.checked))
        /\ told.verdicts \in Seq(BatchVerdict)
    BY <1>4, <1>5, <1>6 DEF Types
  <1>8. Faithful(told, jobs[w], MeetingAt(w), New(w))
    BY <1>1, <1>3, <1>6, <1>7, AskingFaithful
  <1>9. QED
    BY <1>1, <1>2, <1>6, <1>8, SessionMovesQuietly DEF talk

\* The next verdict is heard.
LEMMA HearStep ==
    ASSUME HistorianInv, NEW w \in Workers, Hear(w)
    PROVE  HistorianInv'
  <1> DEFINE job == jobs[w]
             meeting == MeetingAt(w)
             old == talks[w]
             talk == [old EXCEPT !.verdicts = Tail(@)]
             head == Head(old.verdicts)
             c == talk.batch[head.index + 1]
             folding == [talk EXCEPT !.restated = @ \cup Folds(talk, c, head, job.items)]
             applied ==
               [folding EXCEPT
                  !.said = Also(@, c, head.verdict),
                  !.copies[c] = Apply(@, head.verdict, meeting),
                  !.trail = @ \cup {[run |-> job.run, commitment |-> c,
                                     type |-> EventOf(head.verdict.outcome)]},
                  !.wants = c]
             told == CASE ~ head.mentioned \/ head.index >= Len(talk.batch) -> talk
                       [] OTHER -> IF FirstVerdict(talk, c) THEN applied ELSE folding
  <1>1. talks' = [talks EXCEPT ![w] = told] /\ UNCHANGED vars
    BY DEF Hear
  <1>2. Reading(w) /\ old.verdicts # <<>> /\ old.wants = None
    BY DEF Hear
  <1>3. /\ Faithful(old, job, meeting, New(w)) /\ meeting \in Meetings
        /\ None \notin DOMAIN job.seen
        /\ \A d \in DOMAIN job.seen : job.seen[d] \in Row
        /\ New(w) \in SUBSET DOMAIN old.notes
    BY <1>2, ReadingJob
  <1>4. Shape(old) /\ Types(old, job)
    BY <1>3 DEF Faithful
  <1>5. head \in BatchVerdict /\ Tail(old.verdicts) \in Seq(BatchVerdict)
    BY <1>2, <1>4, HeadTailProperties DEF Types
  <1>6. Hearing(old)
    BY <1>2 DEF Hearing
  <1> HIDE DEF job, meeting, old, head
  <1>7. /\ Shape(talk)
        /\ talk.checked = old.checked /\ talk.said = old.said
        /\ talk.restated = old.restated /\ talk.copies = old.copies
        /\ talk.notes = old.notes /\ talk.trail = old.trail /\ talk.wants = old.wants
        /\ talk.next = old.next /\ talk.batch = old.batch
        /\ talk.verdicts = Tail(old.verdicts)
    BY <1>4 DEF Shape, Fields
  <1> HIDE DEF talk
  <1>8. talk.next \in Nat \ {0} /\ talk.batch \in Seq(Range(old.checked))
    BY <1>4, <1>7 DEF Types
  <1>9. Faithful(talk, job, meeting, New(w))
    BY <1>3, <1>5, <1>6, <1>7, <1>8, AskingFaithful
  <1>10. CASE told = talk
    BY <1>1, <1>2, <1>7, <1>9, <1>10, SessionMovesQuietly DEF old, job, meeting
  <1> DEFINE known == ~ (~ head.mentioned \/ head.index >= Len(talk.batch))
  <1>11. ASSUME known
         PROVE  c \in Range(talk.checked)
    <2>1. head.index + 1 \in 1..Len(talk.batch)
      BY <1>5, <1>8, <1>11 DEF BatchVerdict
    <2>2. QED
      BY <1>7, <1>8, <2>1, ElementOfSeq
  <1> HIDE DEF c
  <1>12. /\ Shape(folding)
         /\ folding.checked = talk.checked /\ folding.said = talk.said
         /\ folding.restated = talk.restated \cup Folds(talk, c, head, job.items)
         /\ folding.copies = talk.copies
         /\ folding.notes = talk.notes /\ folding.trail = talk.trail
         /\ folding.wants = talk.wants
         /\ folding.next = talk.next /\ folding.batch = talk.batch
         /\ folding.verdicts = talk.verdicts
    BY <1>7 DEF Shape, Fields
  <1>13. Folds(talk, c, head, job.items) = Folds(old, c, head, job.items)
    BY <1>7 DEF Folds
  <1>14. CASE known /\ ~ FirstVerdict(talk, c)
    <2>1. told = folding
      BY <1>14
    <2>2. c \in DOMAIN talk.said
      BY <1>14 DEF FirstVerdict
    <2> HIDE DEF folding
    <2>3. c \in DOMAIN old.said /\ folding.verdicts \in Seq(BatchVerdict)
      BY <2>2, <1>5, <1>7, <1>12
    <2>4. /\ folding.checked = old.checked /\ folding.said = old.said
          /\ folding.restated = old.restated \cup Folds(old, c, head, job.items)
          /\ folding.copies = old.copies
          /\ folding.notes = old.notes /\ folding.trail = old.trail
          /\ folding.wants = old.wants
          /\ folding.next = old.next /\ folding.batch = old.batch
      BY <1>7, <1>12, <1>13
    <2>5. Faithful(folding, job, meeting, New(w))
      BY <1>3, <1>6, <1>12, <2>3, <2>4, FoldFaithful
    <2>6. QED
      BY <1>1, <1>2, <2>1, <2>4, <2>5, SessionMovesQuietly DEF old, job, meeting
  <1> HIDE DEF folding
  <1>15. /\ Shape(applied)
         /\ applied.checked = folding.checked
         /\ applied.said = Also(folding.said, c, head.verdict)
         /\ applied.restated = folding.restated
         /\ applied.copies = Revised(folding.copies, c, head.verdict, meeting)
         /\ applied.notes = folding.notes
         /\ applied.trail = folding.trail \cup
              {[run |-> job.run, commitment |-> c, type |-> EventOf(head.verdict.outcome)]}
         /\ applied.wants = c
         /\ applied.next = folding.next /\ applied.batch = folding.batch
         /\ applied.verdicts = folding.verdicts
    BY <1>12 DEF Shape, Fields, Revised
  <1>16. CASE known /\ FirstVerdict(talk, c)
    <2>1. told = applied
      BY <1>16
    <2>2. c \notin DOMAIN old.said /\ c \in Range(old.checked)
      BY <1>7, <1>11, <1>16 DEF FirstVerdict, c
    <2> DEFINE event == [run |-> job.run, commitment |-> c,
                         type |-> EventOf(head.verdict.outcome)]
    <2> HIDE DEF applied
    <2>3. /\ applied.checked = old.checked
          /\ applied.said = Also(old.said, c, head.verdict)
          /\ applied.restated = old.restated \cup Folds(old, c, head, job.items)
          /\ applied.copies = Revised(old.copies, c, head.verdict, meeting)
          /\ applied.notes = old.notes
          /\ applied.trail = old.trail \cup {event}
          /\ applied.wants = c
          /\ applied.next = old.next /\ applied.batch = old.batch
          /\ applied.verdicts \in Seq(BatchVerdict)
      BY <1>5, <1>7, <1>12, <1>13, <1>15
    <2>4. old.wants = None /\ Shape(applied)
      BY <1>2, <1>15 DEF old
    <2>5. event = [run |-> job.run, commitment |-> c, type |-> EventOf(head.verdict.outcome)]
      OBVIOUS
    <2> HIDE DEF event
    <2>6. Faithful(applied, job, meeting, New(w))
      BY <1>3, <1>5, <1>6, <2>2, <2>3, <2>4, <2>5, HearFaithful
    <2>7. QED
      BY <1>1, <1>2, <2>1, <2>3, <2>6, SessionMovesQuietly DEF old, job, meeting
  <1>17. QED
    BY <1>10, <1>14, <1>16

\* A silence is about to be noted.
LEMMA FallSilentStep ==
    ASSUME HistorianInv, NEW w \in Workers, NEW c \in RowIds, FallSilent(w, c)
    PROVE  HistorianInv'
  <1> DEFINE job == jobs[w]
             talk == talks[w]
             told == [talk EXCEPT !.wants = c]
  <1>1. talks' = [talks EXCEPT ![w] = told] /\ UNCHANGED vars
    BY DEF FallSilent
  <1>2. /\ Reading(w) /\ talk.verdicts = <<>> /\ talk.wants = None
        /\ talk.next > Len(talk.checked)
        /\ c \in DOMAIN talk.copies /\ c \notin DOMAIN talk.said \cup DOMAIN talk.notes
        /\ Owed(talk.copies[c], RunDay[job.run])
    BY DEF FallSilent, Unmentioned, Day
  <1>3. /\ Faithful(talk, job, MeetingAt(w), New(w))
        /\ None \notin DOMAIN job.seen
        /\ New(w) \in SUBSET DOMAIN talk.notes
    BY <1>2, ReadingJob
  <1>4. Shape(talk) /\ c \in DOMAIN job.seen
    BY <1>2, <1>3 DEF Faithful, Edited
  <1>5. ~ Hearing(talk)
    BY <1>2, <1>3 DEF Hearing, Faithful, Types
  <1>6. /\ Shape(told)
        /\ told.checked = talk.checked /\ told.said = talk.said
        /\ told.restated = talk.restated /\ told.copies = talk.copies
        /\ told.notes = talk.notes /\ told.trail = talk.trail /\ told.wants = c
        /\ told.next = talk.next /\ told.batch = talk.batch
        /\ told.verdicts = talk.verdicts
    BY <1>4 DEF Shape, Fields
  <1> HIDE DEF told, talk, job
  <1>7. Faithful(told, job, MeetingAt(w), New(w))
    BY <1>2, <1>3, <1>4, <1>5, <1>6, SilentFaithful
  <1>8. QED
    BY <1>1, <1>2, <1>6, <1>7, SessionMovesQuietly DEF talk, job

\* A mention is written.
LEMMA WriteStep ==
    ASSUME HistorianInv, NEW w \in Workers, Write(w)
    PROVE  HistorianInv'
  <1> DEFINE job == jobs[w]
             meeting == MeetingAt(w)
             talk == talks[w]
             c == talk.wants
             first == mentions[c][meeting] = None
             event == [run |-> job.run, commitment |-> c, type |-> "unmentioned"]
             noted == [talk EXCEPT !.wants = None]
             heard == [noted EXCEPT !.notes = Also(@, c, talk.said[c].outcome)]
             silent == [noted EXCEPT !.notes = Also(@, c, "unmentioned")]
             counted == [silent EXCEPT !.copies[c].silence = @ + 1,
                                       !.trail = @ \cup {event}]
             told == CASE c \in DOMAIN talk.said -> heard
                       [] c \notin DOMAIN talk.said /\ first -> counted
                       [] OTHER -> silent
             news == {d \in DOMAIN told.notes : mentions[d][meeting] = None}
  <1>1. talks' = [talks EXCEPT ![w] = told] /\ UNCHANGED vars
    BY DEF Write
  <1>2. Reading(w) /\ c # None /\ \A v \in Workers : ~ Blocks(v, w)
    BY DEF Write
  <1>3. /\ Faithful(talk, job, meeting, New(w)) /\ meeting \in Meetings
        /\ None \notin DOMAIN job.seen
        /\ New(w) \in SUBSET DOMAIN talk.notes
    BY <1>2, ReadingJob
  <1>4. Shape(talk) /\ c \in DOMAIN job.seen
    BY <1>2, <1>3 DEF Faithful, Types
  <1>5. New(w) = {d \in DOMAIN talk.notes : mentions[d][meeting] = None}
    BY DEF New
  <1>6. event = [run |-> job.run, commitment |-> c, type |-> "unmentioned"]
    OBVIOUS
  <1>7. ASSUME DOMAIN told.notes = DOMAIN talk.notes \cup {c},
               Faithful(told, job, meeting, news)
        PROVE  HistorianInv'
    <2>1. \A v \in Workers \ {w} : Reading(v) /\ MeetingAt(v) = MeetingAt(w) =>
            DOMAIN told.notes \cap DOMAIN talks[v].notes = {}
      <3>1. SUFFICES ASSUME NEW v \in Workers \ {w}, Reading(v), MeetingAt(v) = MeetingAt(w)
                     PROVE  DOMAIN told.notes \cap DOMAIN talks[v].notes = {}
        OBVIOUS
      <3>2. DOMAIN talk.notes \cap DOMAIN talks[v].notes = {}
        BY <1>2, <3>1 DEF HistorianInv, Sessions, Apart
      <3>3. c \notin DOMAIN talks[v].notes
        BY <1>2, <3>1 DEF Blocks
      <3> HIDE DEF told, talk, c
      <3>4. QED
        BY <1>7, <3>2, <3>3
    <2>2. Faithful(told, jobs[w], MeetingAt(w),
                   {d \in DOMAIN told.notes : mentions[d][MeetingAt(w)] = None})
      BY <1>7
    <2> HIDE DEF told
    <2>3. QED
      BY <1>1, <1>2, <2>1, <2>2, SessionMoves
  <1> HIDE DEF job, meeting, talk, c, event
  <1>8. /\ Shape(noted)
        /\ noted.checked = talk.checked /\ noted.said = talk.said
        /\ noted.restated = talk.restated /\ noted.copies = talk.copies
        /\ noted.notes = talk.notes /\ noted.trail = talk.trail /\ noted.wants = None
        /\ noted.next = talk.next /\ noted.batch = talk.batch
        /\ noted.verdicts = talk.verdicts
    BY <1>4 DEF Shape, Fields
  <1> HIDE DEF noted
  <1>9. /\ Shape(heard)
        /\ heard.checked = talk.checked /\ heard.said = talk.said
        /\ heard.restated = talk.restated /\ heard.copies = talk.copies
        /\ heard.notes = Also(talk.notes, c, talk.said[c].outcome)
        /\ heard.trail = talk.trail /\ heard.wants = None
        /\ heard.next = talk.next /\ heard.batch = talk.batch
        /\ heard.verdicts = talk.verdicts
    BY <1>8 DEF Shape, Fields
  <1>10. /\ Shape(silent)
         /\ silent.checked = talk.checked /\ silent.said = talk.said
         /\ silent.restated = talk.restated /\ silent.copies = talk.copies
         /\ silent.notes = Also(talk.notes, c, "unmentioned")
         /\ silent.trail = talk.trail /\ silent.wants = None
         /\ silent.next = talk.next /\ silent.batch = talk.batch
         /\ silent.verdicts = talk.verdicts
    BY <1>8 DEF Shape, Fields
  <1>11. \A v : DOMAIN Also(talk.notes, c, v) = DOMAIN talk.notes \cup {c}
    BY DEF Also
  <1> HIDE DEF heard, silent
  <1>12. /\ Shape(counted)
         /\ counted.checked = talk.checked /\ counted.said = talk.said
         /\ counted.restated = talk.restated
         /\ counted.copies = Counted(talk.copies, c)
         /\ counted.notes = Also(talk.notes, c, "unmentioned")
         /\ counted.trail = talk.trail \cup {event} /\ counted.wants = None
         /\ counted.next = talk.next /\ counted.batch = talk.batch
         /\ counted.verdicts = talk.verdicts
    BY <1>10 DEF Shape, Fields, Counted
  <1> HIDE DEF counted, first
  <1>13. CASE c \in DOMAIN talk.said
    <2>1. told = heard
      BY <1>13
    <2>2. DOMAIN told.notes = DOMAIN talk.notes \cup {c}
      BY <1>9, <1>11, <2>1
    <2>3. news \in {New(w), New(w) \cup {c}}
      BY <1>5, <2>2
    <2> HIDE DEF told, news
    <2>4. c = talk.wants
      BY DEF c
    <2>5. Faithful(heard, job, meeting, news)
      BY <1>3, <1>9, <1>13, <2>3, <2>4, NoteSaidFaithful
    <2>6. QED
      BY <1>7, <2>1, <2>2, <2>5
  <1>14. CASE c \notin DOMAIN talk.said /\ first
    <2>1. told = counted
      BY <1>14
    <2>2. DOMAIN told.notes = DOMAIN talk.notes \cup {c}
      BY <1>11, <1>12, <2>1
    <2>3. news = New(w) \cup {c}
      BY <1>5, <1>14, <2>2 DEF first
    <2> HIDE DEF told, news
    <2>4. c = talk.wants
      BY DEF c
    <2>5. Faithful(counted, job, meeting, New(w) \cup {c})
      BY <1>3, <1>4, <1>6, <1>12, <1>14, <2>4, CountFaithful
    <2>6. QED
      BY <1>7, <2>1, <2>2, <2>3, <2>5
  <1>15. CASE c \notin DOMAIN talk.said /\ ~ first
    <2>1. told = silent
      BY <1>15
    <2>2. DOMAIN told.notes = DOMAIN talk.notes \cup {c}
      BY <1>10, <1>11, <2>1
    <2>3. news = New(w)
      BY <1>5, <1>15, <2>2 DEF first
    <2> HIDE DEF told, news
    <2>4. c = talk.wants
      BY DEF c
    <2>5. Faithful(silent, job, meeting, New(w))
      BY <1>3, <1>4, <1>10, <1>15, <2>4, NoteAgainFaithful
    <2>6. QED
      BY <1>7, <2>1, <2>2, <2>3, <2>5
  <1>16. QED
    BY <1>13, <1>14, <1>15

-----------------------------------------------------------------------------
(***************************************************************************)
(* A commit is a reconciliation.                                           *)
(***************************************************************************)

\* When all batches are through, what is noted is what was said and what is owed.
LEMMA EndOfSession ==
    ASSUME HistorianInv, NEW w \in Workers, Commit(w),
           NEW heard, heard = DOMAIN talks[w].said,
           NEW silent, silent = {c \in DOMAIN jobs[w].seen \ heard :
                                   Owed(jobs[w].seen[c], RunDay[jobs[w].run])}
    PROVE  /\ DOMAIN talks[w].notes = heard \cup silent
           /\ New(w) \ heard = FirstSilences(silent, MeetingAt(w))
  <1> DEFINE talk == talks[w]
             job == jobs[w]
  <1>1. /\ Faithful(talk, job, MeetingAt(w), New(w))
        /\ None \notin DOMAIN job.seen
        /\ New(w) \in SUBSET DOMAIN talk.notes
    BY ReadingJob DEF Commit
  <1>2. talk.wants = None /\ Unmentioned(w) \subseteq DOMAIN talk.notes
    BY DEF Commit
  <1>3. heard \subseteq DOMAIN job.seen /\ DOMAIN talk.notes \subseteq DOMAIN job.seen
    BY <1>1, MembersOfSeq DEF Faithful, Types
  <1>4. heard \subseteq DOMAIN talk.notes
    BY <1>1, <1>2, <1>3 DEF Faithful, Noted
  <1>5. DOMAIN talk.notes \subseteq heard \cup silent
    BY <1>1, <1>3 DEF Faithful, Noted
  <1>6. ASSUME NEW c \in silent, c \notin DOMAIN talk.notes
        PROVE  FALSE
    <2>1. talk.copies[c] = job.seen[c] /\ c \in DOMAIN talk.copies
      BY <1>1, <1>6 DEF Faithful, Edited, CopyOf
    <2>2. c \in Unmentioned(w)
      BY <1>6, <2>1 DEF Unmentioned, Day
    <2>3. QED
      BY <1>2, <1>6, <2>2
  <1>7. DOMAIN talk.notes = heard \cup silent
    BY <1>4, <1>5, <1>6
  <1>8. silent \cap heard = {}
    OBVIOUS
  <1>9. QED
    BY <1>7, <1>8 DEF New, FirstSilences

\* What becomes of a row that came up or fell silent.
Revision(talk, job, meeting, c) ==
    IF c \in DOMAIN talk.said THEN Apply(job.seen[c], talk.said[c], meeting)
    ELSE [job.seen[c] EXCEPT !.silence = @ + 1]

\* The rows are written back as if all verdicts had been applied at once.
LEMMA CommitRows ==
    ASSUME HistorianInv, NEW w \in Workers, Commit(w),
           NEW heard, heard = DOMAIN talks[w].said,
           NEW fresh, New(w) \ heard = fresh, NEW c \in RowIds
    PROVE  rows'[c] =
             IF c \in heard \cup fresh
               THEN Flush(rows[c], jobs[w].seen[c],
                          Revision(talks[w], jobs[w], MeetingAt(w), c))
               ELSE rows[c]
  <1> DEFINE talk == talks[w]
             seen == jobs[w].seen
  <1>1. /\ Faithful(talk, jobs[w], MeetingAt(w), New(w))
        /\ New(w) \in SUBSET DOMAIN talk.notes
    BY ReadingJob DEF Commit
  <1>2. rows'[c] = IF c \in DOMAIN seen
                     THEN Flush(rows[c], seen[c], talk.copies[c]) ELSE rows[c]
    BY DEF Commit
  <1>3. heard \cup fresh \subseteq DOMAIN seen
    BY <1>1, MembersOfSeq DEF Faithful, Types
  <1>4. c \in DOMAIN seen => talk.copies[c] = CopyOf(talk, jobs[w], MeetingAt(w), New(w), c)
    BY <1>1 DEF Faithful, Edited
  <1>5. CASE c \in heard
    BY <1>2, <1>3, <1>4, <1>5 DEF CopyOf, Revision
  <1>6. CASE c \in fresh \ heard
    BY <1>2, <1>3, <1>4, <1>6 DEF CopyOf, Revision
  <1>7. CASE c \notin heard \cup fresh
    <2>1. c \in DOMAIN seen => talk.copies[c] = seen[c]
      BY <1>4, <1>7 DEF CopyOf
    <2>2. rows[c] \in Row
      BY ElementOfSeq DEF HistorianInv, TypeOK, RowIds
    <2>3. Flush(rows[c], seen[c], seen[c]) = rows[c]
      BY <2>2, FlushSame
    <2>4. QED
      BY <1>2, <1>7, <2>1, <2>3
  <1>8. QED
    BY <1>5, <1>6, <1>7

\* The mentions are those of the verdicts and of the silences.
LEMMA CommitMentions ==
    ASSUME HistorianInv, NEW w \in Workers, Commit(w),
           NEW heard, heard = DOMAIN talks[w].said,
           NEW silent, DOMAIN talks[w].notes = heard \cup silent, NEW c \in RowIds
    PROVE  mentions'[c] =
             IF c \in heard
               THEN Record(mentions[c], MeetingAt(w), talks[w].said[c].outcome)
             ELSE IF c \in silent
               THEN Record(mentions[c], MeetingAt(w), "unmentioned")
             ELSE mentions[c]
  <1> DEFINE talk == talks[w]
  <1>1. Faithful(talk, jobs[w], MeetingAt(w), New(w))
    BY ReadingJob DEF Commit
  <1>2. \A d \in DOMAIN talk.notes : talk.notes[d] = NoteOf(talk, d)
    BY <1>1 DEF Faithful, Noted
  <1>3. mentions'[c] = IF c \in DOMAIN talk.notes
                         THEN Record(mentions[c], MeetingAt(w), talk.notes[c])
                         ELSE mentions[c]
    BY DEF Commit
  <1>4. QED
    BY <1>2, <1>3 DEF NoteOf

\* The commitments heard are loaded and within the cap, and what is folded away
\* restates one of them.
LEMMA CommitHeard ==
    ASSUME HistorianInv, NEW w \in Workers, Commit(w),
           NEW heard, heard = DOMAIN talks[w].said
    PROVE  /\ heard \in SUBSET DOMAIN jobs[w].seen
           /\ Cardinality(heard) <= MaxChecked
           /\ talks[w].said \in [heard -> Verdict]
           /\ talks[w].restated \in SUBSET {i \in DOMAIN jobs[w].items : \E c \in heard :
                                              Restates(jobs[w].seen[c], jobs[w].items[i])}
  <1> DEFINE talk == talks[w]
             job == jobs[w]
  <1>1. Faithful(talk, job, MeetingAt(w), New(w))
    BY ReadingJob DEF Commit
  <1>2. /\ talk.checked \in Seq(DOMAIN job.seen) /\ Len(talk.checked) <= MaxChecked
        /\ heard \subseteq Range(talk.checked)
        /\ talk.said \in [heard -> Verdict]
    BY <1>1 DEF Faithful, Types
  <1>3. /\ IsFiniteSet(Range(talk.checked))
        /\ Cardinality(Range(talk.checked)) <= Len(talk.checked)
        /\ Range(talk.checked) \subseteq DOMAIN job.seen
    BY <1>2, MembersOfSeq
  <1>4. /\ IsFiniteSet(heard)
        /\ Cardinality(heard) <= Cardinality(Range(talk.checked))
    BY <1>2, <1>3, FS_Subset
  <1>5. /\ Cardinality(heard) \in Nat
        /\ Cardinality(Range(talk.checked)) \in Nat
        /\ Len(talk.checked) \in Nat
    BY <1>2, <1>3, <1>4, FS_CardinalityType
  <1>6. Cardinality(heard) <= MaxChecked
    BY <1>2, <1>3, <1>4, <1>5, MaxCheckedAssumption
  <1>7. QED
    BY <1>1, <1>2, <1>3, <1>6 DEF Faithful, Edited

\* So the commit does what Ledger says the Historian does at once.
LEMMA CommitReconciles ==
    ASSUME HistorianInv, NEW w \in Workers, Commit(w)
    PROVE  HistoryCommit(w)
  <1> DEFINE job == jobs[w]
             talk == talks[w]
             meeting == MeetingAt(w)
             heard == DOMAIN talk.said
             silent == {c \in DOMAIN job.seen \ heard : Owed(job.seen[c], RunDay[job.run])}
             fresh == FirstSilences(silent, meeting)
  <1>1. Reading(w)
    BY DEF Commit
  <1>2. /\ DOMAIN talk.notes = heard \cup silent
        /\ New(w) \ heard = fresh
    BY EndOfSession
  <1>3. /\ heard \in SUBSET DOMAIN job.seen
        /\ Cardinality(heard) <= MaxChecked
        /\ talk.said \in [heard -> Verdict]
        /\ talk.restated \in SUBSET {i \in DOMAIN job.items : \E c \in heard :
                                       Restates(job.seen[c], job.items[i])}
    BY CommitHeard
  <1>4. PICK kept \in Kept(job.items, talk.restated) :
          jobs' = [jobs EXCEPT ![w].phase = "reconciled", ![w].seen = <<>>,
                               ![w].items = Picked(job.items, kept)]
    BY DEF Commit
  <1>5. rows' = [c \in RowIds |-> IF c \in heard \cup fresh
                                    THEN Flush(rows[c], job.seen[c],
                                               Revision(talk, job, meeting, c)) ELSE rows[c]]
    <2>1. rows' = [c \in RowIds |-> rows'[c]]
      BY DEF Commit
    <2>2. \A c \in RowIds : rows'[c] = IF c \in heard \cup fresh
                                         THEN Flush(rows[c], job.seen[c],
                                                    Revision(talk, job, meeting, c))
                                         ELSE rows[c]
      BY <1>2, CommitRows
    <2> HIDE DEF heard, fresh, talk, job, meeting
    <2>3. QED
      BY <2>1, <2>2
  <1>6. mentions' = [c \in RowIds |->
                       IF c \in heard THEN Record(mentions[c], meeting, talk.said[c].outcome)
                       ELSE IF c \in silent THEN Record(mentions[c], meeting, "unmentioned")
                       ELSE mentions[c]]
    <2>1. mentions' = [c \in RowIds |-> mentions'[c]]
      BY DEF Commit
    <2>2. \A c \in RowIds : mentions'[c] =
                       IF c \in heard THEN Record(mentions[c], meeting, talk.said[c].outcome)
                       ELSE IF c \in silent THEN Record(mentions[c], meeting, "unmentioned")
                       ELSE mentions[c]
      BY <1>2, CommitMentions
    <2> HIDE DEF heard, silent, meeting, talk
    <2>3. QED
      BY <2>1, <2>2
  <1>7. events' = events
          \cup {[run |-> job.run, commitment |-> c,
                 type |-> EventOf(talk.said[c].outcome)] : c \in heard}
          \cup {[run |-> job.run, commitment |-> c, type |-> "unmentioned"] : c \in fresh}
    <2>1. talk.trail = TrailOf(talk, job, New(w))
      BY <1>1, ReadingJob DEF Faithful, Edited
    <2>2. events' = events \cup talk.trail
      BY DEF Commit
    <2> HIDE DEF talk, job, fresh
    <2>3. QED
      BY <1>2, <2>1, <2>2 DEF TrailOf
  <1>8. /\ folded' = folded \cup {<<meeting, job.items[i].text>> : i \in talk.restated}
        /\ UNCHANGED <<decided, runs, clars, replies>>
    BY DEF Commit
  <1>9. Reconcile(w, heard, talk.said, talk.restated, kept)
    BY <1>4, <1>5, <1>6, <1>7, <1>8 DEF Reconcile, Revision, MeetingAt
  <1> HIDE DEF heard, talk
  <1>10. QED
    BY <1>1, <1>3, <1>4, <1>9 DEF HistoryCommit, Reading

-----------------------------------------------------------------------------
(***************************************************************************)
(* The ledger moves; the sessions that are open stay faithful.             *)
(***************************************************************************)

\* The ledger leaves a session alone.
Stays(v) ==
    /\ jobs'[v] = jobs[v]
    /\ talks'[v] = talks[v]
    /\ Reading(v) => \A c \in DOMAIN talks[v].notes :
                       mentions'[c][MeetingAt(v)] = mentions[c][MeetingAt(v)]

\* A worker has no session afterwards, or one that has just been opened.
Starts(v) ==
    Reading(v)' =>
      /\ Faithful(talks[v], jobs[v], MeetingAt(v), New(v))'
      /\ DOMAIN talks'[v].notes = {}

LEMMA LedgerMoves ==
    ASSUME HistorianInv, [Next]_vars, DOMAIN talks' = Workers,
           \A v \in Workers : Stays(v) \/ Starts(v)
    PROVE  HistorianInv'
  <1>1. TypeOK' /\ SameMeetings
    BY TypeStep, MeetingsStay DEF HistorianInv
  <1>2. ASSUME NEW v \in Workers, Stays(v), Reading(v)'
        PROVE  /\ Reading(v) /\ MeetingAt(v)' = MeetingAt(v)
               /\ talks'[v] = talks[v]
               /\ Faithful(talks[v], jobs[v], MeetingAt(v), New(v))'
    <2>1. Reading(v)
      BY <1>2 DEF Stays, Reading
    <2>2. MeetingAt(v)' = MeetingAt(v)
      <3>1. jobs[v].run \in 1..Len(runs)
        BY <2>1, ReadingJob
      <3>2. MeetingOf(jobs[v].run)' = runs'[jobs'[v].run].meeting
        BY DEF MeetingOf
      <3>3. runs'[jobs[v].run].meeting = runs[jobs[v].run].meeting
        BY <1>1, <3>1 DEF SameMeetings, MeetingOf
      <3>4. QED
        BY <1>2, <3>2, <3>3 DEF Stays, MeetingAt, MeetingOf
    <2>3. New(v)' = New(v)
      BY <1>2, <2>1, <2>2 DEF Stays, New
    <2>4. Faithful(talks[v], jobs[v], MeetingAt(v), New(v))
      BY <2>1, ReadingJob
    <2>5. QED
      BY <1>2, <2>1, <2>2, <2>3, <2>4 DEF Stays
  <1>3. \A v \in Workers : Reading(v)' => Faithful(talks[v], jobs[v], MeetingAt(v), New(v))'
    BY <1>2 DEF Starts
  <1>4. ASSUME NEW v \in Workers, NEW u \in Workers, v # u, Reading(v)', Reading(u)'
        PROVE  Apart(v, u)'
    <2>1. CASE Starts(v) \/ Starts(u)
      BY <1>4, <2>1 DEF Starts, Apart
    <2>2. CASE Stays(v) /\ Stays(u)
      <3>1. Reading(v) /\ Reading(u)
        BY <1>2, <1>4, <2>2
      <3>2. Apart(v, u)
        BY <1>4, <3>1 DEF HistorianInv, Sessions
      <3>3. QED
        BY <1>2, <1>4, <2>2, <3>2 DEF Apart
    <2>3. QED
      BY <2>1, <2>2
  <1>5. QED
    BY <1>1, <1>3, <1>4 DEF HistorianInv, Sessions

\* Mentions that stay leave a session alone.
LEMMA MentionsStay ==
    ASSUME HistorianInv, \A c \in RowIds : mentions'[c] = mentions[c],
           NEW v \in Workers, jobs'[v] = jobs[v], talks'[v] = talks[v]
    PROVE  Stays(v)
  <1>1. Reading(v) => DOMAIN talks[v].notes \subseteq RowIds
    BY ReadingJob DEF Faithful, Types
  <1>2. QED
    BY <1>1 DEF Stays

\* A job that moves to another phase.
LEMMA PhaseMoves ==
    ASSUME HistorianInv, NEW w \in Workers, jobs[w].phase # "idle"
    PROVE  /\ \A phase : [jobs[w] EXCEPT !.phase = phase].phase = phase
           /\ \A phase, seen :
                /\ [jobs[w] EXCEPT !.phase = phase, !.seen = seen].phase = phase
                /\ [jobs[w] EXCEPT !.phase = phase, !.seen = seen].seen = seen
                /\ [jobs[w] EXCEPT !.phase = phase, !.seen = seen].run = jobs[w].run
           /\ \A phase, extracted :
                [jobs[w] EXCEPT !.phase = phase, !.extracted = extracted].phase = phase
  <1> DEFINE job == jobs[w]
  <1>1. JobOK(job, Len(runs), Len(rows)) /\ Len(runs) \in Nat /\ Len(rows) \in Nat
    BY BusyJob DEF HistorianInv
  <1> HIDE DEF job
  <1>2. job = [phase |-> job.phase, run |-> job.run, items |-> job.items,
               questions |-> job.questions, decisions |-> job.decisions,
               seen |-> job.seen, extracted |-> job.extracted]
    BY <1>1 DEF JobOK
  <1>3. /\ "phase" \in DOMAIN job /\ "seen" \in DOMAIN job /\ "extracted" \in DOMAIN job
        /\ "run" \in DOMAIN job
    BY <1>2
  <1>4. QED
    BY <1>3 DEF job

\* A session is opened.
LEMMA OpenStep ==
    ASSUME HistorianInv, NEW w \in Workers, Open(w)
    PROVE  HistorianInv' /\ [Next]_vars
  <1> DEFINE meeting == MeetingAt(w)
             open == OpenCommitments(meeting)
             copies == [c \in open |-> rows[c]]
  <1>1. HistoryLoad(w) /\ [Next]_vars
    BY DEF Open, Next, RunStep
  <1>2. PICK checked \in Checked(meeting, open) :
          talks' = [talks EXCEPT ![w] = Opened(copies, checked)]
    BY DEF Open
  <1>3. /\ jobs' = [jobs EXCEPT ![w] = [@ EXCEPT !.phase = "reading", !.seen = copies]]
        /\ jobs[w].phase # "idle"
        /\ mentions' = mentions /\ runs' = runs
    BY <1>1 DEF HistoryLoad, MeetingAt
  <1>4. /\ jobs'[w].seen = copies /\ jobs'[w].run = jobs[w].run
        /\ \A v \in Workers \ {w} : jobs'[v] = jobs[v] /\ talks'[v] = talks[v]
        /\ talks'[w] = Opened(copies, checked) /\ DOMAIN talks' = Workers
    BY <1>2, <1>3, PhaseMoves DEF HistorianInv, TypeOK, Sessions
  <1>5. open \subseteq RowIds /\ IsFiniteSet(open) /\ None \notin open
    <2>1. Len(rows) \in Nat
      BY DEF HistorianInv, TypeOK
    <2>2. IsFiniteSet(RowIds) /\ None \notin RowIds
      BY <2>1, FS_Interval, RowIdsAssumption DEF RowIds
    <2>3. open \in SUBSET RowIds
      BY DEF OpenCommitments
    <2>4. QED
      BY <2>2, <2>3, FS_Subset
  <1> HIDE DEF open
  <1>6. checked \in Seq(open) /\ Len(checked) <= MaxChecked
    BY <1>5, CheckedType
  <1>7. DOMAIN copies = open
    OBVIOUS
  <1> HIDE DEF copies
  <1>8. copies = [c \in DOMAIN copies |-> copies[c]]
    BY DEF copies
  <1>9. Faithful(talks'[w], jobs'[w], MeetingAt(w)', {})
    BY <1>4, <1>5, <1>6, <1>7, <1>8, OpenedFaithful
  <1>10. DOMAIN talks'[w].notes = {}
    BY <1>4 DEF Opened
  <1>11. New(w)' = {}
    BY <1>10 DEF New
  <1>12. Faithful(talks[w], jobs[w], MeetingAt(w), New(w))'
    BY <1>9, <1>11
  <1>13. \A v \in Workers : Stays(v) \/ Starts(v)
    <2>1. Starts(w)
      BY <1>10, <1>12 DEF Starts
    <2>2. \A v \in Workers \ {w} : Stays(v)
      BY <1>3, <1>4, MentionsStay
    <2>3. QED
      BY <2>1, <2>2
  <1>14. HistorianInv'
    BY <1>1, <1>4, <1>13, LedgerMoves
  <1>15. QED
    BY <1>1, <1>14

\* A session is committed.
LEMMA CommitStep ==
    ASSUME HistorianInv, NEW w \in Workers, Commit(w)
    PROVE  HistorianInv' /\ [Next]_vars
  <1>1. [Next]_vars
    BY CommitReconciles DEF Next, RunStep
  <1>2. Reading(w) /\ talks' = [talks EXCEPT ![w] = Idle]
    BY DEF Commit
  <1>3. PICK items : jobs' = [jobs EXCEPT ![w] = [@ EXCEPT !.phase = "reconciled",
                                                         !.seen = <<>>, !.items = items]]
    BY DEF Commit
  <1>4. jobs'[w].phase = "reconciled"
    BY <1>2, <1>3, ReconciledJob DEF HistorianInv, TypeOK, Reading
  <1>5. /\ \A v \in Workers \ {w} : jobs'[v] = jobs[v] /\ talks'[v] = talks[v]
        /\ DOMAIN talks' = Workers
    BY <1>2, <1>3 DEF HistorianInv, TypeOK, Sessions
  <1>6. ASSUME NEW v \in Workers \ {w}, Reading(v), NEW c \in DOMAIN talks[v].notes
        PROVE  mentions'[c][MeetingAt(v)] = mentions[c][MeetingAt(v)]
    <2>1. c \in RowIds /\ MeetingAt(v) \in Meetings
      BY <1>6, ReadingJob DEF Faithful, Types
    <2>2. mentions[c] \in [Meetings -> MentionOutcome \cup {None}]
      BY <2>1, ElementOfSeq DEF HistorianInv, TypeOK, RowIds
    <2>3. mentions'[c] = IF c \in DOMAIN talks[w].notes
                           THEN Record(mentions[c], MeetingAt(w), talks[w].notes[c])
                           ELSE mentions[c]
      BY <2>1 DEF Commit
    <2>4. CASE MeetingAt(v) = MeetingAt(w)
      <3>1. Apart(v, w)
        BY <1>2, <1>6 DEF HistorianInv, Sessions
      <3>2. QED
        BY <1>6, <2>3, <2>4, <3>1 DEF Apart
    <2>5. CASE MeetingAt(v) # MeetingAt(w)
      BY <2>1, <2>2, <2>3, <2>5 DEF Record
    <2>6. QED
      BY <2>4, <2>5
  <1>7. \A v \in Workers : Stays(v) \/ Starts(v)
    <2>1. Starts(w)
      BY <1>4 DEF Starts, Reading
    <2>2. \A v \in Workers \ {w} : Stays(v)
      BY <1>5, <1>6 DEF Stays
    <2>3. QED
      BY <2>1, <2>2
  <1>8. HistorianInv'
    BY <1>1, <1>5, <1>7, LedgerMoves
  <1>9. QED
    BY <1>1, <1>8

\* One worker moves, and has no session afterwards; no mention changes.
LEMMA OneMoves ==
    ASSUME HistorianInv, [Next]_vars, NEW w \in Workers, DOMAIN talks' = Workers,
           \A v \in Workers \ {w} : jobs'[v] = jobs[v] /\ talks'[v] = talks[v],
           jobs'[w].phase # "reading",
           \A c \in RowIds : mentions'[c] = mentions[c]
    PROVE  HistorianInv'
  <1>1. Starts(w)
    BY DEF Starts, Reading
  <1>2. \A v \in Workers \ {w} : Stays(v)
    BY MentionsStay
  <1>3. \A v \in Workers : Stays(v) \/ Starts(v)
    BY <1>1, <1>2
  <1>4. QED
    BY <1>3, LedgerMoves

\* A run ends, and its session with it.
LEMMA BreakStep ==
    ASSUME HistorianInv, NEW w \in Workers, RunFails(w) \/ RunLost(w),
           talks' = [talks EXCEPT ![w] = Idle]
    PROVE  HistorianInv' /\ [Next]_vars
  <1>1. [Next]_vars
    BY DEF Next, RunStep
  <1>2. jobs' = [jobs EXCEPT ![w] = Idle] /\ mentions' = mentions
    BY DEF RunFails, RunLost
  <1>3. /\ \A v \in Workers \ {w} : jobs'[v] = jobs[v] /\ talks'[v] = talks[v]
        /\ DOMAIN talks' = Workers /\ jobs'[w].phase # "reading"
    BY <1>2 DEF HistorianInv, TypeOK, Sessions, Idle
  <1>4. HistorianInv'
    BY <1>1, <1>2, <1>3, OneMoves
  <1>5. QED
    BY <1>1, <1>4

\* The other steps of a run.
LEMMA ElsewhereStep ==
    ASSUME HistorianInv, NEW w \in Workers, Elsewhere(w)
    PROVE  HistorianInv' /\ [Next]_vars
  <1>1. [Next]_vars /\ talks' = talks
    BY DEF Elsewhere, Next, RunStep
  <1>2. DOMAIN jobs = Workers /\ DOMAIN talks = Workers
    BY DEF HistorianInv, TypeOK, Sessions
  <1>3. ASSUME \A v \in Workers \ {w} : jobs'[v] = jobs[v], jobs'[w].phase # "reading",
               \A c \in RowIds : mentions'[c] = mentions[c]
        PROVE  HistorianInv'
    <2>1. \A v \in Workers \ {w} : jobs'[v] = jobs[v] /\ talks'[v] = talks[v]
      BY <1>1, <1>3
    <2>2. QED
      BY <1>1, <1>2, <1>3, <2>1, OneMoves
  <1>4. CASE \E meeting \in Meetings : Submit(w, meeting)
    <2>1. /\ \A v \in Workers \ {w} : jobs'[v] = jobs[v]
          /\ jobs'[w].phase = "resolved" /\ mentions' = mentions
      BY <1>2, <1>4 DEF Submit
    <2>2. QED
      BY <1>1, <1>3, <2>1
  <1>5. CASE HistorySkip(w)
    <2>1. /\ jobs' = [jobs EXCEPT ![w] = [jobs[w] EXCEPT !.phase = "reconciled"]]
          /\ jobs[w].phase # "idle" /\ mentions' = mentions
      BY <1>5 DEF HistorySkip
    <2>2. /\ \A v \in Workers \ {w} : jobs'[v] = jobs[v]
          /\ jobs'[w].phase = "reconciled"
      BY <1>2, <2>1, PhaseMoves
    <2>3. QED
      BY <1>1, <1>3, <2>1, <2>2
  <1>6. CASE SaveCheck(w)
    <2>1. /\ jobs' = [jobs EXCEPT ![w] = [jobs[w] EXCEPT
                         !.phase = "saving",
                         !.extracted = AlreadyExtracted(MeetingOf(jobs[w].run))]]
          /\ jobs[w].phase # "idle" /\ mentions' = mentions
      BY <1>6 DEF SaveCheck
    <2>2. /\ \A v \in Workers \ {w} : jobs'[v] = jobs[v]
          /\ jobs'[w].phase = "saving"
      BY <1>2, <2>1, PhaseMoves
    <2>3. QED
      BY <1>1, <1>3, <2>1, <2>2
  <1>7. CASE SaveRepeat(w)
    <2>1. /\ \A v \in Workers \ {w} : jobs'[v] = jobs[v]
          /\ jobs'[w].phase = "idle" /\ mentions' = mentions
      BY <1>2, <1>7 DEF SaveRepeat, Idle
    <2>2. QED
      BY <1>1, <1>3, <2>1
  <1>8. CASE SaveResults(w)
    <2>1. /\ \A v \in Workers \ {w} : jobs'[v] = jobs[v]
          /\ jobs'[w].phase = "idle"
      <3>1. jobs' = [jobs EXCEPT ![w] = Idle]
        BY <1>8 DEF SaveResults
      <3>2. QED
        BY <1>2, <3>1 DEF Idle
    <2>2. mentions' = mentions \o [i \in 1..Len(jobs[w].items) |-> Silent]
      BY <1>8 DEF SaveResults
    <2>3. /\ mentions \in Seq([Meetings -> MentionOutcome \cup {None}])
          /\ Len(mentions) = Len(rows)
      BY DEF HistorianInv, TypeOK
    <2>4. Len(jobs[w].items) \in Nat
      <3>1. JobOK(jobs[w], Len(runs), Len(rows))
        BY <1>8, BusyJob DEF SaveResults, HistorianInv
      <3>2. QED
        BY <3>1 DEF JobOK
    <2>5. \A c \in RowIds : mentions'[c] = mentions[c]
      <3> DEFINE more == [i \in 1..Len(jobs[w].items) |-> Silent]
      <3>1. more \in Seq({Silent})
        BY <2>4
      <3> HIDE DEF more
      <3>2. mentions' = mentions \o more
        BY <2>2 DEF more
      <3>3. QED
        BY <2>3, <3>1, <3>2 DEF RowIds
    <2>6. QED
      BY <1>1, <1>3, <2>1, <2>5
  <1>9. QED
    BY <1>1, <1>4, <1>5, <1>6, <1>7, <1>8 DEF Elsewhere

\* No run moves, and no mention changes.
LEMMA NobodyMoves ==
    ASSUME HistorianInv, [Next]_vars, UNCHANGED <<mentions, jobs, talks>>
    PROVE  HistorianInv'
  <1>1. \A v \in Workers : Stays(v)
    BY MentionsStay
  <1>2. DOMAIN talks' = Workers
    BY DEF HistorianInv, Sessions
  <1>3. QED
    BY <1>1, <1>2, LedgerMoves

\* An answer.
LEMMA AnswerAside ==
    ASSUME HistorianInv, NEW h \in Handlers, AnswerStep(h), UNCHANGED talks
    PROVE  HistorianInv' /\ [Next]_vars
  <1>1. [Next]_vars
    BY DEF Next
  <1>2. mentions' = mentions /\ jobs' = jobs
    BY DEF AnswerStep, AnswerOpen, AnswerLoad, AnswerCheck, AnswerCommit, AnswerRollback
  <1>3. QED
    BY <1>1, <1>2, NobodyMoves

-----------------------------------------------------------------------------
(***************************************************************************)
(* The Historian at work implements the ledger.                            *)
(***************************************************************************)

LEMMA HistorianInit == BatchedInit => HistorianInv
  <1> SUFFICES ASSUME BatchedInit PROVE HistorianInv
    OBVIOUS
  <1>1. TypeOK
    BY TypeInit DEF BatchedInit
  <1>2. \A w \in Workers : ~ Reading(w)
    BY DEF BatchedInit, Init, Reading, Idle
  <1>3. QED
    BY <1>1, <1>2 DEF HistorianInv, Sessions, BatchedInit

LEMMA HistorianStep ==
    HistorianInv /\ [BatchedNext]_allVars => HistorianInv' /\ [Next]_vars
  <1> SUFFICES ASSUME HistorianInv, [BatchedNext]_allVars
               PROVE  HistorianInv' /\ [Next]_vars
    OBVIOUS
  <1>1. ASSUME NEW w \in Workers, Proceed(w)
        PROVE  HistorianInv' /\ [Next]_vars
    <2>1. ASSUME NEW verdicts \in Replies, Reply(w, verdicts)
          PROVE  HistorianInv' /\ UNCHANGED vars
      BY <2>1, ReplyStep DEF Reply
    <2>2. CASE CallRaises(w)
      BY <2>2, CallRaisesStep DEF CallRaises
    <2>3. CASE Hear(w)
      BY <2>3, HearStep DEF Hear
    <2>4. ASSUME NEW c \in RowIds, FallSilent(w, c)
          PROVE  HistorianInv' /\ UNCHANGED vars
      BY <2>4, FallSilentStep DEF FallSilent
    <2>5. CASE Write(w)
      BY <2>5, WriteStep DEF Write
    <2>6. CASE Commit(w)
      BY <2>6, CommitStep
    <2>7. QED
      BY <1>1, <2>1, <2>2, <2>3, <2>4, <2>5, <2>6 DEF Proceed
  <1>2. ASSUME NEW w \in Workers, Open(w)
        PROVE  HistorianInv' /\ [Next]_vars
    BY <1>2, OpenStep
  <1>3. ASSUME NEW w \in Workers, Break(w) \/ Abort(w)
        PROVE  HistorianInv' /\ [Next]_vars
    BY <1>3, BreakStep DEF Break, Abort
  <1>4. ASSUME NEW w \in Workers, Elsewhere(w)
        PROVE  HistorianInv' /\ [Next]_vars
    BY <1>4, ElsewhereStep
  <1>5. ASSUME NEW h \in Handlers, AnswerStep(h), UNCHANGED talks
        PROVE  HistorianInv' /\ [Next]_vars
    BY <1>5, AnswerAside
  <1>6. CASE UNCHANGED allVars
    <2>1. UNCHANGED vars /\ UNCHANGED talks
      BY <1>6 DEF allVars
    <2>2. UNCHANGED <<mentions, jobs, talks>>
      BY <2>1 DEF vars
    <2>3. QED
      BY <2>1, <2>2, NobodyMoves
  <1>7. QED
    BY <1>1, <1>2, <1>3, <1>4, <1>5, <1>6 DEF BatchedNext

\* However many batches, duplicates, failed calls and runs that wait for each
\* other there are, what the Historian does to the ledger is what Ledger says it
\* does at once (agents/historian.py 169-550): every invariant of the ledger
\* holds of the Historian at work.
THEOREM BatchesReconcile == BatchedSpec => Spec /\ ReconcilesAtOnce
  <1>1. BatchedInit => Init
    BY DEF BatchedInit
  <1>2. BatchedSpec => Spec
    BY <1>1, HistorianInit, HistorianStep, PTL DEF BatchedSpec, Spec
  <1>3. [Next]_vars => [vars' # vars => Next]_vars
    OBVIOUS
  <1>4. QED
    BY <1>2, <1>3, PTL DEF Spec, ReconcilesAtOnce
-----------------------------------------------------------------------------
(***************************************************************************)
(* The pace of a session, and when there is one.                           *)
(***************************************************************************)

\* A session asks no further than what it has to check, and no batch a third
\* time; who is not reading has none.
Pace(talk) == talk.next \in 1..(Len(talk.checked) + 1) /\ talk.attempt \in 1..2

Paced(w) == IF Reading(w) THEN Pace(talks[w]) ELSE talks[w] = Idle

BatchedInv == HistorianInv /\ \A w \in Workers : Paced(w)

\* The end of a batch lies behind its beginning, and within what is checked.
LEMMA BatchEndBounds ==
    ASSUME NEW talk, Len(talk.checked) \in Nat, talk.next \in Nat \ {0},
           talk.next <= Len(talk.checked)
    PROVE  BatchEnd(talk) \in Nat /\ BatchEnd(talk) <= Len(talk.checked)
  BY BatchSizeAssumption DEF BatchEnd

\* A step of one session that leaves every job where it is.
LEMMA PaceMoves ==
    ASSUME BatchedInv, UNCHANGED vars, NEW w \in Workers, Reading(w),
           NEW told, talks' = [talks EXCEPT ![w] = told], Pace(told)
    PROVE  \A v \in Workers : Paced(v)'
  <1>1. /\ jobs' = jobs /\ talks'[w] = told
        /\ \A v \in Workers \ {w} : talks'[v] = talks[v]
    BY DEF vars, BatchedInv, HistorianInv, Sessions
  <1>2. \A v \in Workers : Reading(v)' <=> Reading(v)
    BY <1>1 DEF Reading
  <1>3. QED
    BY <1>1, <1>2 DEF BatchedInv, Paced

\* A step of one worker that has no session afterwards.
LEMMA PaceEnds ==
    ASSUME BatchedInv, NEW w \in Workers,
           \A v \in Workers \ {w} : jobs'[v] = jobs[v] /\ talks'[v] = talks[v],
           jobs'[w].phase # "reading", talks'[w] = Idle
    PROVE  \A v \in Workers : Paced(v)'
  BY DEF BatchedInv, Paced, Reading

LEMMA ProceedPaced ==
    ASSUME BatchedInv, NEW w \in Workers, Proceed(w)
    PROVE  \A v \in Workers : Paced(v)'
  <1> DEFINE talk == talks[w]
  <1>1. Reading(w)
    BY DEF Proceed, Reply, CallRaises, Asking, Hear, FallSilent, Write, Commit
  <1>2. Shape(talk) /\ Pace(talk) /\ Len(talk.checked) \in Nat
    <2>1. Faithful(talk, jobs[w], MeetingAt(w), New(w)) /\ Pace(talk)
      BY <1>1, ReadingJob DEF BatchedInv, Paced
    <2>2. QED
      BY <2>1 DEF Faithful, Types
  <1> DEFINE end == BatchEnd(talk)
  <1>3. Asking(w) => end \in Nat /\ end + 1 \in 1..(Len(talk.checked) + 1)
    <2>1. Asking(w) => talk.next <= Len(talk.checked)
      BY DEF Asking
    <2>2. QED
      BY <1>2, <2>1, BatchEndBounds DEF Pace
  <1>4. ASSUME NEW verdicts \in Replies, Reply(w, verdicts)
        PROVE  \A v \in Workers : Paced(v)'
    <2> DEFINE batch == SubSeq(talk.checked, talk.next, end)
               told == [talk EXCEPT !.batch = batch, !.next = end + 1, !.attempt = 1,
                                    !.verdicts = verdicts]
    <2>1. talks' = [talks EXCEPT ![w] = told] /\ UNCHANGED vars
      BY <1>4 DEF Reply
    <2> HIDE DEF talk, end, batch
    <2>2. told.next = end + 1 /\ told.attempt = 1 /\ told.checked = talk.checked
      BY <1>2 DEF Shape, Fields
    <2> HIDE DEF told
    <2>3. Pace(told)
      BY <1>3, <1>4, <2>2 DEF Pace, Reply
    <2>4. QED
      BY <1>1, <2>1, <2>3, PaceMoves
  <1>5. CASE CallRaises(w)
    <2> DEFINE again == [talk EXCEPT !.attempt = 2]
               passed == [talk EXCEPT !.attempt = 1, !.next = end + 1]
               told == IF AttemptsLeft(talk) THEN again ELSE passed
    <2>1. talks' = [talks EXCEPT ![w] = told] /\ UNCHANGED vars
      BY <1>5 DEF CallRaises
    <2> HIDE DEF talk, end
    <2>2. again.next = talk.next /\ again.attempt = 2 /\ again.checked = talk.checked
      BY <1>2 DEF Shape, Fields
    <2>3. passed.next = end + 1 /\ passed.attempt = 1 /\ passed.checked = talk.checked
      BY <1>2 DEF Shape, Fields
    <2> HIDE DEF again, passed
    <2>4. Pace(again) /\ Pace(passed)
      BY <1>2, <1>3, <1>5, <2>2, <2>3 DEF Pace, CallRaises
    <2>5. Pace(told)
      BY <2>4
    <2> HIDE DEF told
    <2>6. QED
      BY <1>1, <2>1, <2>5, PaceMoves
  <1>6. ASSUME UNCHANGED vars, NEW told, talks' = [talks EXCEPT ![w] = told],
               told.next = talk.next, told.attempt = talk.attempt,
               told.checked = talk.checked
        PROVE  \A v \in Workers : Paced(v)'
    <2>1. Pace(told)
      BY <1>2, <1>6 DEF Pace
    <2>2. QED
      BY <1>1, <1>6, <2>1, PaceMoves
  <1>7. CASE Hear(w)
    <2> DEFINE rest == [talk EXCEPT !.verdicts = Tail(@)]
               head == Head(talk.verdicts)
               c == talk.batch[head.index + 1]
               folding == [rest EXCEPT !.restated = @ \cup Folds(rest, c, head, jobs[w].items)]
               event == [run |-> jobs[w].run, commitment |-> c,
                         type |-> EventOf(head.verdict.outcome)]
               applied ==
                 [folding EXCEPT
                    !.said = Also(@, c, head.verdict),
                    !.copies[c] = Apply(@, head.verdict, MeetingAt(w)),
                    !.trail = @ \cup {event},
                    !.wants = c]
               told == CASE ~ head.mentioned \/ head.index >= Len(rest.batch) -> rest
                         [] OTHER -> IF FirstVerdict(rest, c) THEN applied ELSE folding
    <2>1. talks' = [talks EXCEPT ![w] = told] /\ UNCHANGED vars
      <3>1. rest.batch = talk.batch
        BY <1>2 DEF Shape, Fields
      <3>2. QED
        BY <1>7, <3>1 DEF Hear
    <2> HIDE DEF talk, c, head, event
    <2>2. rest.next = talk.next /\ rest.attempt = talk.attempt /\ rest.checked = talk.checked
      BY <1>2 DEF Shape, Fields
    <2>3. Shape(rest)
      BY <1>2 DEF Shape, Fields
    <2> HIDE DEF rest
    <2>4. /\ folding.next = rest.next /\ folding.attempt = rest.attempt
          /\ folding.checked = rest.checked /\ Shape(folding)
      BY <2>3 DEF Shape, Fields
    <2> HIDE DEF folding
    <2>5. /\ applied.next = folding.next /\ applied.attempt = folding.attempt
          /\ applied.checked = folding.checked
      BY <2>4 DEF Shape, Fields
    <2> HIDE DEF applied
    <2>6. told = rest \/ told = folding \/ told = applied
      OBVIOUS
    <2>7. /\ told.next = talk.next /\ told.attempt = talk.attempt
          /\ told.checked = talk.checked
      BY <2>2, <2>4, <2>5, <2>6
    <2> HIDE DEF told
    <2>8. QED
      BY <1>6, <2>1, <2>7
  <1>8. ASSUME NEW c \in RowIds, FallSilent(w, c)
        PROVE  \A v \in Workers : Paced(v)'
    <2> DEFINE told == [talk EXCEPT !.wants = c]
    <2>1. talks' = [talks EXCEPT ![w] = told] /\ UNCHANGED vars
      BY <1>8 DEF FallSilent
    <2> HIDE DEF talk
    <2>2. /\ told.next = talk.next /\ told.attempt = talk.attempt
          /\ told.checked = talk.checked
      BY <1>2 DEF Shape, Fields
    <2> HIDE DEF told
    <2>3. QED
      BY <1>6, <2>1, <2>2
  <1>9. CASE Write(w)
    <2> DEFINE c == talk.wants
               first == mentions[c][MeetingAt(w)] = None
               event == [run |-> jobs[w].run, commitment |-> c, type |-> "unmentioned"]
               noted == [talk EXCEPT !.wants = None]
               heard == [noted EXCEPT !.notes = Also(@, c, talk.said[c].outcome)]
               silent == [noted EXCEPT !.notes = Also(@, c, "unmentioned")]
               counted == [silent EXCEPT !.copies[c].silence = @ + 1,
                                         !.trail = @ \cup {event}]
               told == CASE c \in DOMAIN talk.said -> heard
                         [] c \notin DOMAIN talk.said /\ first -> counted
                         [] OTHER -> silent
    <2>1. talks' = [talks EXCEPT ![w] = told] /\ UNCHANGED vars
      BY <1>9 DEF Write
    <2> HIDE DEF talk, c, event
    <2>2. /\ noted.next = talk.next /\ noted.attempt = talk.attempt
          /\ noted.checked = talk.checked /\ Shape(noted)
      BY <1>2 DEF Shape, Fields
    <2> HIDE DEF noted
    <2>3. /\ heard.next = noted.next /\ heard.attempt = noted.attempt
          /\ heard.checked = noted.checked
      BY <2>2 DEF Shape, Fields
    <2>4. /\ silent.next = noted.next /\ silent.attempt = noted.attempt
          /\ silent.checked = noted.checked /\ Shape(silent)
      BY <2>2 DEF Shape, Fields
    <2> HIDE DEF heard, silent
    <2>5. /\ counted.next = silent.next /\ counted.attempt = silent.attempt
          /\ counted.checked = silent.checked
      BY <2>4 DEF Shape, Fields
    <2> HIDE DEF counted, first
    <2>6. told = heard \/ told = counted \/ told = silent
      BY DEF first
    <2>7. /\ told.next = talk.next /\ told.attempt = talk.attempt
          /\ told.checked = talk.checked
      BY <2>2, <2>3, <2>4, <2>5, <2>6
    <2> HIDE DEF told
    <2>8. QED
      BY <1>6, <2>1, <2>7
  <1>10. CASE Commit(w)
    <2>1. PICK kept : jobs' = [jobs EXCEPT ![w] = [@ EXCEPT
                                 !.phase = "reconciled", !.seen = <<>>,
                                 !.items = Picked(jobs[w].items, kept)]]
      BY <1>10 DEF Commit
    <2>2. talks' = [talks EXCEPT ![w] = Idle]
      BY <1>10 DEF Commit
    <2>3. [jobs[w] EXCEPT !.phase = "reconciled", !.seen = <<>>,
             !.items = Picked(jobs[w].items, kept)].phase = "reconciled"
      <3>1. JobOK(jobs[w], Len(runs), Len(rows))
        BY <1>1, BusyJob DEF BatchedInv, HistorianInv, Reading
      <3> DEFINE items == Picked(jobs[w].items, kept)
      <3> HIDE DEF items
      <3>2. [jobs[w] EXCEPT !.phase = "reconciled", !.seen = <<>>, !.items = items].phase
              = "reconciled"
        BY <3>1 DEF JobOK
      <3>3. QED
        BY <3>2 DEF items
    <2>4. /\ \A v \in Workers \ {w} : jobs'[v] = jobs[v] /\ talks'[v] = talks[v]
          /\ jobs'[w].phase = "reconciled" /\ talks'[w] = Idle
      BY <2>1, <2>2, <2>3 DEF BatchedInv, HistorianInv, TypeOK, Sessions
    <2>5. QED
      BY <2>4, PaceEnds
  <1>11. QED
    BY <1>4, <1>5, <1>7, <1>8, <1>9, <1>10 DEF Proceed

LEMMA OpenPaced ==
    ASSUME BatchedInv, NEW w \in Workers, Open(w)
    PROVE  \A v \in Workers : Paced(v)'
  <1> DEFINE meeting == MeetingAt(w)
             open == OpenCommitments(meeting)
             copies == [c \in open |-> rows[c]]
  <1>1. PICK checked \in Checked(meeting, open) :
          talks' = [talks EXCEPT ![w] = Opened(copies, checked)]
    BY DEF Open
  <1>2. /\ \A v \in Workers \ {w} : jobs'[v] = jobs[v] /\ talks'[v] = talks[v]
        /\ talks'[w] = Opened(copies, checked)
    <2>1. \A v \in Workers \ {w} : jobs'[v] = jobs[v]
      BY DEF Open, HistoryLoad, BatchedInv, HistorianInv, TypeOK
    <2>2. QED
      BY <1>1, <2>1 DEF BatchedInv, HistorianInv, Sessions
  <1>3. Reading(w)'
    <2>1. /\ jobs' = [jobs EXCEPT ![w] = [@ EXCEPT !.phase = "reading",
                        !.seen = [c \in OpenCommitments(MeetingOf(jobs[w].run)) |-> rows[c]]]]
          /\ jobs[w].phase # "idle"
      BY DEF Open, HistoryLoad
    <2>2. QED
      BY <2>1, PhaseMoves DEF Reading, BatchedInv, HistorianInv, TypeOK
  <1>4. Len(checked) \in Nat
    <2>1. HistorianInv'
      BY OpenStep DEF BatchedInv
    <2>2. Types(talks'[w], jobs'[w])
      BY <1>3, <2>1 DEF HistorianInv, Sessions, Faithful
    <2>3. talks'[w].checked = checked
      BY <1>2 DEF Opened
    <2>4. QED
      BY <2>2, <2>3 DEF Types
  <1>5. Pace(talks'[w])
    <2>1. /\ talks'[w].next = 1 /\ talks'[w].attempt = 1
          /\ talks'[w].checked = checked
      BY <1>2 DEF Opened
    <2>2. QED
      BY <1>4, <2>1 DEF Pace
  <1>6. QED
    BY <1>2, <1>3, <1>5 DEF BatchedInv, Paced, Reading

LEMMA ElsewherePaced ==
    ASSUME BatchedInv, NEW w \in Workers, Elsewhere(w)
    PROVE  \A v \in Workers : Paced(v)'
  <1>1. ~ Reading(w) /\ talks' = talks
    <2>1. \/ jobs[w] = Idle
          \/ jobs[w].phase \in {"resolved", "reconciled", "saving"}
      BY DEF Elsewhere, Submit, HistorySkip, SaveCheck, SaveRepeat, SaveResults
    <2>2. QED
      BY <2>1 DEF Elsewhere, Reading, Idle
  <1>2. talks'[w] = Idle
    BY <1>1 DEF BatchedInv, Paced
  <1>3. DOMAIN jobs = Workers
    BY DEF BatchedInv, HistorianInv, TypeOK
  <1>4. \A v \in Workers \ {w} : jobs'[v] = jobs[v]
    BY <1>3 DEF Elsewhere, Submit, HistorySkip, SaveCheck, SaveRepeat, SaveResults
  <1>5. jobs'[w].phase # "reading"
    <2>1. CASE \E meeting \in Meetings : Submit(w, meeting)
      BY <1>3, <2>1 DEF Submit
    <2>2. CASE HistorySkip(w)
      <3>1. /\ jobs' = [jobs EXCEPT ![w] = [jobs[w] EXCEPT !.phase = "reconciled"]]
            /\ jobs[w].phase # "idle"
        BY <2>2 DEF HistorySkip
      <3>2. QED
        BY <1>3, <3>1, PhaseMoves DEF BatchedInv
    <2>3. CASE SaveCheck(w)
      <3>1. /\ jobs' = [jobs EXCEPT ![w] = [jobs[w] EXCEPT
                           !.phase = "saving",
                           !.extracted = AlreadyExtracted(MeetingOf(jobs[w].run))]]
            /\ jobs[w].phase # "idle"
        BY <2>3 DEF SaveCheck
      <3>2. QED
        BY <1>3, <3>1, PhaseMoves DEF BatchedInv
    <2>4. CASE SaveRepeat(w)
      BY <1>3, <2>4 DEF SaveRepeat, Idle
    <2>5. CASE SaveResults(w)
      BY <1>3, <2>5 DEF SaveResults, Idle
    <2>6. QED
      BY <2>1, <2>2, <2>3, <2>4, <2>5 DEF Elsewhere
  <1>6. QED
    BY <1>1, <1>2, <1>4, <1>5, PaceEnds

LEMMA BatchedInvStep == BatchedInv /\ [BatchedNext]_allVars => BatchedInv'
  <1> SUFFICES ASSUME BatchedInv, [BatchedNext]_allVars PROVE BatchedInv'
    OBVIOUS
  <1>1. HistorianInv'
    BY HistorianStep DEF BatchedInv
  <1>2. ASSUME UNCHANGED <<jobs, talks>>
        PROVE  \A v \in Workers : Paced(v)'
    BY <1>2 DEF BatchedInv, Paced, Reading
  <1>3. ASSUME NEW w \in Workers, Break(w) \/ Abort(w)
        PROVE  \A v \in Workers : Paced(v)'
    <2>1. jobs' = [jobs EXCEPT ![w] = Idle] /\ talks' = [talks EXCEPT ![w] = Idle]
      BY <1>3 DEF Break, Abort, RunFails, RunLost
    <2>2. /\ \A v \in Workers \ {w} : jobs'[v] = jobs[v] /\ talks'[v] = talks[v]
          /\ jobs'[w].phase # "reading" /\ talks'[w] = Idle
      BY <2>1 DEF BatchedInv, HistorianInv, TypeOK, Sessions, Idle
    <2>3. QED
      BY <2>2, PaceEnds
  <1>4. ASSUME NEW h \in Handlers, AnswerStep(h), UNCHANGED talks
        PROVE  \A v \in Workers : Paced(v)'
    <2>1. jobs' = jobs
      BY <1>4 DEF AnswerStep, AnswerOpen, AnswerLoad, AnswerCheck, AnswerCommit, AnswerRollback
    <2>2. QED
      BY <1>2, <1>4, <2>1
  <1>5. ASSUME UNCHANGED allVars
        PROVE  \A v \in Workers : Paced(v)'
    BY <1>2, <1>5 DEF allVars, vars
  <1>6. \A v \in Workers : Paced(v)'
    BY <1>3, <1>4, <1>5, ProceedPaced, OpenPaced, ElsewherePaced DEF BatchedNext
  <1>7. QED
    BY <1>1, <1>6 DEF BatchedInv

LEMMA BatchedInvTypes == BatchedInv => BatchedTypeOK
  <1> SUFFICES ASSUME BatchedInv PROVE BatchedTypeOK
    OBVIOUS
  <1>1. DOMAIN talks = Workers
    BY DEF BatchedInv, HistorianInv, Sessions
  <1>2. ASSUME NEW w \in Workers, Reading(w)
        PROVE  TalkOK(talks[w], jobs[w])
    <2> DEFINE talk == talks[w]
               job == jobs[w]
    <2>1. Faithful(talk, job, MeetingAt(w), New(w)) /\ Pace(talk)
      BY <1>2, ReadingJob DEF BatchedInv, Paced
    <2> HIDE DEF talk, job
    <2>2. DOMAIN talk.copies = DOMAIN job.seen
      BY <2>1 DEF Faithful, Edited
    <2>3. talk.restated \subseteq DOMAIN job.items
      BY <2>1 DEF Faithful, Edited
    <2>4. TalkOK(talk, job)
      BY <2>1, <2>2, <2>3 DEF TalkOK, Faithful, Types, Pace
    <2>5. QED
      BY <2>4 DEF talk, job
  <1>3. \A w \in Workers : ~ Reading(w) => talks[w] = Idle
    BY DEF BatchedInv, Paced
  <1>4. QED
    BY <1>1, <1>2, <1>3 DEF BatchedTypeOK

\* A session is open exactly while its run's Historian is at work, asks for no
\* batch a third time and for none twice, and asks, edits and notes only what it
\* loaded, whatever the model replies (agents/historian.py 188-299).
THEOREM SessionsAreWellFormed == BatchedSpec => []BatchedTypeOK
  <1>1. BatchedInit => BatchedInv
    BY HistorianInit DEF BatchedInit, BatchedInv, Init, Paced, Reading, Idle
  <1>2. QED
    BY <1>1, BatchedInvStep, BatchedInvTypes, PTL DEF BatchedSpec

=============================================================================

------------------------------- MODULE Ledger -------------------------------
(***************************************************************************)
(* The commitment ledger: the rows every meeting run and every human       *)
(* answer read and write.                                                  *)
(*                                                                         *)
(* A run of a meeting executes on a worker.  Its two writes are separate   *)
(* transactions: the Historian reconciles the open commitments and commits *)
(* in the middle of the graph, and the run's own rows are saved when the   *)
(* graph has ended.  An answer to a clarification is an HTTP request whose *)
(* session loads its rows, looks for other open questions and commits.     *)
(* Sessions run under READ COMMITTED without row locks, so every session   *)
(* works on the rows it loaded and writes back the columns it changed.     *)
(*                                                                         *)
(* What a model decides (the verdicts, which obligations were extracted)   *)
(* is any value its schema admits.  A text is a member of a set, a date a  *)
(* number, and wording, evidence, confidences and blockers are left out.   *)
(***************************************************************************)
EXTENDS Blackboard

CONSTANTS
    Meetings,     \* stored meetings, one per transcript of the workspace
    RunDay,       \* the date on which each run reads its meeting
    Extractions,  \* what extraction and resolution can return for each meeting
    Texts,        \* what an obligation says
    Alike,        \* pairs of texts at or above the restatement floor
    People,       \* the roster
    Days,         \* dates
    Outcomes,     \* outcomes a verdict may carry
    Workers,      \* slots for runs executing at the same time
    Handlers,     \* slots for answers being applied at the same time
    MaxChecked,   \* open commitments put to the model in one run
    MaxRuns,      \* bound on the runs ever submitted
    None          \* SQL null

Item == [text : Texts, owner : People \cup {None},
         due : Days \cup {None}, hinted : BOOLEAN]

Extraction == [items : Seq(Item), decisions : BOOLEAN]

ASSUME DaysAssumption == Days \subseteq Nat /\ None \notin Days
ASSUME PeopleAssumption == None \notin People
ASSUME RowIdsAssumption == None \notin Nat
ASSUME MeetingsAssumption == IsFiniteSet(Meetings)
ASSUME ExtractionsAssumption == Extractions \in [Meetings -> SUBSET Extraction]
ASSUME MaxRunsAssumption == MaxRuns \in Nat
ASSUME RunDayAssumption == RunDay \in [1..MaxRuns -> Nat]

MentionOutcome == {"progress", "completed", "recommitted", "blocked",
                   "descoped", "contradicted", "unmentioned"}

ASSUME OutcomesAssumption == Outcomes \subseteq MentionOutcome
ASSUME MentionsAssumption == None \notin MentionOutcome

CommitmentStatus == {"needs_clarification", "confirmed", "in_progress",
                     "done", "dropped"}
ClosedStatus == {"done", "dropped"}
RunStatus == {"running", "awaiting_human", "succeeded", "failed"}

Row == [text : Texts, owner : People \cup {None}, due : Days \cup {None},
        originalDue : Days \cup {None}, status : CommitmentStatus,
        slip : Nat, silence : Nat,
        firstSeen : Meetings, lastSeen : Meetings]

Field == {"owner", "due_date"}
Question == [index : Nat, field : Field, about : Texts]

\* A clarification is identified by its run and the question it came from.
ClarificationKey == [run : Nat, index : Nat, field : Field]
Clarification == [commitment : Nat \cup {None}, about : Texts,
                  status : {"open", "resolved", "abandoned"}, answers : Nat]

Verdict == {v \in [outcome : Outcomes, due : Days \cup {None}] :
              v.outcome # "recommitted" => v.due = None}

Answer == {a \in [dismiss : BOOLEAN, owner : People \cup {None},
                  due : Days \cup {None}] :
              a.dismiss => a.owner = None /\ a.due = None}

VARIABLES
    rows,      \* commitments, in the order they were inserted
    mentions,  \* commitment_mentions: one outcome per commitment and meeting
    events,    \* commitment_events of the types in EventType below
    decided,   \* meetings with rows in the decisions table
    runs,      \* runs
    clars,     \* clarifications, by key
    jobs,      \* what each worker's run holds in memory
    replies,   \* what each answer's session holds in memory
    folded     \* history variable: <<meeting, text>> committed as a restatement

vars == <<rows, mentions, events, decided, runs, clars, jobs, replies, folded>>

Idle == [phase |-> "idle"]
Silent == [m \in Meetings |-> None]
RowIds == 1..Len(rows)

(***************************************************************************)
(* Operators on one row.                                                   *)
(***************************************************************************)

\* Mutant of Column: the session writes every column it loaded.
WholeRowColumn(stored, loaded, edited) == edited

\* A session updates a column only when the value differs from the one loaded.
Column(stored, loaded, edited) == IF edited # loaded THEN edited ELSE stored

Flush(stored, loaded, edited) ==
    [text |-> stored.text,
     owner |-> Column(stored.owner, loaded.owner, edited.owner),
     due |-> Column(stored.due, loaded.due, edited.due),
     originalDue |-> Column(stored.originalDue, loaded.originalDue, edited.originalDue),
     status |-> Column(stored.status, loaded.status, edited.status),
     slip |-> Column(stored.slip, loaded.slip, edited.slip),
     silence |-> Column(stored.silence, loaded.silence, edited.silence),
     firstSeen |-> stored.firstSeen,
     lastSeen |-> Column(stored.lastSeen, loaded.lastSeen, edited.lastSeen)]

\* Mutant of Apply: a slip is counted only when the new date is understood.
ApplyDatedSlip(row, verdict, meeting) ==
    LET heard == [row EXCEPT !.lastSeen = meeting, !.silence = 0] IN
    IF verdict.outcome = "recommitted"
      THEN [heard EXCEPT !.slip = IF verdict.due = None THEN @ ELSE @ + 1]
      ELSE heard

\* Mutant of Apply: being mentioned does not end the silence streak.
ApplyKeepingSilence(row, verdict, meeting) ==
    [row EXCEPT !.lastSeen = meeting]

\* What a verdict that the commitment was mentioned does to its row.
Apply(row, verdict, meeting) ==
    LET heard == [row EXCEPT !.lastSeen = meeting, !.silence = 0] IN
    CASE verdict.outcome = "recommitted" ->
           [heard EXCEPT
              !.slip = @ + 1,
              !.originalDue = IF @ = None THEN row.due ELSE @,
              !.due = IF verdict.due = None THEN @ ELSE verdict.due]
      [] verdict.outcome = "completed" -> [heard EXCEPT !.status = "done"]
      [] verdict.outcome = "descoped"  -> [heard EXCEPT !.status = "dropped"]
      [] verdict.outcome = "blocked"   -> heard
      [] OTHER -> [heard EXCEPT !.status = "in_progress"]

EventOf(outcome) ==
    CASE outcome = "recommitted" -> "slipped"
      [] outcome = "completed"   -> "completed"
      [] outcome = "descoped"    -> "descoped"
      [] outcome = "blocked"     -> "blocked"
      [] OTHER                   -> "progressed"

\* Due by the day of the run: going unmentioned counts against it.
Owed(row, day) == row.due # None /\ row.due <= day

\* Mutant of Record: the rewrite of a mention without the insert before it.
RecordRewriteOnly(said, meeting, outcome) ==
    IF said[meeting] = None THEN said ELSE [said EXCEPT ![meeting] = outcome]

\* One mention per commitment and meeting: inserted, or rewritten on a re-run.
Record(said, meeting, outcome) == [said EXCEPT ![meeting] = outcome]

\* Whether a verdict on `row` may fold this meeting's `item` into it.
Restates(row, item) ==
    /\ <<item.text, row.text>> \in Alike
    /\ None \in {row.owner, item.owner} \/ row.owner = item.owner

\* The row a run saves for one of its items.
SavedRow(item, meeting) ==
    [text |-> item.text, owner |-> item.owner, due |-> item.due,
     originalDue |-> item.due,
     status |-> IF None \in {item.owner, item.due}
                  THEN "needs_clarification" ELSE "confirmed",
     slip |-> 0, silence |-> 0, firstSeen |-> meeting, lastSeen |-> meeting]

\* Mutant of Answered: the last answer confirms, owner or no owner.
AnsweredUnowned(row, answer, settled) ==
    [row EXCEPT
       !.owner = IF answer.owner = None THEN @ ELSE answer.owner,
       !.due = IF answer.due = None THEN @ ELSE answer.due,
       !.status = IF settled THEN "confirmed" ELSE @]

\* What an answer does to the row its question is attached to.
Answered(row, answer, settled) ==
    LET owner == IF answer.owner = None THEN row.owner ELSE answer.owner IN
    [row EXCEPT
       !.owner = owner,
       !.originalDue = IF answer.due # None /\ @ = None THEN row.due ELSE @,
       !.due = IF answer.due = None THEN @ ELSE answer.due,
       !.status = IF settled /\ owner # None THEN "confirmed" ELSE @]

(***************************************************************************)
(* Operators on a run's items.                                             *)
(***************************************************************************)

\* The questions the resolution team asks, by position among the items.
QuestionsFor(items) ==
    {q \in [index : DOMAIN items, field : Field, about : Texts] :
       LET item == items[q.index] IN
       /\ q.about = item.text
       /\ \/ q.field = "owner" /\ item.owner = None
          \/ q.field = "due_date" /\ item.due = None /\ item.hinted}

\* What the run may ask: nothing when the Chief of Staff never delegated to the
\* resolution team, so that every item still has its placeholders.
AskedFor(items) ==
    {QuestionsFor(items)} \cup
      {asked \in {{}} : \A i \in DOMAIN items : items[i].owner = None /\ items[i].due = None}

\* Mutant of OpenCommitments: closed commitments are still compared.
EveryOtherCommitment(meeting) == {c \in RowIds : rows[c].lastSeen # meeting}

\* Open commitments another meeting touched last, as a session loads them.
OpenCommitments(meeting) ==
    {c \in RowIds : /\ rows[c].status \notin ClosedStatus
                    /\ rows[c].lastSeen # meeting}

\* Mutant of FirstSilences: a re-run counts its silence again.
EverySilence(silent, meeting) == silent

\* Of the commitments a meeting is silent on, those it had no mention of yet.
FirstSilences(silent, meeting) == {c \in silent : mentions[c][meeting] = None}

\* Mutant of AlreadyExtracted: only decisions show that a meeting was saved.
AlreadyDecided(meeting) == meeting \in decided

\* Whether an earlier run already wrote this meeting's rows.
AlreadyExtracted(meeting) ==
    \/ meeting \in decided
    \/ \E c \in RowIds : rows[c].firstSeen = meeting

-----------------------------------------------------------------------------
(***************************************************************************)
(* Meeting runs.                                                           *)
(***************************************************************************)

MeetingOf(run) == runs[run].meeting

Init ==
    /\ rows = <<>>
    /\ mentions = <<>>
    /\ events = {}
    /\ decided = {}
    /\ runs = <<>>
    /\ clars = [k \in {} |-> None]
    /\ jobs = [w \in Workers |-> Idle]
    /\ replies = [h \in Handlers |-> Idle]
    /\ folded = {}

\* A transcript is submitted: the run is recorded, and the graph has reached
\* the point where its obligations are extracted and resolved.
Submit(w, meeting) ==
    /\ jobs[w] = Idle
    /\ Len(runs) < MaxRuns
    /\ runs' = Append(runs, [meeting |-> meeting, status |-> "running"])
    /\ \E found \in Extractions[meeting] : \E asked \in AskedFor(found.items) :
         jobs' = [jobs EXCEPT ![w] =
                    [phase |-> "resolved", run |-> Len(runs) + 1,
                     items |-> found.items, questions |-> asked,
                     decisions |-> found.decisions, seen |-> <<>>,
                     extracted |-> FALSE]]
    /\ UNCHANGED <<rows, mentions, events, decided, clars, replies, folded>>

\* The history team has nothing to compare, or the Chief of Staff ends the run
\* without delegating to it.
HistorySkip(w) ==
    /\ jobs[w].phase = "resolved"
    /\ jobs' = [jobs EXCEPT ![w].phase = "reconciled"]
    /\ UNCHANGED <<rows, mentions, events, decided, runs, clars, replies, folded>>

\* The Historian loads the open commitments and puts them to the model.
HistoryLoad(w) ==
    /\ jobs[w].phase = "resolved"
    /\ jobs[w].items # <<>>
    /\ jobs' = [jobs EXCEPT
                  ![w].phase = "reading",
                  ![w].seen = [c \in OpenCommitments(MeetingOf(jobs[w].run)) |-> rows[c]]]
    /\ UNCHANGED <<rows, mentions, events, decided, runs, clars, replies, folded>>

\* The Historian commits: `heard` are the commitments the model said came up,
\* `verdict` what it said of each, `gone` this meeting's items it folded away.
Reconcile(w, heard, verdict, gone, kept) ==
    LET job == jobs[w]
        meeting == MeetingOf(job.run)
        silent == {c \in DOMAIN job.seen \ heard : Owed(job.seen[c], RunDay[job.run])}
        fresh == FirstSilences(silent, meeting)
        Edited(c) == IF c \in heard
                       THEN Apply(job.seen[c], verdict[c], meeting)
                       ELSE [job.seen[c] EXCEPT !.silence = @ + 1]
    IN
    /\ rows' = [c \in RowIds |->
                  IF c \in heard \cup fresh
                    THEN Flush(rows[c], job.seen[c], Edited(c)) ELSE rows[c]]
    /\ mentions' = [c \in RowIds |->
                      IF c \in heard
                        THEN Record(mentions[c], meeting, verdict[c].outcome)
                      ELSE IF c \in silent
                        THEN Record(mentions[c], meeting, "unmentioned")
                      ELSE mentions[c]]
    /\ events' = events
         \cup {[run |-> job.run, commitment |-> c,
                type |-> EventOf(verdict[c].outcome)] : c \in heard}
         \cup {[run |-> job.run, commitment |-> c,
                type |-> "unmentioned"] : c \in fresh}
    /\ folded' = folded \cup {<<meeting, job.items[i].text>> : i \in gone}
    /\ jobs' = [jobs EXCEPT ![w].phase = "reconciled",
                            ![w].seen = <<>>,
                            ![w].items = Picked(job.items, kept)]
    /\ UNCHANGED <<decided, runs, clars, replies>>

HistoryCommit(w) ==
    /\ jobs[w].phase = "reading"
    /\ \E heard \in SUBSET DOMAIN jobs[w].seen :
         /\ Cardinality(heard) <= MaxChecked
         /\ \E verdict \in [heard -> Verdict] :
            \E gone \in SUBSET {i \in DOMAIN jobs[w].items : \E c \in heard :
                                  Restates(jobs[w].seen[c], jobs[w].items[i])} :
            \E kept \in Kept(jobs[w].items, gone) :
               Reconcile(w, heard, verdict, gone, kept)

\* Saving opens a new session and asks whether the meeting was saved before.
SaveCheck(w) ==
    /\ jobs[w].phase = "reconciled"
    /\ jobs' = [jobs EXCEPT ![w].phase = "saving",
                            ![w].extracted = AlreadyExtracted(MeetingOf(jobs[w].run))]
    /\ UNCHANGED <<rows, mentions, events, decided, runs, clars, replies, folded>>

\* A repeated run keeps the ledger as it is.
SaveRepeat(w) ==
    /\ jobs[w].phase = "saving"
    /\ jobs[w].extracted
    /\ runs' = [runs EXCEPT ![jobs[w].run].status = "succeeded"]
    /\ jobs' = [jobs EXCEPT ![w] = Idle]
    /\ UNCHANGED <<rows, mentions, events, decided, clars, replies, folded>>

\* Mutant of SavedQuestion: the position counted from the row after.
SavedQuestionShifted(question, before, saved) ==
    [commitment |-> before + question.index + 1,
     about |-> question.about, status |-> "open", answers |-> 0]

\* The clarification a question becomes once `saved` items follow `before` rows.
SavedQuestion(question, before, saved) ==
    [commitment |-> IF question.index \in 1..saved
                      THEN before + question.index ELSE None,
     about |-> question.about, status |-> "open", answers |-> 0]

KeyOf(run, question) ==
    [run |-> run, index |-> question.index, field |-> question.field]

SaveResults(w) ==
    /\ jobs[w].phase = "saving"
    /\ ~ jobs[w].extracted
    /\ LET job == jobs[w]
           meeting == MeetingOf(job.run)
           saved == Len(job.items)
           asked == {KeyOf(job.run, q) : q \in job.questions}
       IN
       /\ decided' = IF job.decisions THEN decided \cup {meeting} ELSE decided
       /\ rows' = rows \o [i \in 1..saved |-> SavedRow(job.items[i], meeting)]
       /\ mentions' = mentions \o [i \in 1..saved |-> Silent]
       /\ events' = events \cup
            {[run |-> job.run, commitment |-> Len(rows) + i, type |-> "created"] :
               i \in 1..saved}
       /\ clars' = [k \in DOMAIN clars \cup asked |->
                      IF k \in DOMAIN clars THEN clars[k]
                      ELSE SavedQuestion(CHOOSE q \in job.questions : KeyOf(job.run, q) = k,
                                         Len(rows), saved)]
       /\ runs' = [runs EXCEPT ![job.run].status =
                     IF job.questions # {} THEN "awaiting_human" ELSE "succeeded"]
    /\ jobs' = [jobs EXCEPT ![w] = Idle]
    /\ UNCHANGED <<replies, folded>>

\* An exception in the graph: what the Historian committed stays.
RunFails(w) ==
    /\ jobs[w].phase \in {"resolved", "reading", "reconciled"}
    /\ runs' = [runs EXCEPT ![jobs[w].run].status = "failed"]
    /\ jobs' = [jobs EXCEPT ![w] = Idle]
    /\ UNCHANGED <<rows, mentions, events, decided, clars, replies, folded>>

\* The process dies, the reader disconnects or the save raises: nobody is left
\* to write the run's row.
RunLost(w) ==
    /\ jobs[w] # Idle
    /\ jobs' = [jobs EXCEPT ![w] = Idle]
    /\ UNCHANGED <<rows, mentions, events, decided, runs, clars, replies, folded>>

(***************************************************************************)
(* Answers to clarifications.  An answer to one that is not open returns   *)
(* without a write, so it is not a step.                                   *)
(***************************************************************************)

Answerable(k) == clars[k].status = "open"

\* The request finds the question open.
AnswerOpen(h, k, answer) ==
    /\ replies[h] = Idle
    /\ Answerable(k)
    /\ replies' = [replies EXCEPT ![h] =
                     [phase |-> "opened", key |-> k, answer |-> answer,
                      row |-> None, settled |-> FALSE]]
    /\ UNCHANGED <<rows, mentions, events, decided, runs, clars, jobs, folded>>

\* It loads the commitment, if the question has one, and matches the name.
AnswerLoad(h) ==
    /\ replies[h].phase = "opened"
    /\ LET c == clars[replies[h].key].commitment IN
       replies' = [replies EXCEPT ![h].phase = "loaded",
                                  ![h].row = IF c = None THEN None ELSE rows[c]]
    /\ UNCHANGED <<rows, mentions, events, decided, runs, clars, jobs, folded>>

\* Mutant of OpenBeside: the question being answered counts as still open.
OpenOn(k) ==
    {other \in DOMAIN clars :
       /\ clars[other].commitment = clars[k].commitment
       /\ clars[other].status = "open"}

\* The other questions of the commitment that are still open.
OpenBeside(k) ==
    {other \in DOMAIN clars \ {k} :
       /\ clars[other].commitment = clars[k].commitment
       /\ clars[other].status = "open"}

\* It looks for other open questions of the commitment.
AnswerCheck(h) ==
    /\ replies[h].phase = "loaded"
    /\ replies' = [replies EXCEPT ![h].phase = "checked",
                                  ![h].settled = OpenBeside(replies[h].key) = {}]
    /\ UNCHANGED <<rows, mentions, events, decided, runs, clars, jobs, folded>>

\* It commits: the question is settled, and the row has what was answered.
AnswerCommit(h) ==
    /\ replies[h].phase = "checked"
    /\ LET reply == replies[h]
           c == clars[reply.key].commitment
       IN
       /\ clars' = [clars EXCEPT
                      ![reply.key].status =
                         IF reply.answer.dismiss THEN "abandoned" ELSE "resolved",
                      ![reply.key].answers = @ + 1]
       /\ rows' = IF c = None THEN rows
                  ELSE [rows EXCEPT ![c] =
                          Flush(@, reply.row,
                                Answered(reply.row, reply.answer, reply.settled))]
    /\ replies' = [replies EXCEPT ![h] = Idle]
    /\ UNCHANGED <<mentions, events, decided, runs, jobs, folded>>

\* A name off the roster, a date nobody can read, or a lost request.
AnswerRollback(h) ==
    /\ replies[h] # Idle
    /\ replies' = [replies EXCEPT ![h] = Idle]
    /\ UNCHANGED <<rows, mentions, events, decided, runs, clars, jobs, folded>>

-----------------------------------------------------------------------------
RunStep(w) ==
    \/ \E meeting \in Meetings : Submit(w, meeting)
    \/ HistorySkip(w)
    \/ HistoryLoad(w)
    \/ SaveCheck(w)
    \/ SaveRepeat(w)
    \/ SaveResults(w)
    \/ RunFails(w)
    \/ RunLost(w)
    \/ HistoryCommit(w)

AnswerStep(h) ==
    \/ \E k \in DOMAIN clars, answer \in Answer : AnswerOpen(h, k, answer)
    \/ AnswerLoad(h)
    \/ AnswerCheck(h)
    \/ AnswerCommit(h)
    \/ AnswerRollback(h)

Next == (\E h \in Handlers : AnswerStep(h)) \/ (\E w \in Workers : RunStep(w))

Spec == Init /\ [][Next]_vars

-----------------------------------------------------------------------------
(***************************************************************************)
(* Types.                                                                  *)
(***************************************************************************)

EventType == {"created", "slipped", "completed", "descoped", "blocked",
              "progressed", "unmentioned"}

\* What a worker holds, given the numbers of runs and rows stored.
JobOK(job, runCount, rowCount) ==
    /\ job.phase \in {"resolved", "reading", "reconciled", "saving"}
    /\ job = [phase |-> job.phase, run |-> job.run, items |-> job.items,
              questions |-> job.questions, decisions |-> job.decisions,
              seen |-> job.seen, extracted |-> job.extracted]
    /\ job.run \in 1..runCount
    /\ job.items \in Seq(Item)
    /\ job.questions \subseteq Question
    /\ job.decisions \in BOOLEAN
    /\ DOMAIN job.seen \subseteq 1..rowCount
    /\ \A c \in DOMAIN job.seen : job.seen[c] \in Row
    /\ job.extracted \in BOOLEAN

\* What an answer's session holds, given the clarifications stored.
ReplyOK(reply, stored) ==
    /\ reply.phase \in {"opened", "loaded", "checked"}
    /\ reply = [phase |-> reply.phase, key |-> reply.key, answer |-> reply.answer,
                row |-> reply.row, settled |-> reply.settled]
    /\ reply.key \in DOMAIN stored
    /\ reply.answer \in Answer
    /\ IF reply.phase = "opened" \/ stored[reply.key].commitment = None
         THEN reply.row = None ELSE reply.row \in Row
    /\ reply.settled \in BOOLEAN

\* Every table holds rows of its shape, every foreign key a row that exists,
\* and every session a copy of rows that exist.
TypeOK ==
    /\ rows \in Seq(Row)
    /\ mentions \in Seq([Meetings -> MentionOutcome \cup {None}])
    /\ Len(mentions) = Len(rows)
    /\ events \subseteq [run : 1..Len(runs), commitment : RowIds, type : EventType]
    /\ decided \subseteq Meetings
    /\ runs \in Seq([meeting : Meetings, status : RunStatus])
    /\ DOMAIN clars \subseteq ClarificationKey
    /\ \A k \in DOMAIN clars : /\ clars[k] \in Clarification
                               /\ clars[k].commitment \in RowIds \cup {None}
    /\ DOMAIN jobs = Workers
    /\ \A w \in Workers : jobs[w] = Idle \/ JobOK(jobs[w], Len(runs), Len(rows))
    /\ DOMAIN replies = Handlers
    /\ \A h \in Handlers : replies[h] = Idle \/ ReplyOK(replies[h], clars)
    /\ folded \subseteq Meetings \X Texts

-----------------------------------------------------------------------------
(***************************************************************************)
(* What the ledger promises.                                               *)
(***************************************************************************)

\* A confirmed commitment has an owner, whoever confirmed it and whatever was
\* in flight: saving requires one, and an answer confirms on the owner it
\* loaded or set, which no concurrent write-back may have taken away.
ConfirmedIsOwned ==
    \A c \in RowIds : rows[c].status = "confirmed" => rows[c].owner # None

\* Whether an owner in a session's copy of a row is still known to the row.
Knows(copy, stored) == copy.owner # None => stored.owner # None

\* No session holds an owner its row has lost, so what it decides on its copy
\* is true of the row it writes to.  With ConfirmedIsOwned this is inductive.
OwnersSurvive ==
    /\ ConfirmedIsOwned
    /\ \A w \in Workers : jobs[w] # Idle =>
         \A c \in DOMAIN jobs[w].seen : Knows(jobs[w].seen[c], rows[c])
    /\ \A h \in Handlers : replies[h].phase \in {"loaded", "checked"} =>
         \A c \in RowIds : clars[replies[h].key].commitment = c =>
           Knows(replies[h].row, rows[c])

\* An owner is never taken back: a run that loaded the row before a human
\* answered does not write its stale copy over the answer.
OwnerIsKept ==
    [][\A c \in RowIds : rows[c].owner # None => rows'[c].owner # None]_vars

\* The meeting a row was last seen in left a mention of it, unless it is the
\* meeting that created the row: the column and the table never disagree, even
\* when two runs reconcile the same row at once.
LastSeenIsMentioned ==
    \A c \in RowIds :
      rows[c].lastSeen # rows[c].firstSeen => mentions[c][rows[c].lastSeen] # None

\* A meeting's silence counts once: the streak of a row only grows when a
\* meeting that had no mention of it gains one, however often it is re-run.
SilenceCountsOnce ==
    [][\A c \in RowIds : rows'[c].silence > rows[c].silence =>
         \E m \in Meetings : /\ mentions[c][m] = None
                             /\ mentions'[c][m] = "unmentioned"]_vars

\* A meeting's commitments are written by one run: submitting a transcript
\* again does not write a second copy of them.
OneRunWritesAMeeting ==
    \A e, f \in events :
      /\ e.type = "created"
      /\ f.type = "created"
      /\ MeetingOf(e.run) = MeetingOf(f.run)
      => e.run = f.run

\* The slip count a row carries into its risk score is the number of slips its
\* audit trail shows.
SlipsAreOnTrail ==
    \A c \in RowIds :
      rows[c].slip = Cardinality({e \in events : e.commitment = c /\ e.type = "slipped"})

\* A silence streak is backed by as many meetings recorded as silent: a mention
\* that overwrites a silence also ends the streak.
SilenceIsRecorded ==
    \A c \in RowIds :
      rows[c].silence <= Cardinality({m \in Meetings : mentions[c][m] = "unmentioned"})

\* A run never reopens what another meeting closed: the Historian compares
\* open commitments only, and a repeated run leaves the rows alone.
RunsLeaveClosedAlone ==
    [][jobs' # jobs =>
         \A c \in RowIds : rows[c].status \in ClosedStatus =>
           rows'[c].status = rows[c].status]_vars

\* Done and dropped are final (docs/diagrams/lifecycle.md: done and dropped
\* lead nowhere).
ClosedIsFinal ==
    [][\A c \in RowIds : rows[c].status \in ClosedStatus =>
         rows'[c].status = rows[c].status]_vars

\* A commitment that was asked about and has an owner does not wait for a
\* clarification with none left open: the last answer confirms it.
WaitsOnlyForAnOpenQuestion ==
    \A c \in RowIds :
      /\ rows[c].status = "needs_clarification"
      /\ rows[c].owner # None
      /\ \E k \in DOMAIN clars : clars[k].commitment = c
      => \E k \in DOMAIN clars : clars[k].commitment = c /\ clars[k].status = "open"

\* An answer reaches the commitment its question was about
\* (api/clarifications.py: "the commitment the question was about").
QuestionIsAboutItsRow ==
    \A k \in DOMAIN clars :
      clars[k].commitment # None => rows[clars[k].commitment].text = clars[k].about

\* An obligation the Historian folded into an existing row is not written as a
\* row of its own (graph/meeting_graph.py: two rows for one obligation).
FoldedStaysFolded ==
    [][\A c \in DOMAIN rows' \ RowIds :
         <<rows'[c].firstSeen, rows'[c].text>> \notin folded]_vars

=============================================================================

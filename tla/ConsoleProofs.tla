--------------------------- MODULE ConsoleProofs ---------------------------
(***************************************************************************)
(* Theorems about what people see of the ledger: which commitments are     *)
(* closed, which still wait for an answer, how risky they look, and what   *)
(* the sweep and the pages make of them.                                   *)
(***************************************************************************)
EXTENDS Console, LedgerProofs

(***************************************************************************)
(* What a step does to one row.                                            *)
(***************************************************************************)

\* The row as the Historian writes that a meeting was silent on its copy, and
\* as it writes what a verdict makes of the copy.
AfterSilence(stored, copy) == Flush(stored, copy, [copy EXCEPT !.silence = @ + 1])
AfterVerdict(stored, copy, verdict, meeting) ==
    Flush(stored, copy, Apply(copy, verdict, meeting))

\* The commit of the Historian keeps a row, writes a silence to it, or writes a
\* verdict and an event that the meeting spoke of it.
LEMMA ReconcileRow ==
    ASSUME TypeOK, NEW w \in Workers, HistoryCommit(w), NEW c \in RowIds
    PROVE  LET job == jobs[w] IN
           \/ rows'[c] = rows[c]
           \/ /\ c \in DOMAIN job.seen
              /\ job.seen[c] \in Row
              /\ \/ rows'[c] = AfterSilence(rows[c], job.seen[c])
                 \/ \E verdict \in Verdict, e \in events' :
                      /\ rows'[c] = AfterVerdict(rows[c], job.seen[c], verdict,
                                                 MeetingOf(job.run))
                      /\ e.run = job.run /\ e.commitment = c /\ e.type # "unmentioned"
  <1>1. PICK heard \in SUBSET DOMAIN jobs[w].seen :
          \E verdict \in [heard -> Verdict] : \E gone, kept :
             Reconcile(w, heard, verdict, gone, kept)
    BY DEF HistoryCommit
  <1>2. PICK verdict \in [heard -> Verdict] : \E gone, kept :
             Reconcile(w, heard, verdict, gone, kept)
    BY <1>1
  <1>3. PICK gone, kept : Reconcile(w, heard, verdict, gone, kept)
    BY <1>2
  <1> DEFINE seen == jobs[w].seen
             run == jobs[w].run
             meeting == MeetingOf(run)
             silent == {d \in DOMAIN seen \ heard : Owed(seen[d], RunDay[run])}
             fresh == FirstSilences(silent, meeting)
             Edited(d) == IF d \in heard
                            THEN Apply(seen[d], verdict[d], meeting)
                            ELSE [seen[d] EXCEPT !.silence = @ + 1]
             said == {[run |-> run, commitment |-> d,
                       type |-> EventOf(verdict[d].outcome)] : d \in heard}
  <1>4. JobOK(jobs[w], Len(runs), Len(rows))
    BY BusyJob DEF HistoryCommit
  <1>5. \A d \in DOMAIN seen : seen[d] \in Row
    BY <1>4 DEF JobOK
  <1>6. rows'[c] = IF c \in heard \cup fresh
                     THEN Flush(rows[c], seen[c], Edited(c)) ELSE rows[c]
    BY <1>3 DEF Reconcile
  <1>7. said \subseteq events'
    BY <1>3 DEF Reconcile
  <1>8. heard \subseteq DOMAIN seen /\ fresh \subseteq DOMAIN seen \ heard
    BY DEF FirstSilences
  <1>9. CASE c \in heard
    <2> DEFINE e == [run |-> run, commitment |-> c, type |-> EventOf(verdict[c].outcome)]
    <2>1. e \in events'
      BY <1>7, <1>9
    <2>2. e.run = run /\ e.commitment = c /\ e.type # "unmentioned"
      BY DEF EventOf
    <2>3. rows'[c] = AfterVerdict(rows[c], seen[c], verdict[c], meeting)
      BY <1>6, <1>9 DEF AfterVerdict
    <2>4. seen[c] \in Row /\ c \in DOMAIN seen /\ verdict[c] \in Verdict
      BY <1>5, <1>8, <1>9
    <2> HIDE DEF e
    <2>5. QED
      BY <2>1, <2>2, <2>3, <2>4
  <1>10. CASE c \in fresh
    <2>1. c \notin heard /\ c \in DOMAIN seen /\ seen[c] \in Row
      BY <1>5, <1>8, <1>10
    <2>2. rows'[c] = AfterSilence(rows[c], seen[c])
      BY <1>6, <1>10, <2>1 DEF AfterSilence
    <2>3. QED
      BY <2>1, <2>2
  <1>11. CASE c \notin heard \cup fresh
    BY <1>6, <1>11
  <1>12. QED
    BY <1>9, <1>10, <1>11

\* A silence changes one column.
LEMMA SilenceWritten ==
    ASSUME NEW stored \in Row, NEW copy \in Row
    PROVE  LET after == AfterSilence(stored, copy)
           IN  /\ after.owner = stored.owner /\ after.due = stored.due
               /\ after.status = stored.status /\ after.slip = stored.slip
               /\ after.silence = copy.silence + 1
  <1> DEFINE edited == [copy EXCEPT !.silence = @ + 1]
  <1>1. /\ edited.owner = copy.owner /\ edited.due = copy.due
        /\ edited.status = copy.status /\ edited.slip = copy.slip
        /\ edited.silence = copy.silence + 1 /\ edited.silence # copy.silence
    BY DEF Row
  <1>2. AfterSilence(stored, copy) = Flush(stored, copy, edited)
    BY DEF AfterSilence
  <1> HIDE DEF edited
  <1>3. QED
    BY <1>1, <1>2 DEF Flush, Column

\* A verdict leaves the owner alone, and moves the status on if at all.
LEMMA VerdictWritten ==
    ASSUME NEW stored \in Row, NEW copy \in Row, NEW verdict \in Verdict,
           NEW meeting \in Meetings
    PROVE  LET after == AfterVerdict(stored, copy, verdict, meeting)
           IN  /\ after.owner = stored.owner
               /\ after.status \in {stored.status, "done", "dropped", "in_progress"}
  <1> DEFINE heard == [copy EXCEPT !.lastSeen = meeting, !.silence = 0]
             moved == [heard EXCEPT
                         !.slip = @ + 1,
                         !.originalDue = IF @ = None THEN copy.due ELSE @,
                         !.due = IF verdict.due = None THEN @ ELSE verdict.due]
             edited == Apply(copy, verdict, meeting)
  <1>1. heard \in Row /\ heard.owner = copy.owner /\ heard.status = copy.status
    BY DEF Row
  <1>2. moved.owner = heard.owner /\ moved.status = heard.status
    BY <1>1 DEF Row
  <1>3. \A s : [heard EXCEPT !.status = s].owner = heard.owner
            /\ [heard EXCEPT !.status = s].status = s
    BY <1>1 DEF Row
  <1>4. \/ edited = moved
        \/ edited = heard
        \/ \E s \in {"done", "dropped", "in_progress"} : edited = [heard EXCEPT !.status = s]
    BY DEF Apply
  <1> HIDE DEF heard, moved
  <1>5. /\ edited.owner = copy.owner
        /\ edited.status \in {copy.status, "done", "dropped", "in_progress"}
    BY <1>1, <1>2, <1>3, <1>4
  <1>6. AfterVerdict(stored, copy, verdict, meeting) = Flush(stored, copy, edited)
    BY DEF AfterVerdict
  <1> HIDE DEF edited
  <1>7. QED
    BY <1>5, <1>6 DEF Flush, Column

\* An answer keeps every row but the one of its question, to which it writes
\* what it makes of its copy.
LEMMA AnswerRow ==
    ASSUME TypeOK, NEW h \in Handlers, AnswerCommit(h), NEW c \in RowIds
    PROVE  LET reply == replies[h] IN
           /\ reply.key \in DOMAIN clars
           /\ reply.answer \in Answer
           /\ reply.settled \in BOOLEAN
           /\ IF clars[reply.key].commitment = c
                THEN /\ reply.row \in Row
                     /\ rows'[c] = Flush(rows[c], reply.row,
                                         Answered(reply.row, reply.answer, reply.settled))
                ELSE rows'[c] = rows[c]
  <1> DEFINE reply == replies[h]
             d == clars[reply.key].commitment
             edited == Answered(reply.row, reply.answer, reply.settled)
  <1>1. ReplyOK(reply, clars)
    BY BusyReply DEF AnswerCommit
  <1>2. /\ reply.key \in DOMAIN clars
        /\ reply.answer \in Answer
        /\ reply.settled \in BOOLEAN
        /\ d # None => reply.row \in Row
    BY <1>1 DEF ReplyOK, AnswerCommit
  <1>3. rows' = IF d = None THEN rows
                ELSE [rows EXCEPT ![d] = Flush(rows[d], reply.row, edited)]
    BY DEF AnswerCommit
  <1>4. rows \in Seq(Row) /\ Len(rows) \in Nat /\ c # None
    BY RowIdsAssumption DEF TypeOK, RowIds
  <1> HIDE DEF reply, d, edited
  <1>5. d = c => reply.row \in Row /\ rows'[c] = Flush(rows[c], reply.row, edited)
    BY <1>2, <1>3, <1>4 DEF RowIds
  <1>6. d # c => rows'[c] = rows[c]
    BY <1>3, <1>4 DEF RowIds
  <1>7. QED
    BY <1>2, <1>5, <1>6 DEF reply, d, edited

\* An answer leaves a row its status or confirms it.
LEMMA AnswerStatus ==
    ASSUME TypeOK, NEW h \in Handlers, AnswerCommit(h), NEW c \in RowIds
    PROVE  rows'[c].status \in {rows[c].status, "confirmed"}
  <1> DEFINE reply == replies[h]
             copy == reply.row
             edited == Answered(copy, reply.answer, reply.settled)
  <1>1. CASE clars[reply.key].commitment = c
    <2>1. copy \in Row /\ rows'[c] = Flush(rows[c], copy, edited)
      BY <1>1, AnswerRow
    <2> HIDE DEF reply, copy
    <2>2. edited.status \in {copy.status, "confirmed"}
      BY <2>1 DEF Answered, Row
    <2> HIDE DEF edited
    <2>3. QED
      BY <2>1, <2>2 DEF Flush, Column
  <1>2. CASE clars[reply.key].commitment # c
    BY <1>2, AnswerRow
  <1>3. QED
    BY <1>1, <1>2

\* An answer adds no row and touches no job.
LEMMA AnswerFrame ==
    ASSUME TypeOK, [Next]_vars, ~ \E w \in Workers : RunStep(w)
    PROVE  /\ RowIds' = RowIds
           /\ UNCHANGED jobs
           /\ \A c \in RowIds : rows'[c].status \in {rows[c].status, "confirmed"}
  <1>1. ASSUME UNCHANGED <<rows, jobs>>
        PROVE  /\ RowIds' = RowIds
               /\ UNCHANGED jobs
               /\ \A c \in RowIds : rows'[c].status \in {rows[c].status, "confirmed"}
    BY <1>1 DEF RowIds
  <1>2. ASSUME NEW h \in Handlers, AnswerStep(h)
        PROVE  /\ RowIds' = RowIds
               /\ UNCHANGED jobs
               /\ \A c \in RowIds : rows'[c].status \in {rows[c].status, "confirmed"}
    <2>1. CASE AnswerCommit(h)
      BY <2>1, AnswerTrail, AnswerStatus
    <2>2. CASE ~ AnswerCommit(h)
      BY <1>1, <1>2, <2>2, QuietAnswer
    <2>3. QED
      BY <2>1, <2>2
  <1>3. QED
    BY <1>1, <1>2 DEF Next, vars

-----------------------------------------------------------------------------
(***************************************************************************)
(* What is closed stays closed by runs, one at a time.                     *)
(***************************************************************************)

\* What the run at work has loaded is still open: it loaded open commitments
\* only, and an answer closes none.
StillOpen(w) ==
    jobs[w].phase = "reading" =>
      \A c \in DOMAIN jobs[w].seen : rows[c].status \notin ClosedStatus

\* Each step of a worker other than a load leaves it with nothing to compare.
LEMMA RunStillOpen ==
    ASSUME TypeOK, NEW w \in Workers, RunStep(w)
    PROVE  StillOpen(w)'
  <1>1. DOMAIN jobs = Workers
    BY DEF TypeOK
  <1>2. ASSUME NEW job, jobs' = [jobs EXCEPT ![w] = job], job.phase # "reading"
        PROVE  StillOpen(w)'
    BY <1>1, <1>2 DEF StillOpen
  <1>3. Idle.phase # "reading"
    BY DEF Idle
  <1>4. CASE HistoryCommit(w)
    BY <1>2, <1>4, ReconcileFrame
  <1>5. CASE SaveResults(w) \/ SaveRepeat(w) \/ RunFails(w) \/ RunLost(w)
    BY <1>2, <1>3, <1>5 DEF SaveResults, SaveRepeat, RunFails, RunLost
  <1>6. ASSUME NEW meeting \in Meetings, Submit(w, meeting)
        PROVE  StillOpen(w)'
    <2>1. PICK found, asked :
            jobs' = [jobs EXCEPT ![w] =
                      [phase |-> "resolved", run |-> Len(runs) + 1,
                       items |-> found.items, questions |-> asked,
                       decisions |-> found.decisions, seen |-> <<>>,
                       extracted |-> FALSE]]
      BY <1>6 DEF Submit
    <2>2. QED
      BY <1>1, <2>1 DEF StillOpen
  <1>7. CASE HistorySkip(w) \/ SaveCheck(w)
    <2>1. PICK phase \in {"reconciled", "saving"},
               extracted \in {AlreadyExtracted(MeetingOf(jobs[w].run))} :
            \/ jobs' = [jobs EXCEPT ![w] = [jobs[w] EXCEPT !.phase = phase]]
            \/ jobs' = [jobs EXCEPT ![w] = [jobs[w] EXCEPT !.phase = phase,
                                                           !.extracted = extracted]]
      BY <1>7 DEF HistorySkip, SaveCheck
    <2>2. jobs[w].phase # "idle"
      BY <1>7 DEF HistorySkip, SaveCheck
    <2>3. JobOK(jobs[w], Len(runs), Len(rows)) /\ Len(runs) \in Nat /\ Len(rows) \in Nat
      BY <2>2, BusyJob
    <2> DEFINE job == [jobs[w] EXCEPT !.phase = phase]
               checked == [jobs[w] EXCEPT !.phase = phase, !.extracted = extracted]
    <2>4. job.phase = phase /\ checked.phase = phase
      BY <2>3 DEF JobOK
    <2> HIDE DEF job, checked
    <2>5. QED
      BY <1>2, <2>1, <2>4 DEF job, checked
  <1>8. CASE HistoryLoad(w)
    <2> DEFINE open == OpenCommitments(MeetingOf(jobs[w].run))
               held == jobs[w]
               job == [held EXCEPT !.phase = "reading", !.seen = [c \in open |-> rows[c]]]
    <2>1. jobs' = [jobs EXCEPT ![w] = job] /\ UNCHANGED rows /\ held.phase = "resolved"
      BY <1>8 DEF HistoryLoad
    <2>2. JobOK(held, Len(runs), Len(rows)) /\ Len(runs) \in Nat /\ Len(rows) \in Nat
      BY <2>1, BusyJob
    <2>3. \A c \in open : rows[c].status \notin ClosedStatus
      BY DEF OpenCommitments
    <2> HIDE DEF open, held
    <2>4. job.seen = [c \in open |-> rows[c]]
      <3>1. job = [phase |-> "reading", run |-> held.run, items |-> held.items,
                   questions |-> held.questions, decisions |-> held.decisions,
                   seen |-> [c \in open |-> rows[c]], extracted |-> held.extracted]
        BY <2>2, JobFields
      <3> HIDE DEF job
      <3>2. QED
        BY <3>1
    <2> HIDE DEF job
    <2>5. jobs'[w] = job
      BY <1>1, <2>1
    <2>6. QED
      BY <2>1, <2>3, <2>4, <2>5 DEF StillOpen
  <1>9. QED
    BY <1>4, <1>5, <1>6, <1>7, <1>8 DEF RunStep

OpenInv == TypeOK /\ \A w \in Workers : StillOpen(w)

LEMMA OpenStep ==
    ASSUME AtMostOneWorker
    PROVE  OpenInv /\ [Next]_vars => OpenInv'
  <1> SUFFICES ASSUME OpenInv, [Next]_vars PROVE OpenInv'
    OBVIOUS
  <1>1. TypeOK /\ TypeOK'
    BY TypeStep DEF OpenInv
  <1>2. ASSUME NEW w \in Workers, RunStep(w)
        PROVE  OpenInv'
    <2>1. StillOpen(w)' /\ \A v \in Workers : v = w
      BY <1>1, <1>2, RunStillOpen DEF AtMostOneWorker
    <2>2. \A v \in Workers : StillOpen(v)'
      BY <2>1
    <2>3. QED
      BY <1>1, <2>2 DEF OpenInv
  <1>3. CASE ~ \E w \in Workers : RunStep(w)
    <2>1. /\ UNCHANGED jobs
          /\ \A c \in RowIds : rows'[c].status \in {rows[c].status, "confirmed"}
      BY <1>1, <1>3, AnswerFrame
    <2>2. ASSUME NEW w \in Workers
          PROVE  StillOpen(w)'
      <3>1. jobs[w].phase = "reading" => DOMAIN jobs[w].seen \subseteq RowIds
        BY <1>1, BusyJob DEF JobOK, RowIds
      <3>2. StillOpen(w)
        BY DEF OpenInv
      <3>3. QED
        BY <2>1, <3>1, <3>2 DEF StillOpen, ClosedStatus
    <2>3. QED
      BY <1>1, <2>2 DEF OpenInv
  <1>4. QED
    BY <1>2, <1>3

\* The runs are the steps that change what a worker holds, and each keeps the
\* status of what was closed.
LEMMA ClosedStep ==
    OpenInv /\ [Next]_vars =>
      (jobs' # jobs =>
         \A c \in RowIds : rows[c].status \in ClosedStatus =>
           rows'[c].status = rows[c].status)
  <1> SUFFICES ASSUME OpenInv, [Next]_vars, jobs' # jobs,
                      NEW c \in RowIds, rows[c].status \in ClosedStatus
               PROVE  rows'[c].status = rows[c].status
    OBVIOUS
  <1>1. TypeOK
    BY DEF OpenInv
  <1>2. PICK w \in Workers : RunStep(w)
    BY <1>1, AnswerFrame
  <1>3. CASE HistoryCommit(w)
    <2>1. jobs[w].phase = "reading"
      BY <1>3 DEF HistoryCommit
    <2>2. c \notin DOMAIN jobs[w].seen
      BY <2>1 DEF OpenInv, StillOpen
    <2>3. rows'[c] = rows[c]
      BY <1>1, <1>3, <2>2, ReconcileRow
    <2>4. QED
      BY <2>3
  <1>4. CASE SaveResults(w)
    BY <1>1, <1>4, SaveTrail
  <1>5. CASE ~ HistoryCommit(w) /\ ~ SaveResults(w)
    BY <1>2, <1>5, QuietTrail
  <1>6. QED
    BY <1>3, <1>4, <1>5

\* With one run at a time, a run never reopens what another meeting closed,
\* whatever answers are written between its load and its commit
\* (agents/historian.py, services/persistence.py).
THEOREM ClosedLeftAlone ==
    ASSUME AtMostOneWorker
    PROVE  Spec => RunsLeaveClosedAlone
  <1>1. Init => OpenInv
    <2> SUFFICES ASSUME Init PROVE OpenInv
      OBVIOUS
    <2>1. \A w \in Workers : StillOpen(w)
      BY DEF Init, StillOpen, Idle
    <2>2. QED
      BY <2>1, TypeInit DEF OpenInv
  <1>2. OpenInv /\ [Next]_vars => OpenInv'
    BY OpenStep
  <1>3. OpenInv /\ [Next]_vars =>
          [jobs' # jobs => \A c \in RowIds : rows[c].status \in ClosedStatus =>
                             rows'[c].status = rows[c].status]_vars
    BY ClosedStep
  <1>4. QED
    BY <1>1, <1>2, <1>3, PTL DEF Spec, RunsLeaveClosedAlone

-----------------------------------------------------------------------------
(***************************************************************************)
(* The last answer confirms, one answer at a time and any number of runs.  *)
(***************************************************************************)

AtMostOneHandler == \A g, h \in Handlers : g = h

Waiting == "needs_clarification"

\* What an answer's session knows is still so: its copy has the owner of the row,
\* a row that waits waited when it was loaded, and another question that was
\* found open still is.
Accurate(h) ==
    LET reply == replies[h] IN
    /\ reply.phase \in {"loaded", "checked"} =>
         \A c \in RowIds : clars[reply.key].commitment = c =>
           /\ reply.row.owner = rows[c].owner
           /\ rows[c].status = Waiting => reply.row.status = Waiting
    /\ reply.phase = "checked" /\ ~ reply.settled => OpenBeside(reply.key) # {}

WaitInv == TypeOK /\ WaitsOnlyForAnOpenQuestion /\ \A h \in Handlers : Accurate(h)

\* What a run may do to rows and questions without an answer's session noticing:
\* no row changes hands or starts to wait, and questions are only added.
Unnoticed ==
    /\ RowIds \subseteq RowIds'
    /\ \A c \in RowIds : /\ rows'[c].owner = rows[c].owner
                         /\ rows'[c].status = Waiting => rows[c].status = Waiting
    /\ DOMAIN clars \subseteq DOMAIN clars'
    /\ \A k \in DOMAIN clars : clars'[k] = clars[k]
    /\ \A k \in DOMAIN clars' \ DOMAIN clars : clars'[k].status = "open"
    /\ UNCHANGED replies

LEMMA ReconcileUnnoticed ==
    ASSUME TypeOK, NEW w \in Workers, HistoryCommit(w)
    PROVE  Unnoticed
  <1>1. RowIds' = RowIds /\ UNCHANGED <<clars, replies>>
    BY ReconcileFrame
  <1>2. ASSUME NEW c \in RowIds
        PROVE  /\ rows'[c].owner = rows[c].owner
               /\ rows'[c].status \in {rows[c].status, "done", "dropped", "in_progress"}
    <2> DEFINE copy == jobs[w].seen[c]
               meeting == MeetingOf(jobs[w].run)
    <2>1. rows[c] \in Row
      BY ElementOfSeq DEF TypeOK, RowIds
    <2>2. meeting \in Meetings
      BY BusyJob DEF HistoryCommit
    <2>3. \/ rows'[c] = rows[c]
          \/ /\ copy \in Row
             /\ \/ rows'[c] = AfterSilence(rows[c], copy)
                \/ \E verdict \in Verdict :
                     rows'[c] = AfterVerdict(rows[c], copy, verdict, meeting)
      BY ReconcileRow
    <2> HIDE DEF copy, meeting
    <2>4. QED
      BY <2>1, <2>2, <2>3, SilenceWritten, VerdictWritten
  <1>3. QED
    BY <1>1, <1>2 DEF Unnoticed, Waiting

LEMMA SaveUnnoticed ==
    ASSUME TypeOK, NEW w \in Workers, SaveResults(w)
    PROVE  Unnoticed
  <1>1. RowIds \subseteq RowIds' /\ \A c \in RowIds : rows'[c] = rows[c]
    BY SaveTrail
  <1> DEFINE job == jobs[w]
             asked == {KeyOf(job.run, q) : q \in job.questions}
             saved == Len(job.items)
             QuestionAt(k) == CHOOSE q \in job.questions : KeyOf(job.run, q) = k
  <1>2. clars' = [k \in DOMAIN clars \cup asked |->
                    IF k \in DOMAIN clars THEN clars[k]
                    ELSE SavedQuestion(QuestionAt(k), Len(rows), saved)]
    BY DEF SaveResults
  <1> HIDE DEF asked, saved, QuestionAt
  <1>3. /\ DOMAIN clars \subseteq DOMAIN clars'
        /\ \A k \in DOMAIN clars : clars'[k] = clars[k]
    BY <1>2
  <1>4. \A k \in DOMAIN clars' \ DOMAIN clars : clars'[k].status = "open"
    BY <1>2 DEF SavedQuestion
  <1>5. UNCHANGED replies
    BY DEF SaveResults
  <1>6. QED
    BY <1>1, <1>3, <1>4, <1>5 DEF Unnoticed

LEMMA RunUnnoticed ==
    ASSUME TypeOK, NEW w \in Workers, RunStep(w)
    PROVE  Unnoticed
  <1>1. CASE HistoryCommit(w)
    BY <1>1, ReconcileUnnoticed
  <1>2. CASE SaveResults(w)
    BY <1>2, SaveUnnoticed
  <1>3. CASE ~ HistoryCommit(w) /\ ~ SaveResults(w)
    <2>1. UNCHANGED <<rows, clars, replies>>
      BY <1>3, QuietTrail
    <2>2. QED
      BY <2>1 DEF Unnoticed, RowIds
  <1>4. QED
    BY <1>1, <1>2, <1>3

\* A step nobody notices keeps what the sessions know.
LEMMA UnnoticedKeeps ==
    ASSUME WaitInv, TypeOK', Unnoticed
    PROVE  WaitsOnlyForAnOpenQuestion' /\ \A h \in Handlers : Accurate(h)'
  <1>1. TypeOK /\ replies' = replies
    BY DEF WaitInv, Unnoticed
  <1>2. \A k \in DOMAIN clars : clars[k].commitment \in RowIds \cup {None}
    BY <1>1 DEF TypeOK
  <1>3. None \notin RowIds' /\ RowIds \subseteq RowIds'
    BY RowIdsAssumption DEF RowIds, Unnoticed
  <1>4. WaitsOnlyForAnOpenQuestion'
    <2> SUFFICES ASSUME NEW c \in RowIds', rows'[c].status = Waiting, rows'[c].owner # None,
                        NEW k \in DOMAIN clars', clars'[k].commitment = c
                 PROVE  \E q \in DOMAIN clars' : clars'[q].commitment = c
                                                 /\ clars'[q].status = "open"
      BY DEF WaitsOnlyForAnOpenQuestion, Waiting
    <2>1. CASE k \notin DOMAIN clars
      BY <2>1 DEF Unnoticed
    <2>2. CASE k \in DOMAIN clars
      <3>1. clars[k].commitment = c /\ c \in RowIds
        BY <1>2, <1>3, <2>2 DEF Unnoticed
      <3>2. rows[c].status = Waiting /\ rows[c].owner # None
        BY <3>1 DEF Unnoticed
      <3>3. PICK q \in DOMAIN clars : clars[q].commitment = c /\ clars[q].status = "open"
        BY <2>2, <3>1, <3>2 DEF WaitInv, WaitsOnlyForAnOpenQuestion, Waiting
      <3>4. QED
        BY <3>3 DEF Unnoticed
    <2>3. QED
      BY <2>1, <2>2
  <1>5. ASSUME NEW h \in Handlers
        PROVE  Accurate(h)'
    <2> DEFINE reply == replies[h]
               k == reply.key
    <2>1. Accurate(h)
      BY DEF WaitInv
    <2>2. reply.phase # "idle" => k \in DOMAIN clars
      BY <1>1, BusyReply DEF ReplyOK
    <2>3. k \in DOMAIN clars => clars'[k] = clars[k] /\ OpenBeside(k) \subseteq OpenBeside(k)'
      BY DEF Unnoticed, OpenBeside
    <2>4. ASSUME reply.phase \in {"loaded", "checked"}, NEW c \in RowIds',
                 clars'[k].commitment = c
          PROVE  /\ reply.row.owner = rows'[c].owner
                 /\ rows'[c].status = Waiting => reply.row.status = Waiting
      <3>1. clars[k].commitment = c /\ c \in RowIds
        BY <1>2, <1>3, <2>2, <2>3, <2>4
      <3>2. /\ reply.row.owner = rows[c].owner
            /\ rows[c].status = Waiting => reply.row.status = Waiting
        BY <2>1, <2>4, <3>1 DEF Accurate
      <3>3. QED
        BY <3>1, <3>2 DEF Unnoticed
    <2>5. reply.phase = "checked" /\ ~ reply.settled => OpenBeside(k)' # {}
      BY <2>1, <2>2, <2>3 DEF Accurate
    <2>6. QED
      BY <1>1, <2>4, <2>5 DEF Accurate
  <1>6. QED
    BY <1>4, <1>5

\* An answer settles its question and leaves the others as they are.
LEMMA AnswerQuestions ==
    ASSUME TypeOK, NEW h \in Handlers, AnswerCommit(h)
    PROVE  LET k == replies[h].key IN
           /\ k \in DOMAIN clars
           /\ DOMAIN clars' = DOMAIN clars
           /\ \A q \in DOMAIN clars : clars'[q].commitment = clars[q].commitment
           /\ \A q \in DOMAIN clars \ {k} : clars'[q] = clars[q]
           /\ clars'[k].answers = clars[k].answers + 1
           /\ clars[k].answers \in Nat
  <1> DEFINE reply == replies[h]
             k == reply.key
             asked == clars[k]
             status == IF reply.answer.dismiss THEN "abandoned" ELSE "resolved"
             closed == [asked EXCEPT !.status = status, !.answers = @ + 1]
  <1>1. k \in DOMAIN clars
    BY BusyReply DEF AnswerCommit, ReplyOK
  <1>2. asked \in Clarification
    BY <1>1 DEF TypeOK
  <1>3. clars' = [clars EXCEPT ![k] = closed]
    BY DEF AnswerCommit
  <1> HIDE DEF status, asked
  <1>4. closed.commitment = asked.commitment /\ closed.answers = asked.answers + 1
        /\ asked.answers \in Nat
    BY <1>2 DEF Clarification
  <1> HIDE DEF closed, k
  <1>5. /\ DOMAIN clars' = DOMAIN clars
        /\ \A q \in DOMAIN clars : clars'[q] = IF q = k THEN closed ELSE clars[q]
    BY <1>3
  <1>6. QED
    BY <1>1, <1>4, <1>5 DEF k, asked

\* The last answer confirms the row if anybody owns it.
LEMMA AnswerConfirms ==
    ASSUME NEW stored \in Row, NEW copy \in Row, NEW answer \in Answer,
           copy.owner = stored.owner, stored.status = Waiting => copy.status = Waiting
    PROVE  LET after == Flush(stored, copy, Answered(copy, answer, TRUE))
           IN  after.owner # None => after.status # Waiting
  <1> DEFINE edited == Answered(copy, answer, TRUE)
             after == Flush(stored, copy, edited)
  <1>1. /\ edited.owner = IF answer.owner = None THEN copy.owner ELSE answer.owner
        /\ edited.status = IF edited.owner # None THEN "confirmed" ELSE copy.status
    BY DEF Answered, Row
  <1> HIDE DEF edited
  <1>2. after.owner = edited.owner
    BY DEF Flush, Column
  <1>3. edited.owner # None => after.status # Waiting
    BY <1>1 DEF Flush, Column, Waiting
  <1>4. QED
    BY <1>2, <1>3 DEF edited

\* What a commit leaves: a row that waits has a question left open.
LEMMA AnswerCommitWaits ==
    ASSUME WaitInv, NEW h \in Handlers, AnswerCommit(h)
    PROVE  WaitsOnlyForAnOpenQuestion'
  <1> DEFINE reply == replies[h]
             k == reply.key
  <1>1. TypeOK /\ reply.phase = "checked" /\ Accurate(h)
    BY DEF WaitInv, AnswerCommit
  <1>2. /\ k \in DOMAIN clars
        /\ DOMAIN clars' = DOMAIN clars
        /\ \A q \in DOMAIN clars : clars'[q].commitment = clars[q].commitment
        /\ \A q \in DOMAIN clars \ {k} : clars'[q] = clars[q]
    BY <1>1, AnswerQuestions
  <1>3. RowIds' = RowIds
    BY <1>1, AnswerTrail
  <1> SUFFICES ASSUME NEW c \in RowIds, rows'[c].status = Waiting, rows'[c].owner # None,
                      NEW asked \in DOMAIN clars, clars[asked].commitment = c
               PROVE  \E q \in DOMAIN clars : clars[q].commitment = c
                                              /\ clars'[q].status = "open"
    BY <1>2, <1>3 DEF WaitsOnlyForAnOpenQuestion, Waiting
  <1>4. rows[c] \in Row
    BY <1>1, ElementOfSeq DEF TypeOK, RowIds
  <1>5. CASE clars[k].commitment # c
    <2>1. rows'[c] = rows[c]
      BY <1>1, <1>5, AnswerRow
    <2>2. PICK q \in DOMAIN clars : clars[q].commitment = c /\ clars[q].status = "open"
      BY <2>1 DEF WaitInv, WaitsOnlyForAnOpenQuestion, Waiting
    <2>3. QED
      BY <1>2, <1>5, <2>2
  <1>6. CASE clars[k].commitment = c
    <2>1. /\ reply.row.owner = rows[c].owner
          /\ rows[c].status = Waiting => reply.row.status = Waiting
      BY <1>1, <1>6 DEF Accurate
    <2>2. /\ reply.row \in Row /\ reply.answer \in Answer /\ reply.settled \in BOOLEAN
          /\ rows'[c] = Flush(rows[c], reply.row,
                              Answered(reply.row, reply.answer, reply.settled))
      BY <1>1, <1>6, AnswerRow
    <2>3. reply.settled # TRUE
      <3> DEFINE copy == reply.row
                 answer == reply.answer
                 settled == reply.settled
      <3> SUFFICES ASSUME settled = TRUE PROVE FALSE
        OBVIOUS
      <3>1. copy \in Row /\ answer \in Answer /\ copy.owner = rows[c].owner
            /\ (rows[c].status = Waiting => copy.status = Waiting)
            /\ rows'[c] = Flush(rows[c], copy, Answered(copy, answer, TRUE))
        BY <2>1, <2>2
      <3> HIDE DEF copy, answer, settled
      <3>2. QED
        BY <1>4, <3>1, AnswerConfirms
    <2>4. PICK q \in OpenBeside(k) : TRUE
      BY <1>1, <2>2, <2>3 DEF Accurate
    <2>5. QED
      BY <1>2, <1>6, <2>4 DEF OpenBeside
  <1>7. QED
    BY <1>5, <1>6

\* Every step of the one answer keeps what it knows.
LEMMA AnswerAccurate ==
    ASSUME WaitInv, NEW h \in Handlers, AnswerStep(h)
    PROVE  Accurate(h)'
  <1> DEFINE held == replies[h]
  <1>1. TypeOK /\ DOMAIN replies = Handlers /\ Accurate(h)
    BY DEF WaitInv, TypeOK
  <1>2. ASSUME NEW reply, replies' = [replies EXCEPT ![h] = reply],
               reply.phase \notin {"loaded", "checked"}
        PROVE  Accurate(h)'
    BY <1>1, <1>2 DEF Accurate
  <1>3. Idle.phase \notin {"loaded", "checked"}
    BY DEF Idle
  <1>4. CASE AnswerCommit(h) \/ AnswerRollback(h)
    BY <1>2, <1>3, <1>4 DEF AnswerCommit, AnswerRollback
  <1>5. ASSUME NEW k \in DOMAIN clars, NEW answer \in Answer, AnswerOpen(h, k, answer)
        PROVE  Accurate(h)'
    <2> DEFINE reply == [phase |-> "opened", key |-> k, answer |-> answer,
                         row |-> None, settled |-> FALSE]
    <2>1. replies' = [replies EXCEPT ![h] = reply] /\ reply.phase = "opened"
      BY <1>5 DEF AnswerOpen
    <2> HIDE DEF reply
    <2>2. QED
      BY <1>2, <2>1
  <1>6. CASE AnswerLoad(h)
    <2> DEFINE c == clars[held.key].commitment
               row == IF c = None THEN None ELSE rows[c]
               reply == [held EXCEPT !.phase = "loaded", !.row = row]
    <2>1. /\ replies' = [replies EXCEPT ![h] = reply]
          /\ UNCHANGED <<rows, clars>>
          /\ held.phase = "opened"
      BY <1>6 DEF AnswerLoad
    <2>2. ReplyOK(held, clars)
      BY <1>1, <2>1, BusyReply
    <2>3. \A d \in RowIds : c = d => row = rows[d]
      BY RowIdsAssumption DEF RowIds
    <2> HIDE DEF held, row
    <2>4. reply.key = held.key /\ reply.row = row /\ reply.phase = "loaded"
      <3>1. reply = [phase |-> "loaded", key |-> held.key, answer |-> held.answer,
                     row |-> row, settled |-> held.settled]
        BY <2>2, ReplyFields
      <3> HIDE DEF reply
      <3>2. QED
        BY <3>1
    <2> HIDE DEF reply
    <2>5. replies'[h] = reply
      BY <1>1, <2>1
    <2>6. QED
      BY <2>1, <2>3, <2>4, <2>5 DEF Accurate, RowIds
  <1>7. CASE AnswerCheck(h)
    <2> DEFINE settled == OpenBeside(held.key) = {}
               reply == [held EXCEPT !.phase = "checked", !.settled = settled]
    <2>1. /\ replies' = [replies EXCEPT ![h] = reply]
          /\ UNCHANGED <<rows, clars>>
          /\ held.phase = "loaded"
      BY <1>7 DEF AnswerCheck
    <2>2. ReplyOK(held, clars)
      BY <1>1, <2>1, BusyReply
    <2>3. \A c \in RowIds : clars[held.key].commitment = c =>
            /\ held.row.owner = rows[c].owner
            /\ rows[c].status = Waiting => held.row.status = Waiting
      BY <1>1, <2>1 DEF Accurate
    <2>4. ~ settled => OpenBeside(held.key) # {}
      OBVIOUS
    <2> HIDE DEF held, settled
    <2>5. reply.key = held.key /\ reply.row = held.row /\ reply.phase = "checked"
          /\ reply.settled = settled
      <3>1. reply = [phase |-> "checked", key |-> held.key, answer |-> held.answer,
                     row |-> held.row, settled |-> settled]
        BY <2>2, ReplyFields
      <3> HIDE DEF reply
      <3>2. QED
        BY <3>1
    <2> HIDE DEF reply
    <2>6. replies'[h] = reply
      BY <1>1, <2>1
    <2>7. QED
      BY <2>1, <2>3, <2>4, <2>5, <2>6 DEF Accurate, RowIds, OpenBeside
  <1>8. QED
    BY <1>4, <1>5, <1>6, <1>7 DEF AnswerStep

LEMMA WaitStep ==
    ASSUME AtMostOneHandler
    PROVE  WaitInv /\ [Next]_vars => WaitInv'
  <1> SUFFICES ASSUME WaitInv, [Next]_vars PROVE WaitInv'
    OBVIOUS
  <1>1. TypeOK /\ TypeOK'
    BY TypeStep DEF WaitInv
  <1>2. ASSUME Unnoticed
        PROVE  WaitInv'
    BY <1>1, <1>2, UnnoticedKeeps DEF WaitInv
  <1>3. ASSUME NEW w \in Workers, RunStep(w)
        PROVE  WaitInv'
    BY <1>1, <1>2, <1>3, RunUnnoticed
  <1>4. ASSUME NEW h \in Handlers, AnswerStep(h)
        PROVE  WaitInv'
    <2>1. Accurate(h)' /\ \A g \in Handlers : g = h
      BY <1>4, AnswerAccurate DEF AtMostOneHandler
    <2>2. \A g \in Handlers : Accurate(g)'
      BY <2>1
    <2>3. CASE AnswerCommit(h)
      BY <1>1, <2>2, <2>3, AnswerCommitWaits DEF WaitInv
    <2>4. CASE ~ AnswerCommit(h)
      <3>1. UNCHANGED <<rows, clars>>
        BY <1>4, <2>4, QuietAnswer
      <3>2. WaitsOnlyForAnOpenQuestion'
        BY <3>1 DEF WaitInv, WaitsOnlyForAnOpenQuestion, RowIds
      <3>3. QED
        BY <1>1, <2>2, <3>2 DEF WaitInv
    <2>5. QED
      BY <2>3, <2>4
  <1>5. CASE UNCHANGED vars
    BY <1>2, <1>5 DEF vars, Unnoticed, RowIds
  <1>6. QED
    BY <1>3, <1>4, <1>5 DEF Next

\* With one answer at a time, a commitment that was asked about and has an owner
\* waits only as long as a question about it is open, however many runs write
\* rows and questions between an answer's load and its commit
\* (api/clarifications.py).
THEOREM WaitsForAQuestion ==
    ASSUME AtMostOneHandler
    PROVE  Spec => []WaitsOnlyForAnOpenQuestion
  <1>1. Init => WaitInv
    <2> SUFFICES ASSUME Init PROVE WaitInv
      OBVIOUS
    <2>1. \A h \in Handlers : replies[h] = Idle
      BY DEF Init
    <2>2. \A h \in Handlers : Accurate(h)
      BY <2>1 DEF Accurate, Idle
    <2>3. RowIds = {}
      BY DEF Init, RowIds
    <2>4. QED
      BY <2>2, <2>3, TypeInit DEF WaitInv, WaitsOnlyForAnOpenQuestion
  <1>2. WaitInv /\ [Next]_vars => WaitInv'
    BY WaitStep
  <1>3. WaitInv => WaitsOnlyForAnOpenQuestion
    BY DEF WaitInv
  <1>4. QED
    BY <1>1, <1>2, <1>3, PTL DEF Spec

-----------------------------------------------------------------------------
(***************************************************************************)
(* The score.                                                              *)
(***************************************************************************)

\* A larger count takes no smaller share of the weights that count occurrences.
LEMMA ShareGrows ==
    ASSUME NEW m \in Nat, NEW n \in Nat, m <= n
    PROVE  /\ Share(Weight.silence, m, SilenceSaturation) \in Nat
           /\ Share(Weight.silence, m, SilenceSaturation)
                <= Share(Weight.silence, n, SilenceSaturation)
           /\ Share(Weight.slippage, m, SlipSaturation) \in Nat
           /\ Share(Weight.overdue, m, OverdueSaturation) \in Nat
  <1>1. Least(m, 3) \in 0..3 /\ Least(n, 3) \in 0..3 /\ Least(m, 7) \in 0..7
        /\ Least(m, 3) <= Least(n, 3)
    BY DEF Least
  <1>2. /\ SilenceSaturation = 3 /\ SlipSaturation = 3 /\ OverdueSaturation = 7
        /\ Weight.silence = 400 /\ Weight.slippage = 300 /\ Weight.overdue = 350
    BY DEF SilenceSaturation, SlipSaturation, OverdueSaturation, Weight
  <1>3. \A i \in 0..3 : (400 * 42 * i) \div 3 = 5600 * i /\ (300 * 42 * i) \div 3 = 4200 * i
    OBVIOUS
  <1>4. \A i \in 0..7 : (350 * 42 * i) \div 7 = 2100 * i
    OBVIOUS
  <1>5. QED
    BY <1>1, <1>2, <1>3, <1>4 DEF Share, Scale

\* What no silence changes of a score, in 1/42 of a thousandth.
OtherFactors(owned, dated, due, slip, today) ==
    Share(Weight.slippage, slip, SlipSaturation)
      + (IF dated THEN Share(Weight.overdue, DaysLate(due, today), OverdueSaturation)
                  ELSE Weight.noDeadline * Scale)
      + (IF owned THEN 0 ELSE Weight.noOwner * Scale)

\* The score the console gives a row.
LEMMA AssessValue ==
    ASSUME NEW row \in Row, NEW day \in Today
    PROVE  LET rest == OtherFactors(row.owner # None, row.due # None, row.due, row.slip, day)
               total == Share(Weight.silence, row.silence, SilenceSaturation) + rest
           IN  /\ rest \in Nat
               /\ Assess(row, day) = IF Settled(row) THEN 0
                                     ELSE Least(1000, (total + 21) \div 42)
  <1> DEFINE rest == OtherFactors(row.owner # None, row.due # None, row.due, row.slip, day)
             late == DaysLate(row.due, day)
             weight == IF row.due # None
                         THEN Share(Weight.overdue, late, OverdueSaturation)
                         ELSE Weight.noDeadline * Scale
             nobody == IF row.owner # None THEN 0 ELSE Weight.noOwner * Scale
             slipped == Share(Weight.slippage, row.slip, SlipSaturation)
             unheard == Share(Weight.silence, row.silence, SilenceSaturation)
             item == [settled |-> Settled(row), owned |-> row.owner # None,
                      dated |-> row.due # None, due |-> row.due,
                      slip |-> row.slip, silence |-> row.silence]
  <1>1. row.slip \in Nat /\ row.silence \in Nat /\ (row.due # None => row.due \in Nat)
        /\ day \in Nat
    BY DaysAssumption, TodayAssumption DEF Row
  <1>2. row.due # None => late \in Nat
    BY <1>1 DEF DaysLate
  <1>3. slipped \in Nat /\ unheard \in Nat
    BY <1>1, ShareGrows
  <1>4. weight \in Nat
    <2>1. row.due # None => Share(Weight.overdue, late, OverdueSaturation) \in Nat
      BY <1>2, ShareGrows
    <2>2. Weight.noDeadline * Scale \in Nat
      BY DEF Weight, Scale
    <2>3. QED
      BY <2>1, <2>2
  <1>5. nobody \in Nat
    BY DEF Weight, Scale
  <1>6. rest = slipped + weight + nobody
    BY DEF OtherFactors
  <1>7. Assess(row, day) = Score(item, day, Stated)
    BY DEF Assess
  <1>8. /\ item.settled = Settled(row) /\ item.owned = (row.owner # None)
        /\ item.dated = (row.due # None) /\ item.due = row.due
        /\ item.slip = row.slip /\ item.silence = row.silence
    OBVIOUS
  <1>9. /\ Doubt(Weight.weakOwner, Stated.ownerConfidence) = 0
        /\ Doubt(Weight.weakDeadline, Stated.dueConfidence) = 0
        /\ Share(Weight.question, Stated.questions, 2) = 0
        /\ (IF Stated.blocked THEN Weight.blocked * Scale ELSE 0) = 0
        /\ (IF Stated.conditional THEN Weight.conditional * Scale ELSE 0) = 0
        /\ Scale \div 2 = 21 /\ Scale = 42
    BY DEF Doubt, Stated, Share, Least, Scale, Weight
  <1>10. Score(item, day, Stated) =
           IF Settled(row) THEN 0
           ELSE Least(1000, (unheard + rest + 21) \div 42)
    <2> DEFINE dated == IF item.dated
                          THEN Share(Weight.overdue, DaysLate(item.due, day), OverdueSaturation)
                          ELSE Weight.noDeadline * Scale
               owned == IF item.owned THEN Doubt(Weight.weakOwner, Stated.ownerConfidence)
                                      ELSE Weight.noOwner * Scale
               weak == IF item.dated THEN Doubt(Weight.weakDeadline, Stated.dueConfidence)
                                     ELSE 0
               asked == Share(Weight.question, Stated.questions, 2)
               blocked == IF Stated.blocked THEN Weight.blocked * Scale ELSE 0
               conditional == IF Stated.conditional THEN Weight.conditional * Scale ELSE 0
               silence == Share(Weight.silence, item.silence, SilenceSaturation)
               slip == Share(Weight.slippage, item.slip, SlipSaturation)
    <2>1. Score(item, day, Stated) =
            IF item.settled THEN 0
            ELSE Least(1000, (silence + slip + dated + owned + weak + asked + blocked
                                + conditional + Scale \div 2) \div Scale)
      BY DEF Score
    <2>2. /\ silence = unheard /\ slip = slipped /\ dated = weight /\ owned = nobody
          /\ weak = 0 /\ asked = 0 /\ blocked = 0 /\ conditional = 0
      BY <1>8, <1>9
    <2> HIDE DEF silence, slip, dated, owned, weak, asked, blocked, conditional, item,
                 unheard, slipped, weight, nobody, rest
    <2>3. silence + slip + dated + owned + weak + asked + blocked + conditional
            = unheard + rest
      BY <1>3, <1>4, <1>5, <1>6, <2>2
    <2>4. QED
      BY <1>8, <1>9, <2>1, <2>3
  <1>11. rest \in Nat
    BY <1>3, <1>4, <1>5, <1>6
  <1>12. QED
    BY <1>7, <1>10, <1>11

\* Of two rows alike but for their silence, the one passed over more often looks
\* no safer, unless it is closed.
LEMMA AssessGrows ==
    ASSUME NEW before \in Row, NEW after \in Row, NEW day \in Today,
           after.owner = before.owner, after.due = before.due, after.slip = before.slip,
           before.silence <= after.silence, Settled(after) => Settled(before)
    PROVE  Assess(after, day) >= Assess(before, day)
  <1> DEFINE rest == OtherFactors(before.owner # None, before.due # None, before.due, before.slip, day)
             old == Share(Weight.silence, before.silence, SilenceSaturation) + rest
             new == Share(Weight.silence, after.silence, SilenceSaturation) + rest
  <1>1. /\ rest \in Nat
        /\ Assess(before, day) = IF Settled(before) THEN 0 ELSE Least(1000, (old + 21) \div 42)
        /\ Assess(after, day) = IF Settled(after) THEN 0 ELSE Least(1000, (new + 21) \div 42)
    BY AssessValue
  <1>2. before.silence \in Nat /\ after.silence \in Nat
    BY DEF Row
  <1>3. /\ Share(Weight.silence, before.silence, SilenceSaturation) \in Nat
        /\ Share(Weight.silence, after.silence, SilenceSaturation) \in Nat
        /\ Share(Weight.silence, before.silence, SilenceSaturation)
             <= Share(Weight.silence, after.silence, SilenceSaturation)
    BY <1>2, ShareGrows
  <1>4. old \in Nat /\ new \in Nat /\ old <= new
    <2> HIDE DEF rest
    <2>1. QED
      BY <1>1, <1>3
  <1> HIDE DEF old, new, rest
  <1>5. /\ (old + 21) \div 42 \in Nat /\ (new + 21) \div 42 \in Nat
        /\ (old + 21) \div 42 <= (new + 21) \div 42
    BY <1>4
  <1>6. /\ Least(1000, (old + 21) \div 42) \in Nat
        /\ Least(1000, (old + 21) \div 42) <= Least(1000, (new + 21) \div 42)
    BY <1>5 DEF Least
  <1>7. Least(1000, (new + 21) \div 42) \in Nat
    BY <1>5 DEF Least
  <1>8. QED
    BY <1>1, <1>6, <1>7

\* What is closed is at no risk.
LEMMA SettledIsSafe ==
    ASSUME NEW row, NEW day, Settled(row)
    PROVE  Band(Assess(row, day)) = "low"
  BY DEF Assess, Score, Band

\* Whoever owes a late row is a person, and its date is a day.
LEMMA LateRow ==
    ASSUME TypeOK, NEW day \in Today, NEW c \in Late(day)
    PROVE  /\ c \in RowIds /\ ~ Settled(rows[c]) /\ rows[c].due \in Nat
           /\ rows[c].owner \in People \cup {None}
  <1>1. c \in RowIds /\ ~ Settled(rows[c]) /\ rows[c].due # None
    BY DEF Late, Overdue
  <1>2. rows[c] \in Row
    BY <1>1, ElementOfSeq DEF TypeOK, RowIds
  <1>3. QED
    BY <1>1, <1>2, DaysAssumption DEF Row

\* Somebody is late under finitely many names, of which a sweep comes to as many
\* as its limit allows.
LEMMA NamesReached ==
    ASSUME TypeOK, NEW day \in Today, NEW name \in Namings
    PROVE  LET names == LateNames(name, day)
           IN /\ IsFiniteSet(names) /\ Cardinality(names) \in Nat
              /\ \A first \in FirstNames(name, day) :
                   /\ first \subseteq names /\ IsFiniteSet(first)
                   /\ Cardinality(first) = Least(Cardinality(names), MaxOwnersNudged)
                   /\ Cardinality(first) \in Nat /\ Cardinality(first) <= MaxOwnersNudged
  <1> DEFINE names == LateNames(name, day)
             owned == {c \in Late(day) : rows[c].owner # None}
             named == [c \in owned |-> name[rows[c].owner]]
  <1>1. IsFiniteSet(RowIds)
    BY FS_Interval DEF TypeOK, RowIds
  <1>2. IsFiniteSet(owned)
    <2>1. owned \in SUBSET RowIds
      BY DEF Late
    <2> HIDE DEF owned
    <2>2. QED
      BY <1>1, <2>1, FS_Subset
  <1>3. names = {name[rows[c].owner] : c \in owned}
    BY DEF LateNames
  <1> HIDE DEF names, owned
  <1>4. named \in Surjection(owned, names)
    BY <1>3 DEF Surjection
  <1>5. IsFiniteSet(names) /\ Cardinality(names) \in Nat
    BY <1>2, <1>4, FS_Surjection, FS_CardinalityType
  <1>6. ASSUME NEW first \in FirstNames(name, day)
        PROVE  /\ first \subseteq names /\ IsFiniteSet(first)
               /\ Cardinality(first) = Least(Cardinality(names), MaxOwnersNudged)
               /\ Cardinality(first) \in Nat /\ Cardinality(first) <= MaxOwnersNudged
    <2>1. first \in SUBSET names
      BY DEF FirstNames, names
    <2>2. Cardinality(first) = Least(Cardinality(names), MaxOwnersNudged)
      BY DEF FirstNames, names
    <2>3. IsFiniteSet(first) /\ Cardinality(first) \in Nat
      BY <1>5, <2>1, FS_Subset, FS_CardinalityType
    <2>4. QED
      BY <1>5, <2>1, <2>2, <2>3, MaxOwnersNudgedAssumption DEF Least
  <1>7. QED
    BY <1>5, <1>6 DEF names

\* Under fewer names than the limit has somebody been late for longer than under
\* one a sweep comes to: each of them it came to as well.
LEMMA FewLateLonger ==
    ASSUME TypeOK, NEW day \in Today, NEW name \in Namings,
           NEW first \in FirstNames(name, day), NEW n \in first
    PROVE  Cardinality({m \in LateNames(name, day) :
                          \E c \in LateWith(m, name, day) : \A d \in LateWith(n, name, day) :
                            rows[c].due < rows[d].due}) < MaxOwnersNudged
  <1> DEFINE names == LateNames(name, day)
             longer == {m \in names :
                          \E c \in LateWith(m, name, day) : \A d \in LateWith(n, name, day) :
                            rows[c].due < rows[d].due}
  <1>1. /\ IsFiniteSet(first) /\ Cardinality(first) \in Nat
        /\ Cardinality(first) <= MaxOwnersNudged
    BY NamesReached
  <1>2. \A m : \A c \in LateWith(m, name, day) : rows[c].due \in Nat
    BY LateRow DEF LateWith
  <1>3. \A m \in names \ first : \A c \in LateWith(m, name, day) :
          \E d \in LateWith(n, name, day) : rows[d].due <= rows[c].due
    BY DEF FirstNames
  <1>4. longer \subseteq first \ {n}
    <2> SUFFICES ASSUME NEW m \in names, NEW c \in LateWith(m, name, day),
                        \A d \in LateWith(n, name, day) : rows[c].due < rows[d].due
                 PROVE  m \in first \ {n}
      OBVIOUS
    <2>1. m # n
      BY <1>2
    <2>2. m \in first
      <3>1. ASSUME m \notin first PROVE FALSE
        <4>1. PICK d \in LateWith(n, name, day) : rows[d].due <= rows[c].due
          BY <1>3, <3>1
        <4>2. rows[c].due < rows[d].due
          BY <4>1
        <4>3. QED
          BY <1>2, <4>1, <4>2
      <3>2. QED
        BY <3>1
    <2>3. QED
      BY <2>1, <2>2
  <1> HIDE DEF longer
  <1>5. /\ IsFiniteSet(first \ {n})
        /\ Cardinality(first \ {n}) = Cardinality(first) - 1
    BY <1>1, FS_RemoveElement
  <1>6. Cardinality(longer) <= Cardinality(first \ {n}) /\ Cardinality(longer) \in Nat
    BY <1>4, <1>5, FS_Subset, FS_CardinalityType
  <1>7. QED
    BY <1>1, <1>5, <1>6, MaxOwnersNudgedAssumption DEF longer

\* What the pages of people say is late, over all of them and under one name.
LEMMA PagesOfTheLate ==
    ASSUME TypeOK, NEW day \in Today
    PROVE  LET late == {page \in ListPeople(day) : page.overdue # {}}
           IN /\ UNION {page.overdue : page \in late} = {c \in Late(day) : rows[c].owner # None}
              /\ \A name \in Namings :
                   /\ {name[page.person] : page \in late} = LateNames(name, day)
                   /\ \A n : UNION {page.overdue : page \in {page \in late : name[page.person] = n}}
                               = LateWith(n, name, day)
  <1> DEFINE late == {page \in ListPeople(day) : page.overdue # {}}
             Owes(p) == {c \in Late(day) : rows[c].owner = p}
  <1>1. \A p : /\ PersonPage(p, day).overdue = Owes(p)
               /\ PersonPage(p, day).person = p
    BY DEF PersonPage, OpenItems, Late
  <1>2. \A c \in Late(day) : rows[c].owner \in People \cup {None}
    BY LateRow
  <1>3. \A page : page \in late <=> \E p \in People : page = PersonPage(p, day) /\ Owes(p) # {}
    <2>1. \A page : page \in ListPeople(day) <=> \E p \in People : page = PersonPage(p, day)
      BY DEF ListPeople
    <2> HIDE DEF Owes
    <2>2. \A p : PersonPage(p, day).overdue = Owes(p)
      BY <1>1
    <2>3. QED
      BY <2>1, <2>2
  <1> HIDE DEF late
  <1>4. \A page \in late : page.person \in People /\ page.overdue = Owes(page.person)
    <2> HIDE DEF Owes
    <2>1. QED
      BY <1>1, <1>3
  <1>5. \A c \in Late(day) : rows[c].owner # None =>
          \E page \in late : page.person = rows[c].owner /\ c \in page.overdue
    <2> SUFFICES ASSUME NEW c \in Late(day), rows[c].owner # None
                 PROVE  \E page \in late : page.person = rows[c].owner /\ c \in page.overdue
      OBVIOUS
    <2>1. rows[c].owner \in People /\ c \in Owes(rows[c].owner)
      BY <1>2
    <2> HIDE DEF Owes
    <2>2. PersonPage(rows[c].owner, day) \in late
      BY <1>3, <2>1
    <2>3. QED
      BY <1>1, <2>1, <2>2
  <1>6. \A page \in late : page.overdue # {} /\ page.person # None
    <2> HIDE DEF Owes
    <2>1. QED
      BY <1>1, <1>3, PeopleAssumption
  <1>7. UNION {page.overdue : page \in late} = {c \in Late(day) : rows[c].owner # None}
    BY <1>4, <1>5, <1>6
  <1>8. ASSUME NEW name \in Namings
        PROVE  {name[page.person] : page \in late} = LateNames(name, day)
    <2>1. \A page \in late : name[page.person] \in LateNames(name, day)
      BY <1>4, <1>6 DEF LateNames
    <2>2. \A c \in Late(day) : rows[c].owner # None =>
            \E page \in late : name[page.person] = name[rows[c].owner]
      BY <1>5
    <2>3. QED
      BY <2>1, <2>2 DEF LateNames
  <1>9. ASSUME NEW name \in Namings, NEW n
        PROVE  UNION {page.overdue : page \in {page \in late : name[page.person] = n}}
                 = LateWith(n, name, day)
    <2>1. ASSUME NEW page \in late, name[page.person] = n
          PROVE  page.overdue \subseteq LateWith(n, name, day)
      BY <1>4, <1>6, <2>1 DEF LateWith
    <2>2. ASSUME NEW c \in LateWith(n, name, day)
          PROVE  \E page \in late : name[page.person] = n /\ c \in page.overdue
      BY <1>5 DEF LateWith
    <2>3. QED
      BY <2>1, <2>2
  <1>10. QED
    BY <1>7, <1>8, <1>9 DEF late

\* What the pages of people say is at risk: it is open, and somebody's.
LEMMA PagesAtRisk ==
    ASSUME TypeOK, NEW day \in Today
    PROVE  UNION {page.atRisk : page \in ListPeople(day)}
             = ListCommitments("at_risk", day) \ ListCommitments("unowned", day)
  <1> DEFINE risky == {c \in RowIds : Band(Assess(rows[c], day)) # "low"}
  <1>1. \A c \in RowIds : rows[c].owner \in People \cup {None}
    <2>1. \A c \in RowIds : rows[c] \in Row
      BY ElementOfSeq DEF TypeOK, RowIds
    <2>2. QED
      BY <2>1 DEF Row
  <1>2. /\ ListCommitments("at_risk", day) = risky
        /\ ListCommitments("unowned", day) = {c \in RowIds : rows[c].owner = None}
    BY DEF ListCommitments
  <1>3. \A c \in risky : ~ Settled(rows[c])
    BY SettledIsSafe
  <1>4. \A p : PersonPage(p, day).atRisk
                 = {c \in risky : rows[c].owner = p /\ ~ Settled(rows[c])}
    BY DEF PersonPage, OpenItems
  <1>5. risky \subseteq RowIds
    OBVIOUS
  <1> HIDE DEF risky
  <1>6. \A c : (\E page \in ListPeople(day) : c \in page.atRisk)
                 <=> c \in risky /\ rows[c].owner # None
    <2>1. ASSUME NEW p \in People, NEW c \in PersonPage(p, day).atRisk
          PROVE  c \in risky /\ rows[c].owner # None
      BY <1>4, <2>1, PeopleAssumption
    <2>2. ASSUME NEW c \in risky, rows[c].owner # None
          PROVE  rows[c].owner \in People /\ c \in PersonPage(rows[c].owner, day).atRisk
      BY <1>1, <1>3, <1>4, <1>5, <2>2
    <2>3. QED
      BY <2>1, <2>2 DEF ListPeople
  <1>7. QED
    BY <1>2, <1>5, <1>6

\* The sweep and the pages ask the same of a row, given that an owner is a person.
LEMMA SweepAgrees == TypeOK => SweepAgreesWithPages
  <1> SUFFICES ASSUME TypeOK, NEW day \in Today
               PROVE  LET pages == ListPeople(day)
                          late == {page \in pages : page.overdue # {}}
                          unowned == ListCommitments("unowned", day)
                      IN /\ UNION {page.atRisk : page \in pages}
                              = ListCommitments("at_risk", day) \ unowned
                         /\ \A name \in Namings :
                              LET names == {name[page.person] : page \in late}
                                  PagesOf(n) == {page \in late : name[page.person] = n}
                                  OverdueOf(n) == UNION {page.overdue : page \in PagesOf(n)}
                                  LateLonger(m, n) ==
                                    \E c \in OverdueOf(m) :
                                      \A d \in OverdueOf(n) : rows[c].due < rows[d].due
                              IN \A swept \in Sweeps(name, day) :
                                   /\ swept.overdue
                                        = swept.unowned \cup UNION {page.overdue : page \in late}
                                   /\ swept.overdue \subseteq ListCommitments("overdue", day)
                                   /\ swept.unowned \subseteq unowned
                                   /\ Cardinality(DOMAIN swept.nudge)
                                        <= Cardinality(names) - swept.skipped
                                   /\ Cardinality(names) - swept.skipped
                                        = Least(Cardinality(names), MaxOwnersNudged)
                                   /\ \A n \in DOMAIN swept.nudge :
                                        /\ n \in names /\ swept.nudge[n] = OverdueOf(n)
                                        /\ Cardinality({m \in names : LateLonger(m, n)})
                                             < MaxOwnersNudged
    BY DEF SweepAgreesWithPages
  <1> DEFINE late == {page \in ListPeople(day) : page.overdue # {}}
             names(name) == {name[page.person] : page \in late}
             OverdueUnder(name, n) ==
               UNION {page.overdue : page \in {page \in late : name[page.person] = n}}
             longer(name, n) ==
               {m \in names(name) : \E c \in OverdueUnder(name, m) :
                  \A d \in OverdueUnder(name, n) : rows[c].due < rows[d].due}
  <1>1. /\ UNION {page.overdue : page \in late} = {c \in Late(day) : rows[c].owner # None}
        /\ \A name \in Namings :
             /\ names(name) = LateNames(name, day)
             /\ \A n : OverdueUnder(name, n) = LateWith(n, name, day)
    BY PagesOfTheLate
  <1> HIDE DEF late, names, OverdueUnder
  <1>2. ASSUME NEW name \in Namings, NEW swept \in Sweeps(name, day)
        PROVE  /\ swept.overdue = swept.unowned \cup UNION {page.overdue : page \in late}
               /\ swept.overdue \subseteq ListCommitments("overdue", day)
               /\ swept.unowned \subseteq ListCommitments("unowned", day)
               /\ Cardinality(DOMAIN swept.nudge) <= Cardinality(names(name)) - swept.skipped
               /\ Cardinality(names(name)) - swept.skipped
                    = Least(Cardinality(names(name)), MaxOwnersNudged)
               /\ \A n \in DOMAIN swept.nudge :
                    /\ n \in names(name) /\ swept.nudge[n] = OverdueUnder(name, n)
                    /\ Cardinality(longer(name, n)) < MaxOwnersNudged
    <2>1. PICK first \in FirstNames(name, day) :
            \E written \in SUBSET first : swept = Sweep(name, day, written)
      BY DEF Sweeps
    <2>2. PICK written \in SUBSET first : swept = Sweep(name, day, written)
      BY <2>1
    <2>3. /\ swept.overdue = Late(day)
          /\ swept.unowned = {c \in Late(day) : rows[c].owner = None}
          /\ swept.nudge = [n \in written |-> LateWith(n, name, day)]
          /\ swept.skipped = Cardinality(names(name))
                               - Least(Cardinality(names(name)), MaxOwnersNudged)
      BY <1>1, <2>2 DEF Sweep
    <2>4. /\ Cardinality(names(name)) \in Nat /\ first \subseteq names(name)
          /\ IsFiniteSet(first) /\ Cardinality(first) \in Nat
          /\ Cardinality(first) = Least(Cardinality(names(name)), MaxOwnersNudged)
      BY <1>1, NamesReached
    <2>5. Cardinality(written) <= Cardinality(first)
      BY <2>4, FS_Subset
    <2>6. /\ swept.overdue \subseteq ListCommitments("overdue", day)
          /\ swept.unowned \subseteq ListCommitments("unowned", day)
      BY <2>3 DEF Late, ListCommitments
    <2>7. swept.overdue = swept.unowned \cup UNION {page.overdue : page \in late}
      BY <1>1, <2>3
    <2>8. ASSUME NEW n \in written
          PROVE  /\ n \in names(name) /\ swept.nudge[n] = OverdueUnder(name, n)
                 /\ Cardinality(longer(name, n)) < MaxOwnersNudged
      <3>1. longer(name, n) =
              {m \in LateNames(name, day) :
                 \E c \in LateWith(m, name, day) : \A d \in LateWith(n, name, day) :
                   rows[c].due < rows[d].due}
        BY <1>1
      <3> HIDE DEF longer
      <3>2. Cardinality(longer(name, n)) < MaxOwnersNudged
        BY <3>1, FewLateLonger
      <3>3. QED
        BY <1>1, <2>3, <2>4, <3>2
    <2> HIDE DEF longer
    <2>9. DOMAIN swept.nudge = written
      BY <2>3
    <2>10. /\ Cardinality(names(name)) - swept.skipped = Cardinality(first)
           /\ Cardinality(written) <= Cardinality(names(name)) - swept.skipped
      BY <2>3, <2>4, <2>5
    <2>11. QED
      BY <2>4, <2>6, <2>7, <2>8, <2>9, <2>10
  <1>3. UNION {page.atRisk : page \in ListPeople(day)}
          = ListCommitments("at_risk", day) \ ListCommitments("unowned", day)
    BY PagesAtRisk
  <1>4. QED
    BY <1>2, <1>3 DEF late, names, OverdueUnder

\* The sweep, the pages of people and the list of everything name the same work
\* on any day, whatever runs and answers made of the ledger and whatever people
\* are called: a nudge carries all that is late under its name, names beyond the
\* limit are counted as skipped, and none is nudged that as many as the limit have
\* been late for longer than, whichever drafts fail
\* (api/views.py 200-526, api/internal.py 80-178).
THEOREM SweepAgreesAlways == Spec => []SweepAgreesWithPages
  BY SweepAgrees, TypeCorrect, PTL

-----------------------------------------------------------------------------
(***************************************************************************)
(* The score falls only on news, one run at a time.                        *)
(***************************************************************************)

\* The row as it was, but for the owner and the date it has after a step.
Given(c) == [rows[c] EXCEPT !.owner = rows'[c].owner, !.due = rows'[c].due]

\* What the property says of one row that is news to nobody.
NoSafer(c) ==
    \A day \in Today :
      Assess(rows'[c], day) >= Assess(IF Answers(c) THEN Given(c) ELSE rows[c], day)

\* A step that changes no more of a row than lengthens its silence.
LEMMA LongerSilence ==
    ASSUME NEW c \in RowIds, rows[c] \in Row, rows'[c] \in Row,
           rows'[c].owner = rows[c].owner, rows'[c].due = rows[c].due,
           rows'[c].status = rows[c].status, rows'[c].slip = rows[c].slip,
           rows[c].silence <= rows'[c].silence
    PROVE  NoSafer(c)
  <1> DEFINE before == rows[c]
             after == rows'[c]
             given == [before EXCEPT !.owner = after.owner, !.due = after.due]
  <1>1. given = before
    BY DEF Row
  <1>2. Settled(after) => Settled(before)
    BY DEF Settled
  <1>3. \A day \in Today : Assess(after, day) >= Assess(before, day)
    BY <1>2, AssessGrows
  <1>4. Given(c) = given
    BY DEF Given
  <1> HIDE DEF given
  <1>5. QED
    BY <1>1, <1>3, <1>4 DEF NoSafer

LEMMA ReconcileNoSafer ==
    ASSUME SerialInv, TypeOK', NEW w \in Workers, HistoryCommit(w), NEW c \in RowIds,
           rows'[c] # rows[c], ~ Mentioned(c)
    PROVE  NoSafer(c)
  <1> DEFINE copy == jobs[w].seen[c]
             run == jobs[w].run
  <1>1. TypeOK /\ jobs[w].phase = "reading"
    BY DEF SerialInv, HistoryCommit
  <1>2. rows[c] \in Row /\ rows'[c] \in Row
    <2>1. c \in RowIds'
      BY <1>1, ReconcileFrame
    <2>2. QED
      BY <1>1, <2>1, ElementOfSeq DEF TypeOK, RowIds
  <1>3. /\ c \in DOMAIN jobs[w].seen
        /\ copy \in Row
        /\ \/ rows'[c] = AfterSilence(rows[c], copy)
           \/ \E e \in events' : e.run = run /\ e.commitment = c /\ e.type # "unmentioned"
    BY <1>1, ReconcileRow
  <1>4. copy.silence = rows[c].silence /\ \A e \in events : e.run # run
    BY <1>1, <1>3 DEF SerialInv, InFlight
  <1>5. rows'[c] = AfterSilence(rows[c], copy)
    BY <1>3, <1>4 DEF Mentioned
  <1> HIDE DEF copy
  <1>6. /\ rows'[c].owner = rows[c].owner /\ rows'[c].due = rows[c].due
        /\ rows'[c].status = rows[c].status /\ rows'[c].slip = rows[c].slip
        /\ rows'[c].silence = rows[c].silence + 1
    BY <1>2, <1>3, <1>4, <1>5, SilenceWritten
  <1>7. rows[c].silence <= rows'[c].silence
    BY <1>2, <1>6 DEF Row
  <1>8. QED
    BY <1>2, <1>6, <1>7, LongerSilence

\* An answer changes nothing that counts but the owner and the date.
LEMMA AnswerNoSafer ==
    ASSUME TypeOK, TypeOK', NEW h \in Handlers, AnswerCommit(h), NEW c \in RowIds,
           rows'[c] # rows[c]
    PROVE  NoSafer(c)
  <1> DEFINE reply == replies[h]
             k == reply.key
             before == rows[c]
             after == rows'[c]
             given == [before EXCEPT !.owner = after.owner, !.due = after.due]
  <1>1. before \in Row /\ after \in Row
    <2>1. c \in RowIds'
      BY AnswerTrail
    <2>2. QED
      BY <2>1, ElementOfSeq DEF TypeOK, RowIds
  <1>2. k \in DOMAIN clars /\ clars[k].commitment = c
    BY AnswerRow
  <1>3. Answers(c)
    BY <1>2, AnswerQuestions DEF Answers
  <1>4. /\ after.slip = before.slip /\ after.silence = before.silence
        /\ after.status \in {before.status, "confirmed"}
    BY AnswerTrail, AnswerStatus DEF SameTrail
  <1>5. Given(c) = given
    BY DEF Given
  <1> HIDE DEF before, after
  <1>6. /\ given \in Row /\ given.owner = after.owner /\ given.due = after.due
        /\ given.slip = before.slip /\ given.silence = before.silence
        /\ given.status = before.status
    BY <1>1 DEF Row
  <1> HIDE DEF given
  <1>7. Settled(after) => Settled(given)
    BY <1>4, <1>6 DEF Settled, ClosedStatus
  <1>8. given.silence <= after.silence
    BY <1>1, <1>4, <1>6 DEF Row
  <1>9. \A day \in Today : Assess(after, day) >= Assess(given, day)
    BY <1>1, <1>4, <1>6, <1>7, <1>8, AssessGrows
  <1>10. QED
    BY <1>3, <1>5, <1>9 DEF NoSafer, after

LEMMA RiskStep ==
    SerialInv /\ [Next]_vars =>
      \A c \in RowIds : rows'[c] # rows[c] /\ ~ Mentioned(c) => NoSafer(c)
  <1> SUFFICES ASSUME SerialInv, [Next]_vars, NEW c \in RowIds,
                      rows'[c] # rows[c], ~ Mentioned(c)
               PROVE  NoSafer(c)
    OBVIOUS
  <1>1. TypeOK /\ TypeOK'
    BY TypeStep DEF SerialInv
  <1>2. ASSUME NEW w \in Workers, RunStep(w)
        PROVE  NoSafer(c)
    <2>1. CASE HistoryCommit(w)
      BY <1>1, <2>1, ReconcileNoSafer
    <2>2. CASE SaveResults(w)
      BY <1>1, <2>2, SaveTrail
    <2>3. CASE ~ HistoryCommit(w) /\ ~ SaveResults(w)
      BY <1>2, <2>3, QuietTrail
    <2>4. QED
      BY <2>1, <2>2, <2>3
  <1>3. ASSUME NEW h \in Handlers, AnswerStep(h)
        PROVE  NoSafer(c)
    <2>1. CASE AnswerCommit(h)
      BY <1>1, <2>1, AnswerNoSafer
    <2>2. CASE ~ AnswerCommit(h)
      BY <1>3, <2>2, QuietAnswer
    <2>3. QED
      BY <2>1, <2>2
  <1>4. CASE UNCHANGED vars
    BY <1>4 DEF vars
  <1>5. QED
    BY <1>2, <1>3, <1>4 DEF Next

\* With one run at a time, and any number of answers beside it, a promise looks
\* safer on any day only after a meeting spoke of it, or by the owner and the date
\* a human gave it (services/risk.py, agents/historian.py, api/clarifications.py).
THEOREM RiskFallsOnNews ==
    ASSUME AtMostOneWorker
    PROVE  Spec => RiskFallsOnlyOnNews
  <1>1. SerialInv /\ [Next]_vars =>
          [\A c \in RowIds : rows'[c] # rows[c] /\ ~ Mentioned(c) =>
             LET given == [rows[c] EXCEPT !.owner = rows'[c].owner, !.due = rows'[c].due]
             IN \A day \in Today :
                  Assess(rows'[c], day)
                    >= Assess(IF Answers(c) THEN given ELSE rows[c], day)]_vars
    BY RiskStep DEF NoSafer, Given
  <1>2. QED
    BY <1>1, Serially, PTL DEF Spec, RiskFallsOnlyOnNews

=============================================================================

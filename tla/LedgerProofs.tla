---------------------------- MODULE LedgerProofs ----------------------------
(***************************************************************************)
(* Theorems about Ledger, for every value of its constants.                *)
(***************************************************************************)
EXTENDS Ledger, FiniteSetTheorems, SequenceTheorems, TLAPS

(***************************************************************************)
(* The operators on one row keep it a row.                                 *)
(***************************************************************************)

\* Writing back the changed columns of a loaded row leaves a row.
LEMMA FlushType ==
    ASSUME NEW stored \in Row, NEW loaded \in Row, NEW edited \in Row
    PROVE  Flush(stored, loaded, edited) \in Row
  BY DEF Flush, Column, Row

\* A verdict leaves a row.
LEMMA ApplyType ==
    ASSUME NEW row \in Row, NEW verdict \in Verdict, NEW meeting \in Meetings
    PROVE  Apply(row, verdict, meeting) \in Row
  <1> DEFINE heard == [row EXCEPT !.lastSeen = meeting, !.silence = 0]
  <1>1. verdict.due \in Days \cup {None}
    BY DEF Verdict
  <1>2. heard \in Row
    BY DEF Row
  <1>3. \A s \in CommitmentStatus : [heard EXCEPT !.status = s] \in Row
    BY <1>2 DEF Row
  <1>4. [heard EXCEPT !.slip = @ + 1,
                      !.originalDue = IF @ = None THEN row.due ELSE @,
                      !.due = IF verdict.due = None THEN @ ELSE verdict.due] \in Row
    <2>1. heard.slip + 1 \in Nat
      BY <1>2 DEF Row
    <2>2. (IF heard.originalDue = None THEN row.due ELSE heard.originalDue)
             \in Days \cup {None}
      BY <1>2 DEF Row
    <2>3. (IF verdict.due = None THEN heard.due ELSE verdict.due) \in Days \cup {None}
      BY <1>1, <1>2 DEF Row
    <2> HIDE DEF heard
    <2>4. QED
      BY <1>2, <2>1, <2>2, <2>3 DEF Row
  <1> HIDE DEF heard
  <1>5. /\ "done" \in CommitmentStatus
        /\ "dropped" \in CommitmentStatus
        /\ "in_progress" \in CommitmentStatus
    BY DEF CommitmentStatus
  <1>6. QED
    BY <1>2, <1>3, <1>4, <1>5 DEF Apply, heard

\* An answer leaves a row.
LEMMA AnsweredType ==
    ASSUME NEW row \in Row, NEW answer \in Answer, NEW settled \in BOOLEAN
    PROVE  Answered(row, answer, settled) \in Row
  <1>1. answer.due \in Days \cup {None} /\ answer.owner \in People \cup {None}
    BY DEF Answer
  <1>2. QED
    BY <1>1 DEF Answered, Row, CommitmentStatus

\* An item is saved as a row.
LEMMA SavedRowType ==
    ASSUME NEW item \in Item, NEW meeting \in Meetings
    PROVE  SavedRow(item, meeting) \in Row
  BY DEF SavedRow, Item, Row, CommitmentStatus

\* What a worker holds stays well formed as runs and rows are added.
LEMMA JobGrows ==
    ASSUME NEW job, NEW m \in Nat, NEW n \in Nat, NEW mm \in Nat, NEW nn \in Nat,
           JobOK(job, m, n), m <= mm, n <= nn
    PROVE  JobOK(job, mm, nn)
  BY DEF JobOK

\* A step that changes one worker's job leaves every job well formed.
LEMMA JobsStep ==
    ASSUME TypeOK, NEW w \in Workers, NEW job,
           jobs' = [jobs EXCEPT ![w] = job],
           Len(runs') \in Nat, Len(rows') \in Nat,
           Len(runs) <= Len(runs'), Len(rows) <= Len(rows'),
           job = Idle \/ JobOK(job, Len(runs'), Len(rows'))
    PROVE  /\ DOMAIN jobs' = Workers
           /\ \A v \in Workers :
                jobs'[v] = Idle \/ JobOK(jobs'[v], Len(runs'), Len(rows'))
  <1>1. DOMAIN jobs' = Workers
    BY DEF TypeOK
  <1>2. Len(runs) \in Nat /\ Len(rows) \in Nat
    BY DEF TypeOK
  <1>3. ASSUME NEW v \in Workers
        PROVE  jobs'[v] = Idle \/ JobOK(jobs'[v], Len(runs'), Len(rows'))
    <2>1. CASE v = w
      BY <2>1 DEF TypeOK
    <2>2. CASE v # w
      <3>1. jobs'[v] = jobs[v]
        BY <2>2 DEF TypeOK
      <3>2. jobs[v] = Idle \/ JobOK(jobs[v], Len(runs), Len(rows))
        BY DEF TypeOK
      <3>3. QED
        BY <1>2, <3>1, <3>2, JobGrows
    <2>3. QED
      BY <2>1, <2>2
  <1>4. QED
    BY <1>1, <1>3

\* A step that keeps every clarification's commitment keeps every reply well
\* formed.
LEMMA RepliesStay ==
    ASSUME TypeOK, UNCHANGED replies,
           DOMAIN clars \subseteq DOMAIN clars',
           \A k \in DOMAIN clars : clars'[k].commitment = clars[k].commitment
    PROVE  /\ DOMAIN replies' = Handlers
           /\ \A h \in Handlers : replies'[h] = Idle \/ ReplyOK(replies'[h], clars')
  BY DEF TypeOK, ReplyOK

\* A step that changes one worker's job and at most the runs table keeps the
\* types.
LEMMA RunOnlyStep ==
    ASSUME TypeOK, NEW w \in Workers, NEW job,
           UNCHANGED <<rows, mentions, events, decided, clars, replies, folded>>,
           jobs' = [jobs EXCEPT ![w] = job],
           runs' \in Seq([meeting : Meetings, status : RunStatus]),
           Len(runs) <= Len(runs'),
           job = Idle \/ JobOK(job, Len(runs'), Len(rows))
    PROVE  TypeOK'
  <1>1. Len(runs) \in Nat /\ Len(runs') \in Nat /\ Len(rows) \in Nat
    BY DEF TypeOK
  <1>2. /\ DOMAIN jobs' = Workers
        /\ \A v \in Workers :
             jobs'[v] = Idle \/ JobOK(jobs'[v], Len(runs'), Len(rows'))
    <2>1. rows' = rows
      OBVIOUS
    <2>2. Len(rows') \in Nat /\ Len(rows) <= Len(rows')
      BY <1>1, <2>1
    <2>3. job = Idle \/ JobOK(job, Len(runs'), Len(rows'))
      BY <2>1
    <2>4. QED
      BY <1>1, <2>2, <2>3, JobsStep
  <1>3. /\ DOMAIN replies' = Handlers
        /\ \A h \in Handlers : replies'[h] = Idle \/ ReplyOK(replies'[h], clars')
    BY RepliesStay
  <1>4. events' \subseteq [run : 1..Len(runs'), commitment : 1..Len(rows'), type : EventType]
    <2>1. events \subseteq [run : 1..Len(runs), commitment : 1..Len(rows), type : EventType]
      BY DEF TypeOK, RowIds
    <2>2. 1..Len(runs) \subseteq 1..Len(runs')
      BY <1>1
    <2>3. QED
      BY <2>1, <2>2
  <1>5. /\ rows' \in Seq(Row)
        /\ mentions' \in Seq([Meetings -> MentionOutcome \cup {None}])
        /\ Len(mentions') = Len(rows')
        /\ decided' \subseteq Meetings
        /\ folded' \subseteq Meetings \X Texts
    BY DEF TypeOK
  <1>6. /\ DOMAIN clars' \subseteq ClarificationKey
        /\ \A k \in DOMAIN clars' : /\ clars'[k] \in Clarification
                                   /\ clars'[k].commitment \in 1..Len(rows') \cup {None}
    BY DEF TypeOK, RowIds
  <1>7. QED
    BY <1>2, <1>3, <1>4, <1>5, <1>6 DEF TypeOK, RowIds

-----------------------------------------------------------------------------
(***************************************************************************)
(* Every step of a run keeps the types.                                    *)
(***************************************************************************)

\* The fields an action changes in a job, spelled out.
LEMMA JobFields ==
    ASSUME NEW job, NEW m \in Nat, NEW n \in Nat, JobOK(job, m, n),
           NEW phase, NEW seen, NEW extracted
    PROVE  /\ [job EXCEPT !.phase = phase] =
                 [phase |-> phase, run |-> job.run, items |-> job.items,
                  questions |-> job.questions, decisions |-> job.decisions,
                  seen |-> job.seen, extracted |-> job.extracted]
           /\ [job EXCEPT !.phase = phase, !.seen = seen] =
                 [phase |-> phase, run |-> job.run, items |-> job.items,
                  questions |-> job.questions, decisions |-> job.decisions,
                  seen |-> seen, extracted |-> job.extracted]
           /\ [job EXCEPT !.phase = phase, !.extracted = extracted] =
                 [phase |-> phase, run |-> job.run, items |-> job.items,
                  questions |-> job.questions, decisions |-> job.decisions,
                  seen |-> job.seen, extracted |-> extracted]
  <1>1. job = [phase |-> job.phase, run |-> job.run, items |-> job.items,
               questions |-> job.questions, decisions |-> job.decisions,
               seen |-> job.seen, extracted |-> job.extracted]
    BY DEF JobOK
  <1> DEFINE moved == [job EXCEPT !.phase = phase]
  <1>2. moved =
                 [phase |-> phase, run |-> job.run, items |-> job.items,
                  questions |-> job.questions, decisions |-> job.decisions,
                  seen |-> job.seen, extracted |-> job.extracted]
    BY <1>1
  <1>3. [job EXCEPT !.phase = phase, !.seen = seen] =
                 [phase |-> phase, run |-> job.run, items |-> job.items,
                  questions |-> job.questions, decisions |-> job.decisions,
                  seen |-> seen, extracted |-> job.extracted]
    <2>1. [job EXCEPT !.phase = phase, !.seen = seen] = [moved EXCEPT !.seen = seen]
      OBVIOUS
    <2> HIDE DEF moved
    <2>2. QED
      BY <1>2, <2>1
  <1>4. [job EXCEPT !.phase = phase, !.extracted = extracted] =
                 [phase |-> phase, run |-> job.run, items |-> job.items,
                  questions |-> job.questions, decisions |-> job.decisions,
                  seen |-> job.seen, extracted |-> extracted]
    <2>1. [job EXCEPT !.phase = phase, !.extracted = extracted] = [moved EXCEPT !.extracted = extracted]
      OBVIOUS
    <2> HIDE DEF moved
    <2>2. QED
      BY <1>2, <2>1
  <1>5. QED
    BY <1>2, <1>3, <1>4

LEMMA JobItems ==
    ASSUME NEW job, NEW m \in Nat, NEW n \in Nat, JobOK(job, m, n),
           NEW phase, NEW seen, NEW items
    PROVE  [job EXCEPT !.phase = phase, !.seen = seen, !.items = items] =
             [phase |-> phase, run |-> job.run, items |-> items,
              questions |-> job.questions, decisions |-> job.decisions,
              seen |-> seen, extracted |-> job.extracted]
  <1> DEFINE moved == [job EXCEPT !.phase = phase, !.seen = seen]
  <1>1. moved = [phase |-> phase, run |-> job.run, items |-> job.items,
                 questions |-> job.questions, decisions |-> job.decisions,
                 seen |-> seen, extracted |-> job.extracted]
    BY JobFields
  <1>2. [job EXCEPT !.phase = phase, !.seen = seen, !.items = items] =
          [moved EXCEPT !.items = items]
    OBVIOUS
  <1> HIDE DEF moved
  <1>3. QED
    BY <1>1, <1>2

LEMMA SubmitType ==
    ASSUME TypeOK, NEW w \in Workers, NEW meeting \in Meetings, Submit(w, meeting)
    PROVE  TypeOK'
  <1>1. PICK found \in Extractions[meeting] : \E asked \in AskedFor(found.items) :
          jobs' = [jobs EXCEPT ![w] =
                    [phase |-> "resolved", run |-> Len(runs) + 1,
                     items |-> found.items, questions |-> asked,
                     decisions |-> found.decisions, seen |-> <<>>,
                     extracted |-> FALSE]]
    BY DEF Submit
  <1>2. PICK asked \in AskedFor(found.items) :
          jobs' = [jobs EXCEPT ![w] =
                    [phase |-> "resolved", run |-> Len(runs) + 1,
                     items |-> found.items, questions |-> asked,
                     decisions |-> found.decisions, seen |-> <<>>,
                     extracted |-> FALSE]]
    BY <1>1
  <1> DEFINE job == [phase |-> "resolved", run |-> Len(runs) + 1,
                     items |-> found.items, questions |-> asked,
                     decisions |-> found.decisions, seen |-> <<>>,
                     extracted |-> FALSE]
  <1>3. found.items \in Seq(Item) /\ found.decisions \in BOOLEAN
    BY ExtractionsAssumption DEF Extraction
  <1>4. asked \subseteq Question
    BY <1>3 DEF AskedFor, QuestionsFor, Question
  <1>5. /\ runs' \in Seq([meeting : Meetings, status : RunStatus])
        /\ Len(runs') = Len(runs) + 1
        /\ Len(runs) \in Nat
        /\ Len(rows) \in Nat
    <2>1. runs \in Seq([meeting : Meetings, status : RunStatus])
      BY DEF TypeOK
    <2>2. [meeting |-> meeting, status |-> "running"]
            \in [meeting : Meetings, status : RunStatus]
      BY DEF RunStatus
    <2>3. runs' = Append(runs, [meeting |-> meeting, status |-> "running"])
      BY DEF Submit
    <2>4. QED
      BY <2>1, <2>2, <2>3 DEF TypeOK
  <1>6. JobOK(job, Len(runs'), Len(rows))
    BY <1>3, <1>4, <1>5 DEF JobOK
  <1>7. UNCHANGED <<rows, mentions, events, decided, clars, replies, folded>>
    BY DEF Submit
  <1>8. jobs' = [jobs EXCEPT ![w] = job] /\ Len(runs) <= Len(runs')
    BY <1>2, <1>5
  <1> HIDE DEF job
  <1>9. QED
    BY <1>5, <1>6, <1>7, <1>8, RunOnlyStep

\* A worker that is not idle holds a well formed job.
LEMMA BusyJob ==
    ASSUME TypeOK, NEW w \in Workers, jobs[w].phase # "idle"
    PROVE  /\ JobOK(jobs[w], Len(runs), Len(rows))
           /\ Len(runs) \in Nat
           /\ Len(rows) \in Nat
           /\ MeetingOf(jobs[w].run) \in Meetings
  <1>1. JobOK(jobs[w], Len(runs), Len(rows))
    BY DEF TypeOK, Idle
  <1>2. runs \in Seq([meeting : Meetings, status : RunStatus]) /\ Len(rows) \in Nat
    BY DEF TypeOK
  <1>3. jobs[w].run \in 1..Len(runs)
    BY <1>1 DEF JobOK
  <1>4. runs[jobs[w].run] \in [meeting : Meetings, status : RunStatus]
    BY <1>2, <1>3, ElementOfSeq
  <1>5. QED
    BY <1>1, <1>2, <1>4 DEF MeetingOf

LEMMA HistorySkipType ==
    ASSUME TypeOK, NEW w \in Workers, HistorySkip(w)
    PROVE  TypeOK'
  <1> DEFINE job == [jobs[w] EXCEPT !.phase = "reconciled"]
  <1>1. JobOK(jobs[w], Len(runs), Len(rows))
    BY BusyJob DEF HistorySkip
  <1>2. JobOK(job, Len(runs), Len(rows))
    <2>1. job = [phase |-> "reconciled", run |-> jobs[w].run, items |-> jobs[w].items,
                 questions |-> jobs[w].questions, decisions |-> jobs[w].decisions,
                 seen |-> jobs[w].seen, extracted |-> jobs[w].extracted]
      BY <1>1, BusyJob, JobFields DEF HistorySkip
    <2> HIDE DEF job
    <2>2. QED
      BY <1>1, <2>1 DEF JobOK
  <1>3. /\ UNCHANGED <<rows, mentions, events, decided, clars, replies, folded>>
        /\ runs' = runs
        /\ jobs' = [jobs EXCEPT ![w] = job]
    BY DEF HistorySkip
  <1>4. runs' \in Seq([meeting : Meetings, status : RunStatus]) /\ Len(runs) <= Len(runs')
    BY <1>3 DEF TypeOK
  <1> HIDE DEF job
  <1>5. QED
    BY <1>2, <1>3, <1>4, RunOnlyStep

LEMMA HistoryLoadType ==
    ASSUME TypeOK, NEW w \in Workers, HistoryLoad(w)
    PROVE  TypeOK'
  <1> DEFINE open == OpenCommitments(MeetingOf(jobs[w].run))
             job == [jobs[w] EXCEPT !.phase = "reading", !.seen = [c \in open |-> rows[c]]]
  <1>1. JobOK(jobs[w], Len(runs), Len(rows))
    BY BusyJob DEF HistoryLoad
  <1>2. open \subseteq 1..Len(rows) /\ rows \in Seq(Row)
    BY DEF OpenCommitments, RowIds, TypeOK
  <1>3. \A c \in open : rows[c] \in Row
    BY <1>2
  <1>4. JobOK(job, Len(runs), Len(rows))
    <2> HIDE DEF open
    <2>1. job = [phase |-> "reading", run |-> jobs[w].run, items |-> jobs[w].items,
                 questions |-> jobs[w].questions, decisions |-> jobs[w].decisions,
                 seen |-> [c \in open |-> rows[c]], extracted |-> jobs[w].extracted]
      BY <1>1, BusyJob, JobFields DEF HistoryLoad
    <2> HIDE DEF job
    <2>2. QED
      BY <1>1, <1>2, <1>3, <2>1 DEF JobOK
  <1>5. /\ UNCHANGED <<rows, mentions, events, decided, clars, replies, folded>>
        /\ runs' = runs
        /\ jobs' = [jobs EXCEPT ![w] = job]
    BY DEF HistoryLoad
  <1>6. runs' \in Seq([meeting : Meetings, status : RunStatus]) /\ Len(runs) <= Len(runs')
    BY <1>5 DEF TypeOK
  <1> HIDE DEF job
  <1>7. QED
    BY <1>4, <1>5, <1>6, RunOnlyStep

LEMMA SaveCheckType ==
    ASSUME TypeOK, NEW w \in Workers, SaveCheck(w)
    PROVE  TypeOK'
  <1> DEFINE known == AlreadyExtracted(MeetingOf(jobs[w].run))
             job == [jobs[w] EXCEPT !.phase = "saving", !.extracted = known]
  <1>1. JobOK(jobs[w], Len(runs), Len(rows))
    BY BusyJob DEF SaveCheck
  <1>2. known \in BOOLEAN
    BY DEF AlreadyExtracted
  <1>3. JobOK(job, Len(runs), Len(rows))
    <2> HIDE DEF known
    <2>1. job = [phase |-> "saving", run |-> jobs[w].run, items |-> jobs[w].items,
                 questions |-> jobs[w].questions, decisions |-> jobs[w].decisions,
                 seen |-> jobs[w].seen, extracted |-> known]
      BY <1>1, BusyJob, JobFields DEF SaveCheck
    <2> HIDE DEF job
    <2>2. QED
      BY <1>1, <1>2, <2>1 DEF JobOK
  <1>4. /\ UNCHANGED <<rows, mentions, events, decided, clars, replies, folded>>
        /\ runs' = runs
        /\ jobs' = [jobs EXCEPT ![w] = job]
    BY DEF SaveCheck
  <1>5. runs' \in Seq([meeting : Meetings, status : RunStatus]) /\ Len(runs) <= Len(runs')
    BY <1>4 DEF TypeOK
  <1> HIDE DEF job
  <1>6. QED
    BY <1>3, <1>4, <1>5, RunOnlyStep

\* A run whose row gets its last status while its worker becomes idle.
LEMMA RunEndsType ==
    ASSUME TypeOK, NEW w \in Workers, jobs[w].phase # "idle",
           NEW status \in RunStatus,
           UNCHANGED <<rows, mentions, events, decided, clars, replies, folded>>,
           runs' = [runs EXCEPT ![jobs[w].run].status = status],
           jobs' = [jobs EXCEPT ![w] = Idle]
    PROVE  TypeOK'
  <1>1. runs \in Seq([meeting : Meetings, status : RunStatus])
    BY DEF TypeOK
  <1>2. jobs[w].run \in 1..Len(runs)
    BY BusyJob DEF JobOK
  <1> DEFINE run == [runs[jobs[w].run] EXCEPT !.status = status]
  <1>3. run \in [meeting : Meetings, status : RunStatus]
    <2>1. runs[jobs[w].run] \in [meeting : Meetings, status : RunStatus]
      BY <1>1, <1>2, ElementOfSeq
    <2>2. QED
      BY <2>1
  <1>4. runs' = [runs EXCEPT ![jobs[w].run] = run]
    OBVIOUS
  <1> HIDE DEF run
  <1>5. runs' \in Seq([meeting : Meetings, status : RunStatus]) /\ Len(runs') = Len(runs)
    BY <1>1, <1>2, <1>3, <1>4, ExceptSeq
  <1>6. Len(runs) <= Len(runs')
    BY <1>1, <1>5
  <1>7. QED
    BY <1>5, <1>6, RunOnlyStep

LEMMA SaveRepeatType ==
    ASSUME TypeOK, NEW w \in Workers, SaveRepeat(w)
    PROVE  TypeOK'
  BY RunEndsType DEF SaveRepeat, RunStatus

LEMMA RunFailsType ==
    ASSUME TypeOK, NEW w \in Workers, RunFails(w)
    PROVE  TypeOK'
  BY RunEndsType DEF RunFails, RunStatus

LEMMA RunLostType ==
    ASSUME TypeOK, NEW w \in Workers, RunLost(w)
    PROVE  TypeOK'
  <1>1. runs' \in Seq([meeting : Meetings, status : RunStatus]) /\ Len(runs) <= Len(runs')
    BY DEF TypeOK, RunLost
  <1>2. QED
    BY <1>1, RunOnlyStep DEF RunLost

\* The items that are kept are items.
LEMMA KeptType ==
    ASSUME NEW items \in Seq(Item), NEW gone, NEW kept \in Kept(items, gone)
    PROVE  Picked(items, kept) \in Seq(Item)
  <1> DEFINE left == DOMAIN items \ gone
             n == Cardinality(left)
  <1>1. kept \in [1..n -> left]
    BY DEF Kept
  <1>2. DOMAIN items = 1..Len(items) /\ Len(items) \in Nat
    OBVIOUS
  <1>3. IsFiniteSet(1..Len(items))
    BY <1>2, FS_Interval
  <1>4. IsFiniteSet(left)
    BY <1>2, <1>3, FS_Subset
  <1>5. n \in Nat
    BY <1>4, FS_CardinalityType
  <1> HIDE DEF n
  <1>6. \A i \in 1..n : items[kept[i]] \in Item
    BY <1>1, <1>2, ElementOfSeq
  <1>7. DOMAIN kept = 1..n
    BY <1>1
  <1>8. QED
    BY <1>5, <1>6, <1>7 DEF Picked

\* What the commit of the Historian makes of the job.
LEMMA ReconciledJob ==
    ASSUME TypeOK, NEW w \in Workers, jobs[w].phase = "reading", NEW items
    PROVE  [jobs[w] EXCEPT !.phase = "reconciled", !.seen = <<>>, !.items = items] =
             [phase |-> "reconciled", run |-> jobs[w].run, items |-> items,
              questions |-> jobs[w].questions, decisions |-> jobs[w].decisions,
              seen |-> <<>>, extracted |-> jobs[w].extracted]
  <1>1. JobOK(jobs[w], Len(runs), Len(rows)) /\ Len(runs) \in Nat /\ Len(rows) \in Nat
    BY BusyJob
  <1> DEFINE held == jobs[w]
  <1>2. JobOK(held, Len(runs), Len(rows))
    BY <1>1
  <1> HIDE DEF held
  <1>3. [held EXCEPT !.phase = "reconciled", !.seen = <<>>, !.items = items] =
             [phase |-> "reconciled", run |-> held.run, items |-> items,
              questions |-> held.questions, decisions |-> held.decisions,
              seen |-> <<>>, extracted |-> held.extracted]
    BY <1>1, <1>2, JobItems
  <1>4. QED
    BY <1>3 DEF held

LEMMA ReconcileType ==
    ASSUME TypeOK, NEW w \in Workers, jobs[w].phase = "reading",
           NEW heard \in SUBSET DOMAIN jobs[w].seen,
           NEW verdict \in [heard -> Verdict],
           NEW gone \in SUBSET DOMAIN jobs[w].items,
           NEW kept \in Kept(jobs[w].items, gone),
           Reconcile(w, heard, verdict, gone, kept)
    PROVE  TypeOK'
  <1> DEFINE seen == jobs[w].seen
             meeting == MeetingOf(jobs[w].run)
             silent == {c \in DOMAIN seen \ heard : Owed(seen[c], RunDay[jobs[w].run])}
             fresh == FirstSilences(silent, meeting)
             Edited(c) == IF c \in heard
                            THEN Apply(seen[c], verdict[c], meeting)
                            ELSE [seen[c] EXCEPT !.silence = @ + 1]
  <1>1. /\ JobOK(jobs[w], Len(runs), Len(rows))
        /\ Len(runs) \in Nat
        /\ Len(rows) \in Nat
        /\ meeting \in Meetings
    BY BusyJob
  <1>2. /\ DOMAIN seen \subseteq 1..Len(rows)
        /\ \A c \in DOMAIN seen : seen[c] \in Row
        /\ jobs[w].items \in Seq(Item)
        /\ jobs[w].run \in 1..Len(runs)
    BY <1>1 DEF JobOK
  <1>3. heard \subseteq DOMAIN seen /\ fresh \subseteq DOMAIN seen /\ silent \subseteq DOMAIN seen
    BY DEF FirstSilences
  <1>4. rows' \in Seq(Row) /\ Len(rows') = Len(rows)
    <2>1. \A c \in heard \cup fresh : Edited(c) \in Row
      <3>1. ASSUME NEW c \in heard PROVE Apply(seen[c], verdict[c], meeting) \in Row
        BY <1>1, <1>2, ApplyType
      <3>2. ASSUME NEW c \in fresh PROVE [seen[c] EXCEPT !.silence = @ + 1] \in Row
        <4>1. seen[c] \in Row
          BY <1>2, <1>3
        <4> HIDE DEF seen
        <4>2. QED
          BY <4>1 DEF Row
      <3> HIDE DEF fresh, seen, meeting
      <3>3. QED
        BY <3>1, <3>2
    <2>2. \A c \in 1..Len(rows) : rows[c] \in Row
      BY ElementOfSeq DEF TypeOK
    <2>3. \A c \in heard \cup fresh : c \in 1..Len(rows) /\ seen[c] \in Row
      BY <1>2, <1>3
    <2>4. rows' = [c \in 1..Len(rows) |->
                     IF c \in heard \cup fresh
                       THEN Flush(rows[c], seen[c], Edited(c)) ELSE rows[c]]
      BY DEF Reconcile, RowIds
    <2> HIDE DEF fresh, seen, Edited
    <2>5. \A c \in heard \cup fresh : Flush(rows[c], seen[c], Edited(c)) \in Row
      BY <2>1, <2>2, <2>3, FlushType
    <2>6. QED
      BY <1>1, <2>2, <2>4, <2>5
  <1>5. /\ mentions' \in Seq([Meetings -> MentionOutcome \cup {None}])
        /\ Len(mentions') = Len(rows)
    <2>1. \A c \in 1..Len(rows) : mentions[c] \in [Meetings -> MentionOutcome \cup {None}]
      BY ElementOfSeq DEF TypeOK
    <2>2. \A c \in heard : verdict[c].outcome \in MentionOutcome
      BY OutcomesAssumption DEF Verdict
    <2>3. "unmentioned" \in MentionOutcome
      BY DEF MentionOutcome
    <2>4. mentions' = [c \in 1..Len(rows) |->
                         IF c \in heard THEN Record(mentions[c], meeting, verdict[c].outcome)
                         ELSE IF c \in silent THEN Record(mentions[c], meeting, "unmentioned")
                         ELSE mentions[c]]
      BY DEF Reconcile, RowIds
    <2> HIDE DEF silent, meeting
    <2>5. \A c \in 1..Len(rows), o \in MentionOutcome :
            Record(mentions[c], meeting, o) \in [Meetings -> MentionOutcome \cup {None}]
      BY <2>1 DEF Record
    <2>6. QED
      BY <1>1, <2>1, <2>2, <2>3, <2>4, <2>5
  <1>6. events' \subseteq [run : 1..Len(runs), commitment : 1..Len(rows), type : EventType]
    <2>1. events \subseteq [run : 1..Len(runs), commitment : 1..Len(rows), type : EventType]
      BY DEF TypeOK, RowIds
    <2>2. \A o : EventOf(o) \in EventType
      BY DEF EventOf, EventType
    <2>3. "unmentioned" \in EventType
      BY DEF EventType
    <2>4. \A c \in heard \cup fresh : c \in 1..Len(rows)
      BY <1>2, <1>3
    <2>5. events' = events
            \cup {[run |-> jobs[w].run, commitment |-> c,
                   type |-> EventOf(verdict[c].outcome)] : c \in heard}
            \cup {[run |-> jobs[w].run, commitment |-> c,
                   type |-> "unmentioned"] : c \in fresh}
      BY DEF Reconcile
    <2> HIDE DEF fresh
    <2>6. QED
      BY <1>2, <2>1, <2>2, <2>3, <2>4, <2>5
  <1>7. folded' \subseteq Meetings \X Texts
    <2>1. \A i \in gone : jobs[w].items[i] \in Item
      BY <1>2, ElementOfSeq
    <2>2. \A i \in gone : jobs[w].items[i].text \in Texts
      BY <2>1 DEF Item
    <2>3. folded' = folded \cup {<<meeting, jobs[w].items[i].text>> : i \in gone}
      BY DEF Reconcile
    <2> HIDE DEF meeting
    <2>4. QED
      BY <1>1, <2>2, <2>3 DEF TypeOK
  <1> DEFINE items == Picked(jobs[w].items, kept)
             job == [phase |-> "reconciled", run |-> jobs[w].run, items |-> items,
                     questions |-> jobs[w].questions, decisions |-> jobs[w].decisions,
                     seen |-> <<>>, extracted |-> jobs[w].extracted]
  <1>8. JobOK(job, Len(runs'), Len(rows'))
    <2>1. items \in Seq(Item)
      BY <1>2, KeptType
    <2>2. Len(runs') = Len(runs)
      BY DEF Reconcile
    <2> HIDE DEF items
    <2>3. QED
      BY <1>1, <1>4, <2>1, <2>2 DEF JobOK
  <1>9. jobs' = [jobs EXCEPT ![w] = job]
    <2>1. jobs' = [jobs EXCEPT ![w] = [jobs[w] EXCEPT !.phase = "reconciled", !.seen = <<>>,
                                                     !.items = items]]
      BY DEF Reconcile
    <2> HIDE DEF items
    <2>2. [jobs[w] EXCEPT !.phase = "reconciled", !.seen = <<>>, !.items = items] = job
      BY ReconciledJob
    <2> HIDE DEF job
    <2>3. QED
      BY <2>1, <2>2
  <1> HIDE DEF job
  <1>10. UNCHANGED <<decided, runs, clars, replies>>
    BY DEF Reconcile
  <1>11. /\ DOMAIN jobs' = Workers
         /\ \A v \in Workers :
              jobs'[v] = Idle \/ JobOK(jobs'[v], Len(runs'), Len(rows'))
    <2>1. /\ Len(runs') \in Nat
          /\ Len(rows') \in Nat
          /\ Len(runs) <= Len(runs')
          /\ Len(rows) <= Len(rows')
      BY <1>1, <1>4, <1>10
    <2>2. QED
      BY <1>8, <1>9, <2>1, JobsStep
  <1>12. /\ DOMAIN replies' = Handlers
         /\ \A h \in Handlers : replies'[h] = Idle \/ ReplyOK(replies'[h], clars')
    BY <1>10, RepliesStay
  <1>13. /\ DOMAIN clars' \subseteq ClarificationKey
         /\ \A k \in DOMAIN clars' : /\ clars'[k] \in Clarification
                                    /\ clars'[k].commitment \in 1..Len(rows') \cup {None}
    BY <1>4, <1>10 DEF TypeOK, RowIds
  <1>14. /\ decided' \subseteq Meetings
         /\ runs' \in Seq([meeting : Meetings, status : RunStatus])
         /\ events' \subseteq [run : 1..Len(runs'), commitment : 1..Len(rows'), type : EventType]
    BY <1>4, <1>6, <1>10 DEF TypeOK
  <1>15. QED
    BY <1>4, <1>5, <1>7, <1>11, <1>12, <1>13, <1>14 DEF TypeOK, RowIds

LEMMA HistoryCommitType ==
    ASSUME TypeOK, NEW w \in Workers, HistoryCommit(w)
    PROVE  TypeOK'
  <1>1. PICK heard \in SUBSET DOMAIN jobs[w].seen :
          \E verdict \in [heard -> Verdict] :
          \E gone \in SUBSET {i \in DOMAIN jobs[w].items : \E c \in heard :
                                Restates(jobs[w].seen[c], jobs[w].items[i])} :
          \E kept \in Kept(jobs[w].items, gone) :
             Reconcile(w, heard, verdict, gone, kept)
    BY DEF HistoryCommit
  <1>2. PICK verdict \in [heard -> Verdict] :
          \E gone \in SUBSET DOMAIN jobs[w].items :
          \E kept \in Kept(jobs[w].items, gone) :
             Reconcile(w, heard, verdict, gone, kept)
    BY <1>1
  <1>3. PICK gone \in SUBSET DOMAIN jobs[w].items :
          \E kept \in Kept(jobs[w].items, gone) :
             Reconcile(w, heard, verdict, gone, kept)
    BY <1>2
  <1>4. jobs[w].phase = "reading"
    BY DEF HistoryCommit
  <1>5. QED
    BY <1>3, <1>4, ReconcileType

\* A question becomes a clarification about a saved row, or about none.
LEMMA SavedQuestionType ==
    ASSUME NEW question \in Question, NEW before \in Nat, NEW saved \in Nat
    PROVE  /\ SavedQuestion(question, before, saved) \in Clarification
           /\ SavedQuestion(question, before, saved).commitment
                \in 1..(before + saved) \cup {None}
  <1> DEFINE c == IF question.index \in 1..saved THEN before + question.index ELSE None
  <1>1. question.index \in Nat /\ question.about \in Texts
    BY DEF Question
  <1>2. c \in 1..(before + saved) \cup {None} /\ c \in Nat \cup {None}
    BY <1>1
  <1>3. SavedQuestion(question, before, saved) =
          [commitment |-> c, about |-> question.about, status |-> "open", answers |-> 0]
    BY DEF SavedQuestion
  <1> HIDE DEF c
  <1>4. QED
    BY <1>1, <1>2, <1>3 DEF Clarification

LEMMA SaveResultsType ==
    ASSUME TypeOK, NEW w \in Workers, SaveResults(w)
    PROVE  TypeOK'
  <1> DEFINE items == jobs[w].items
             questions == jobs[w].questions
             run == jobs[w].run
             meeting == MeetingOf(run)
             saved == Len(items)
             before == Len(rows)
             asked == {KeyOf(run, q) : q \in questions}
             status == IF questions # {} THEN "awaiting_human" ELSE "succeeded"
  <1>1. /\ JobOK(jobs[w], Len(runs), Len(rows))
        /\ Len(runs) \in Nat
        /\ before \in Nat
        /\ meeting \in Meetings
    BY BusyJob DEF SaveResults
  <1>2. /\ items \in Seq(Item)
        /\ questions \subseteq Question
        /\ run \in 1..Len(runs)
        /\ saved \in Nat
    BY <1>1 DEF JobOK
  <1>3. /\ decided' \subseteq Meetings
        /\ folded' \subseteq Meetings \X Texts
        /\ UNCHANGED replies
    BY <1>1 DEF SaveResults, TypeOK
  <1>4. rows' \in Seq(Row) /\ Len(rows') = before + saved
    <2> DEFINE new == [i \in 1..saved |-> SavedRow(items[i], meeting)]
    <2>1. \A i \in 1..saved : SavedRow(items[i], meeting) \in Row
      <3>1. ASSUME NEW i \in 1..saved PROVE items[i] \in Item
        BY <1>2, ElementOfSeq
      <3> HIDE DEF items, saved, meeting
      <3>2. QED
        BY <1>1, <3>1, SavedRowType
    <2>2. rows' = rows \o new
      BY DEF SaveResults
    <2>3. new \in Seq(Row) /\ Len(new) = saved
      <3> HIDE DEF saved, items, meeting
      <3>1. QED
        BY <1>2, <2>1
    <2>4. rows \in Seq(Row)
      BY DEF TypeOK
    <2> HIDE DEF new, saved
    <2>5. QED
      BY <2>2, <2>3, <2>4, ConcatProperties
  <1>5. /\ mentions' \in Seq([Meetings -> MentionOutcome \cup {None}])
        /\ Len(mentions') = before + saved
    <2> DEFINE new == [i \in 1..saved |-> Silent]
               Said == [Meetings -> MentionOutcome \cup {None}]
    <2>1. Silent \in Said
      BY DEF Silent
    <2>2. mentions' = mentions \o new
      BY DEF SaveResults
    <2>3. new \in Seq(Said) /\ Len(new) = saved
      <3> HIDE DEF saved, Said
      <3>1. QED
        BY <1>2, <2>1
    <2>4. mentions \in Seq(Said) /\ Len(mentions) = before
      BY DEF TypeOK
    <2> HIDE DEF new, Said, before, saved
    <2>5. mentions' \in Seq(Said) /\ Len(mentions') = before + saved
      BY <2>2, <2>3, <2>4, ConcatProperties
    <2>6. QED
      BY <2>5 DEF Said
  <1>6. /\ runs' \in Seq([meeting : Meetings, status : RunStatus])
        /\ Len(runs') = Len(runs)
    <2>1. runs' = [runs EXCEPT ![run] = [runs[run] EXCEPT !.status = status]]
      BY DEF SaveResults
    <2>2. runs \in Seq([meeting : Meetings, status : RunStatus])
      BY DEF TypeOK
    <2>3. runs[run] \in [meeting : Meetings, status : RunStatus]
      BY <1>2, <2>2, ElementOfSeq
    <2>4. status \in RunStatus
      BY DEF RunStatus
    <2> HIDE DEF status, run
    <2>5. [runs[run] EXCEPT !.status = status] \in [meeting : Meetings, status : RunStatus]
      BY <2>3, <2>4
    <2>6. QED
      BY <1>2, <2>1, <2>2, <2>5, ExceptSeq
  <1>7. events' \subseteq [run : 1..Len(runs'), commitment : 1..Len(rows'), type : EventType]
    <2>1. events \subseteq [run : 1..Len(runs), commitment : 1..before, type : EventType]
      BY DEF TypeOK, RowIds
    <2>2. events' = events \cup
            {[run |-> run, commitment |-> before + i, type |-> "created"] : i \in 1..saved}
      BY DEF SaveResults
    <2>3. "created" \in EventType
      BY DEF EventType
    <2> HIDE DEF saved, run, before
    <2>4. \A i \in 1..saved : before + i \in 1..(before + saved)
      BY <1>1, <1>2
    <2>5. 1..before \subseteq 1..(before + saved)
      BY <1>1, <1>2
    <2>6. QED
      BY <1>2, <1>4, <1>6, <2>1, <2>2, <2>3, <2>4, <2>5
  <1>8. clars' = [k \in DOMAIN clars \cup asked |->
                    IF k \in DOMAIN clars THEN clars[k]
                    ELSE SavedQuestion(CHOOSE q \in questions : KeyOf(run, q) = k,
                                       before, saved)]
    BY DEF SaveResults
  <1>9. asked \subseteq ClarificationKey
    <2> HIDE DEF run, questions
    <2>1. run \in Nat
      BY <1>1, <1>2
    <2>2. QED
      BY <1>2, <2>1 DEF KeyOf, ClarificationKey, Question
  <1>10. ASSUME NEW k \in asked
         PROVE  (CHOOSE q \in questions : KeyOf(run, q) = k) \in Question
    BY <1>2
  <1>11. /\ DOMAIN clars' \subseteq ClarificationKey
         /\ \A k \in DOMAIN clars' : /\ clars'[k] \in Clarification
                                    /\ clars'[k].commitment \in 1..Len(rows') \cup {None}
    <2>1. /\ DOMAIN clars \subseteq ClarificationKey
          /\ \A k \in DOMAIN clars : /\ clars[k] \in Clarification
                                     /\ clars[k].commitment \in 1..before \cup {None}
      BY DEF TypeOK, RowIds
    <2> HIDE DEF asked, questions, run, before, saved
    <2>2. DOMAIN clars' = DOMAIN clars \cup asked
      BY <1>8
    <2>3. ASSUME NEW k \in DOMAIN clars
          PROVE  clars'[k] \in Clarification /\ clars'[k].commitment \in 1..(before + saved) \cup {None}
      <3>1. clars'[k] = clars[k]
        BY <1>8
      <3>2. QED
        BY <1>1, <1>2, <2>1, <3>1
    <2>4. ASSUME NEW k \in asked, k \notin DOMAIN clars
          PROVE  clars'[k] \in Clarification /\ clars'[k].commitment \in 1..(before + saved) \cup {None}
      <3> DEFINE q == CHOOSE q \in questions : KeyOf(run, q) = k
      <3>1. clars'[k] = SavedQuestion(q, before, saved)
        BY <1>8, <2>4
      <3>2. q \in Question
        BY <1>10
      <3> HIDE DEF q
      <3>3. QED
        BY <1>1, <1>2, <3>1, <3>2, SavedQuestionType
    <2>5. QED
      BY <1>4, <1>9, <2>1, <2>2, <2>3, <2>4
  <1>12. /\ DOMAIN replies' = Handlers
         /\ \A h \in Handlers : replies'[h] = Idle \/ ReplyOK(replies'[h], clars')
    <2> HIDE DEF asked, questions, run, before, saved
    <2>1. DOMAIN clars \subseteq DOMAIN clars' /\ \A k \in DOMAIN clars : clars'[k] = clars[k]
      BY <1>8
    <2>2. QED
      BY <1>3, <2>1, RepliesStay
  <1>13. /\ DOMAIN jobs' = Workers
         /\ \A v \in Workers :
              jobs'[v] = Idle \/ JobOK(jobs'[v], Len(runs'), Len(rows'))
    <2>1. jobs' = [jobs EXCEPT ![w] = Idle]
      BY DEF SaveResults
    <2>2. /\ Len(runs') \in Nat
          /\ Len(rows') \in Nat
          /\ Len(runs) <= Len(runs')
          /\ Len(rows) <= Len(rows')
      BY <1>1, <1>2, <1>4, <1>6
    <2>3. QED
      BY <2>1, <2>2, JobsStep
  <1>14. Len(mentions') = Len(rows')
    BY <1>4, <1>5
  <1> HIDE DEF items, questions, run, meeting, saved, before, asked, status
  <1>15. QED
    BY <1>3, <1>4, <1>5, <1>6, <1>7, <1>11, <1>12, <1>13, <1>14 DEF TypeOK, RowIds

-----------------------------------------------------------------------------
(***************************************************************************)
(* Every step of an answer keeps the types.                                *)
(***************************************************************************)

\* A step that changes at most one handler's reply keeps the types.
LEMMA ReplyOnlyStep ==
    ASSUME TypeOK, NEW h \in Handlers, NEW reply,
           UNCHANGED <<rows, mentions, events, decided, runs, clars, jobs, folded>>,
           replies' = [replies EXCEPT ![h] = reply],
           reply = Idle \/ ReplyOK(reply, clars)
    PROVE  TypeOK'
  <1>1. DOMAIN replies' = Handlers
    BY DEF TypeOK
  <1>2. ASSUME NEW g \in Handlers
        PROVE  replies'[g] = Idle \/ ReplyOK(replies'[g], clars')
    <2>1. clars' = clars
      OBVIOUS
    <2>2. CASE g = h
      BY <2>1, <2>2 DEF TypeOK
    <2>3. CASE g # h
      BY <2>1, <2>3 DEF TypeOK
    <2>4. QED
      BY <2>2, <2>3
  <1>3. QED
    BY <1>1, <1>2 DEF TypeOK, RowIds

LEMMA AnswerOpenType ==
    ASSUME TypeOK, NEW h \in Handlers, NEW k \in DOMAIN clars, NEW answer \in Answer,
           AnswerOpen(h, k, answer)
    PROVE  TypeOK'
  <1> DEFINE reply == [phase |-> "opened", key |-> k, answer |-> answer,
                       row |-> None, settled |-> FALSE]
  <1>1. ReplyOK(reply, clars)
    BY DEF ReplyOK
  <1>2. /\ UNCHANGED <<rows, mentions, events, decided, runs, clars, jobs, folded>>
        /\ replies' = [replies EXCEPT ![h] = reply]
    BY DEF AnswerOpen
  <1> HIDE DEF reply
  <1>3. QED
    BY <1>1, <1>2, ReplyOnlyStep

\* A handler that is not idle holds a well formed reply.
LEMMA BusyReply ==
    ASSUME TypeOK, NEW h \in Handlers, replies[h].phase # "idle"
    PROVE  ReplyOK(replies[h], clars)
  BY DEF TypeOK, Idle

\* The fields an action changes in a reply, spelled out.
LEMMA ReplyFields ==
    ASSUME NEW reply, NEW stored, ReplyOK(reply, stored),
           NEW phase, NEW row, NEW settled
    PROVE  /\ [reply EXCEPT !.phase = phase, !.row = row] =
                 [phase |-> phase, key |-> reply.key, answer |-> reply.answer,
                  row |-> row, settled |-> reply.settled]
           /\ [reply EXCEPT !.phase = phase, !.settled = settled] =
                 [phase |-> phase, key |-> reply.key, answer |-> reply.answer,
                  row |-> reply.row, settled |-> settled]
  <1>1. reply = [phase |-> reply.phase, key |-> reply.key, answer |-> reply.answer,
                 row |-> reply.row, settled |-> reply.settled]
    BY DEF ReplyOK
  <1> DEFINE moved == [reply EXCEPT !.phase = phase]
  <1>2. moved = [phase |-> phase, key |-> reply.key, answer |-> reply.answer,
                 row |-> reply.row, settled |-> reply.settled]
    BY <1>1
  <1>3. /\ [reply EXCEPT !.phase = phase, !.row = row] = [moved EXCEPT !.row = row]
        /\ [reply EXCEPT !.phase = phase, !.settled = settled] =
             [moved EXCEPT !.settled = settled]
    OBVIOUS
  <1> HIDE DEF moved
  <1>4. QED
    BY <1>2, <1>3

LEMMA AnswerLoadType ==
    ASSUME TypeOK, NEW h \in Handlers, AnswerLoad(h)
    PROVE  TypeOK'
  <1> DEFINE held == replies[h]
             c == clars[held.key].commitment
             row == IF c = None THEN None ELSE rows[c]
             reply == [held EXCEPT !.phase = "loaded", !.row = row]
  <1>1. ReplyOK(held, clars)
    BY BusyReply DEF AnswerLoad
  <1>2. IF c = None THEN row = None ELSE row \in Row
    <2>1. c \in 1..Len(rows) \cup {None} /\ rows \in Seq(Row)
      BY <1>1 DEF TypeOK, RowIds, ReplyOK
    <2> HIDE DEF c
    <2>2. QED
      BY <2>1, ElementOfSeq
  <1>3. /\ UNCHANGED <<rows, mentions, events, decided, runs, clars, jobs, folded>>
        /\ replies' = [replies EXCEPT ![h] = reply]
    BY DEF AnswerLoad
  <1> HIDE DEF row, held
  <1>4. ReplyOK(reply, clars)
    <2>1. reply = [phase |-> "loaded", key |-> held.key, answer |-> held.answer,
                   row |-> row, settled |-> held.settled]
      BY <1>1, ReplyFields
    <2> HIDE DEF reply
    <2>2. QED
      BY <1>1, <1>2, <2>1 DEF ReplyOK
  <1> HIDE DEF reply
  <1>5. QED
    BY <1>3, <1>4, ReplyOnlyStep

LEMMA AnswerCheckType ==
    ASSUME TypeOK, NEW h \in Handlers, AnswerCheck(h)
    PROVE  TypeOK'
  <1> DEFINE settled == OpenBeside(replies[h].key) = {}
             held == replies[h]
             reply == [held EXCEPT !.phase = "checked", !.settled = settled]
  <1>1. ReplyOK(held, clars)
    BY BusyReply DEF AnswerCheck
  <1>2. /\ UNCHANGED <<rows, mentions, events, decided, runs, clars, jobs, folded>>
        /\ replies' = [replies EXCEPT ![h] = reply]
    BY DEF AnswerCheck
  <1>3. settled \in BOOLEAN
    OBVIOUS
  <1> HIDE DEF settled, held
  <1>4. ReplyOK(reply, clars)
    <2>1. reply = [phase |-> "checked", key |-> held.key, answer |-> held.answer,
                   row |-> held.row, settled |-> settled]
      BY <1>1, ReplyFields
    <2> HIDE DEF reply
    <2>2. held.phase = "loaded"
      BY DEF AnswerCheck, held
    <2>3. QED
      BY <1>1, <1>3, <2>1, <2>2 DEF ReplyOK
  <1> HIDE DEF reply
  <1>5. QED
    BY <1>2, <1>4, ReplyOnlyStep

LEMMA AnswerRollbackType ==
    ASSUME TypeOK, NEW h \in Handlers, AnswerRollback(h)
    PROVE  TypeOK'
  BY ReplyOnlyStep DEF AnswerRollback

LEMMA AnswerCommitType ==
    ASSUME TypeOK, NEW h \in Handlers, AnswerCommit(h)
    PROVE  TypeOK'
  <1> DEFINE reply == replies[h]
             k == reply.key
             c == clars[k].commitment
             status == IF reply.answer.dismiss THEN "abandoned" ELSE "resolved"
             answered == Answered(reply.row, reply.answer, reply.settled)
  <1>1. ReplyOK(reply, clars)
    BY BusyReply DEF AnswerCommit
  <1>2. /\ k \in DOMAIN clars
        /\ reply.answer \in Answer
        /\ reply.settled \in BOOLEAN
        /\ c # None => reply.row \in Row
    BY <1>1 DEF ReplyOK, AnswerCommit
  <1>3. c \in 1..Len(rows) \cup {None}
    BY <1>2 DEF TypeOK, RowIds
  <1>4. rows' \in Seq(Row) /\ Len(rows') = Len(rows)
    <2>1. rows \in Seq(Row)
      BY DEF TypeOK
    <2>2. CASE c = None
      BY <2>1, <2>2 DEF AnswerCommit
    <2>3. CASE c # None
      <3>1. rows' = [rows EXCEPT ![c] = Flush(rows[c], reply.row, answered)]
        BY <2>3 DEF AnswerCommit
      <3>2. answered \in Row
        BY <1>2, <2>3, AnsweredType
      <3>3. c \in 1..Len(rows) /\ rows[c] \in Row /\ reply.row \in Row
        BY <1>2, <1>3, <2>1, <2>3, ElementOfSeq
      <3> HIDE DEF c, answered, reply
      <3>4. Flush(rows[c], reply.row, answered) \in Row
        BY <3>2, <3>3, FlushType
      <3>5. QED
        BY <2>1, <3>1, <3>3, <3>4, ExceptSeq
    <2>4. QED
      BY <2>2, <2>3
  <1>5. /\ DOMAIN clars' = DOMAIN clars
        /\ \A q \in DOMAIN clars : /\ clars'[q] \in Clarification
                                   /\ clars'[q].commitment = clars[q].commitment
    <2> DEFINE asked == clars[k]
               closed == [asked EXCEPT !.status = status, !.answers = @ + 1]
    <2>1. clars' = [clars EXCEPT ![k] = closed]
      BY DEF AnswerCommit
    <2>2. asked \in Clarification
      BY <1>2 DEF TypeOK
    <2>3. closed \in Clarification /\ closed.commitment = asked.commitment
      <3>1. status \in {"open", "resolved", "abandoned"}
        OBVIOUS
      <3>2. asked.answers + 1 \in Nat
        BY <2>2 DEF Clarification
      <3> HIDE DEF asked, status, k
      <3> DEFINE marked == [asked EXCEPT !.status = status]
      <3>3. marked \in Clarification /\ marked.commitment = asked.commitment
        BY <2>2, <3>1 DEF Clarification
      <3>4. closed = [marked EXCEPT !.answers = asked.answers + 1]
        OBVIOUS
      <3> HIDE DEF marked, closed
      <3>5. QED
        BY <3>2, <3>3, <3>4 DEF Clarification
    <2>4. \A q \in DOMAIN clars : clars[q] \in Clarification
      BY DEF TypeOK
    <2> HIDE DEF closed, k
    <2>5. QED
      BY <1>2, <2>1, <2>3, <2>4
  <1>6. /\ DOMAIN replies' = Handlers
        /\ \A g \in Handlers : replies'[g] = Idle \/ ReplyOK(replies'[g], clars')
    <2>1. replies' = [replies EXCEPT ![h] = Idle] /\ DOMAIN replies = Handlers
      BY DEF AnswerCommit, TypeOK
    <2>2. ASSUME NEW g \in Handlers, g # h
          PROVE  replies'[g] = Idle \/ ReplyOK(replies'[g], clars')
      <3>1. replies'[g] = replies[g]
        BY <2>1, <2>2
      <3>2. replies[g] = Idle \/ ReplyOK(replies[g], clars)
        BY DEF TypeOK
      <3>3. ASSUME ReplyOK(replies[g], clars) PROVE ReplyOK(replies[g], clars')
        BY <1>5, <3>3 DEF ReplyOK
      <3>4. QED
        BY <3>1, <3>2, <3>3
    <2>3. replies'[h] = Idle
      BY <2>1
    <2>4. QED
      BY <2>1, <2>2, <2>3
  <1>7. UNCHANGED <<mentions, events, decided, runs, jobs, folded>>
    BY DEF AnswerCommit
  <1>8. /\ DOMAIN clars' \subseteq ClarificationKey
        /\ \A q \in DOMAIN clars' : /\ clars'[q] \in Clarification
                                   /\ clars'[q].commitment \in 1..Len(rows') \cup {None}
    BY <1>4, <1>5 DEF TypeOK, RowIds
  <1> HIDE DEF reply, k, c, status, answered
  <1>9. QED
    BY <1>4, <1>6, <1>7, <1>8 DEF TypeOK, RowIds

-----------------------------------------------------------------------------
(***************************************************************************)
(* Type correctness.                                                       *)
(***************************************************************************)

LEMMA TypeInit == Init => TypeOK
  <1> SUFFICES ASSUME Init PROVE TypeOK
    OBVIOUS
  <1>1. /\ rows \in Seq(Row) /\ Len(rows) = 0
        /\ mentions \in Seq([Meetings -> MentionOutcome \cup {None}]) /\ Len(mentions) = 0
        /\ runs \in Seq([meeting : Meetings, status : RunStatus])
    BY DEF Init
  <1>2. DOMAIN clars = {}
    BY DEF Init
  <1>3. /\ DOMAIN jobs = Workers /\ \A w \in Workers : jobs[w] = Idle
        /\ DOMAIN replies = Handlers /\ \A h \in Handlers : replies[h] = Idle
    BY DEF Init
  <1>4. events = {} /\ decided = {} /\ folded = {}
    BY DEF Init
  <1>5. QED
    BY <1>1, <1>2, <1>3, <1>4 DEF TypeOK

\* No step of a run or an answer leaves the types.
LEMMA TypeStep == TypeOK /\ [Next]_vars => TypeOK'
  <1> SUFFICES ASSUME TypeOK, [Next]_vars PROVE TypeOK'
    OBVIOUS
  <1>1. ASSUME NEW w \in Workers, RunStep(w) PROVE TypeOK'
    <2>1. ASSUME NEW meeting \in Meetings, Submit(w, meeting) PROVE TypeOK'
      BY <2>1, SubmitType
    <2>2. CASE HistorySkip(w)
      BY <2>2, HistorySkipType
    <2>3. CASE HistoryLoad(w)
      BY <2>3, HistoryLoadType
    <2>4. CASE HistoryCommit(w)
      BY <2>4, HistoryCommitType
    <2>5. CASE SaveCheck(w)
      BY <2>5, SaveCheckType
    <2>6. CASE SaveRepeat(w)
      BY <2>6, SaveRepeatType
    <2>7. CASE SaveResults(w)
      BY <2>7, SaveResultsType
    <2>8. CASE RunFails(w)
      BY <2>8, RunFailsType
    <2>9. CASE RunLost(w)
      BY <2>9, RunLostType
    <2>10. QED
      BY <1>1, <2>1, <2>2, <2>3, <2>4, <2>5, <2>6, <2>7, <2>8, <2>9 DEF RunStep
  <1>2. ASSUME NEW h \in Handlers, AnswerStep(h) PROVE TypeOK'
    <2>1. ASSUME NEW k \in DOMAIN clars, NEW answer \in Answer, AnswerOpen(h, k, answer)
          PROVE  TypeOK'
      BY <2>1, AnswerOpenType
    <2>2. CASE AnswerLoad(h)
      BY <2>2, AnswerLoadType
    <2>3. CASE AnswerCheck(h)
      BY <2>3, AnswerCheckType
    <2>4. CASE AnswerCommit(h)
      BY <2>4, AnswerCommitType
    <2>5. CASE AnswerRollback(h)
      BY <2>5, AnswerRollbackType
    <2>6. QED
      BY <1>2, <2>1, <2>2, <2>3, <2>4, <2>5 DEF AnswerStep
  <1>3. CASE UNCHANGED vars
    BY <1>3 DEF vars, TypeOK, RowIds
  <1>4. QED
    BY <1>1, <1>2, <1>3 DEF Next

\* Every reachable ledger has rows of the right shape, foreign keys that point
\* at rows, and sessions that hold copies of rows: whatever runs and answers
\* interleave (services/persistence.py, api/clarifications.py).
THEOREM TypeCorrect == Spec => []TypeOK
  BY TypeInit, TypeStep, PTL DEF Spec

-----------------------------------------------------------------------------
(***************************************************************************)
(* Owners: no write-back takes an owner away, so what is confirmed is      *)
(* owned.  An answer confirms on the owner of its own copy, which may be   *)
(* stale; OwnersSurvive says that the row still has it.                    *)
(***************************************************************************)

\* Writing back an edit that neither clears an owner nor confirms an unowned
\* copy keeps the row's owner, and keeps it from being confirmed unowned.
LEMMA FlushOwner ==
    ASSUME NEW stored \in Row, NEW loaded \in Row, NEW edited \in Row,
           Knows(loaded, edited), Knows(loaded, stored),
           edited.status = loaded.status \/ edited.status # "confirmed" \/ edited.owner # None,
           stored.status = "confirmed" => stored.owner # None
    PROVE  LET flushed == Flush(stored, loaded, edited)
           IN  /\ Knows(stored, flushed)
               /\ flushed.status = "confirmed" => flushed.owner # None
  <1> DEFINE flushed == Flush(stored, loaded, edited)
  <1>1. /\ flushed.owner = Column(stored.owner, loaded.owner, edited.owner)
        /\ flushed.status = Column(stored.status, loaded.status, edited.status)
    BY DEF Flush
  <1> HIDE DEF flushed
  <1>2. Knows(stored, flushed) /\ (flushed.status = "confirmed" => flushed.owner # None)
    BY <1>1 DEF Column, Knows
  <1>3. QED
    BY <1>2 DEF flushed

\* A verdict leaves the owner alone and confirms nothing.
LEMMA ApplyOwner ==
    ASSUME NEW row \in Row, NEW verdict \in Verdict, NEW meeting \in Meetings
    PROVE  LET edited == Apply(row, verdict, meeting)
           IN  /\ Knows(row, edited)
               /\ edited.status = row.status \/ edited.status # "confirmed"
  <1> DEFINE heard == [row EXCEPT !.lastSeen = meeting, !.silence = 0]
  <1>1. heard \in Row /\ heard.owner = row.owner /\ heard.status = row.status
    BY DEF Row
  <1> DEFINE moved == [heard EXCEPT
                         !.slip = @ + 1,
                         !.originalDue = IF @ = None THEN row.due ELSE @,
                         !.due = IF verdict.due = None THEN @ ELSE verdict.due]
  <1>2. moved.owner = heard.owner /\ moved.status = heard.status
    BY <1>1 DEF Row
  <1>3. \A s : [heard EXCEPT !.status = s].owner = heard.owner
            /\ [heard EXCEPT !.status = s].status = s
    BY <1>1 DEF Row
  <1>4. \/ Apply(row, verdict, meeting) = moved
        \/ Apply(row, verdict, meeting) = heard
        \/ \E s \in {"done", "dropped", "in_progress"} :
             Apply(row, verdict, meeting) = [heard EXCEPT !.status = s]
    BY DEF Apply
  <1> HIDE DEF heard, moved
  <1>5. QED
    BY <1>1, <1>2, <1>3, <1>4 DEF Knows

\* An answer clears no owner and confirms only with one.
LEMMA AnsweredOwner ==
    ASSUME NEW row \in Row, NEW answer \in Answer, NEW settled \in BOOLEAN
    PROVE  LET edited == Answered(row, answer, settled)
           IN  /\ Knows(row, edited)
               /\ edited.status = row.status \/ edited.owner # None
  BY DEF Answered, Knows, Row

\* A step of a worker that takes no owner away, confirms no unowned row and
\* leaves the worker copies of rows as they are keeps OwnersSurvive.
LEMMA OwnersRunStep ==
    ASSUME TypeOK, OwnersSurvive, ConfirmedIsOwned', NEW w \in Workers, NEW job,
           jobs' = [jobs EXCEPT ![w] = job], UNCHANGED replies,
           \A c \in RowIds : c \in RowIds' /\ Knows(rows[c], rows'[c]),
           \A k \in DOMAIN clars : clars'[k].commitment = clars[k].commitment,
           job # Idle => \A c \in DOMAIN job.seen : c \in RowIds /\ Knows(job.seen[c], rows[c])
    PROVE  OwnersSurvive'
  <1>1. ASSUME NEW v \in Workers, jobs'[v] # Idle, NEW c \in DOMAIN jobs'[v].seen
        PROVE  Knows(jobs'[v].seen[c], rows'[c])
    <2>1. CASE v = w
      <3>1. jobs'[v] = job
        BY <2>1 DEF TypeOK
      <3>2. QED
        BY <1>1, <3>1 DEF Knows
    <2>2. CASE v # w
      <3>1. jobs'[v] = jobs[v]
        BY <2>2 DEF TypeOK
      <3>2. c \in RowIds
        BY <1>1, <3>1 DEF TypeOK, JobOK, RowIds
      <3>3. Knows(jobs[v].seen[c], rows[c])
        BY <1>1, <3>1 DEF OwnersSurvive
      <3>4. QED
        BY <3>1, <3>2, <3>3 DEF Knows
    <2>3. QED
      BY <2>1, <2>2
  <1>2. ASSUME NEW h \in Handlers, replies'[h].phase \in {"loaded", "checked"},
               NEW c \in RowIds', clars'[replies'[h].key].commitment = c
        PROVE  Knows(replies'[h].row, rows'[c])
    <2>1. replies'[h] = replies[h]
      OBVIOUS
    <2>2. ReplyOK(replies[h], clars)
      BY <1>2, <2>1, BusyReply
    <2>3. replies[h].key \in DOMAIN clars
      BY <2>2 DEF ReplyOK
    <2>4. clars[replies[h].key].commitment = c
      BY <1>2, <2>1, <2>3
    <2>5. c \in RowIds
      <3>1. c \in Nat
        BY <1>2 DEF RowIds
      <3>2. clars[replies[h].key].commitment \in RowIds \cup {None}
        BY <2>3 DEF TypeOK
      <3>3. QED
        BY <2>4, <3>1, <3>2, RowIdsAssumption
    <2>6. QED
      BY <1>2, <2>1, <2>4, <2>5 DEF OwnersSurvive, Knows
  <1>3. QED
    BY <1>1, <1>2 DEF OwnersSurvive

\* Nothing is confirmed unowned by a step that keeps every row.
LEMMA OwnersQuiet ==
    ASSUME TypeOK, OwnersSurvive, UNCHANGED rows
    PROVE  /\ ConfirmedIsOwned'
           /\ \A c \in RowIds : c \in RowIds' /\ Knows(rows[c], rows'[c])
  BY DEF OwnersSurvive, ConfirmedIsOwned, RowIds, Knows

\* A step of a run that writes no row keeps OwnersSurvive.
LEMMA OwnersQuietRun ==
    ASSUME TypeOK, OwnersSurvive, NEW w \in Workers, NEW job,
           jobs' = [jobs EXCEPT ![w] = job], UNCHANGED <<rows, clars, replies>>,
           job # Idle => \A c \in DOMAIN job.seen : c \in RowIds /\ Knows(job.seen[c], rows[c])
    PROVE  OwnersSurvive'
  <1>1. /\ ConfirmedIsOwned'
        /\ \A c \in RowIds : c \in RowIds' /\ Knows(rows[c], rows'[c])
    BY OwnersQuiet
  <1>2. \A k \in DOMAIN clars : clars'[k].commitment = clars[k].commitment
    OBVIOUS
  <1>3. QED
    BY <1>1, <1>2, OwnersRunStep

\* What a busy worker has seen are rows whose owners survive.
LEMMA SeenSurvives ==
    ASSUME TypeOK, OwnersSurvive, NEW w \in Workers, jobs[w].phase # "idle"
    PROVE  \A c \in DOMAIN jobs[w].seen :
             c \in RowIds /\ jobs[w].seen[c] \in Row /\ Knows(jobs[w].seen[c], rows[c])
  <1>1. JobOK(jobs[w], Len(runs), Len(rows)) /\ jobs[w] # Idle
    BY BusyJob DEF Idle
  <1>2. \A c \in DOMAIN jobs[w].seen : c \in RowIds /\ jobs[w].seen[c] \in Row
    BY <1>1 DEF JobOK, RowIds
  <1>3. \A c \in DOMAIN jobs[w].seen : Knows(jobs[w].seen[c], rows[c])
    BY <1>1 DEF OwnersSurvive
  <1>4. QED
    BY <1>2, <1>3

\* The steps of a run that write no row.
LEMMA QuietRunOwners ==
    ASSUME TypeOK, OwnersSurvive, NEW w \in Workers,
           \/ \E meeting \in Meetings : Submit(w, meeting)
           \/ HistorySkip(w)
           \/ HistoryLoad(w)
           \/ SaveCheck(w)
           \/ SaveRepeat(w)
           \/ RunFails(w)
           \/ RunLost(w)
    PROVE  OwnersSurvive' /\ UNCHANGED rows
  <1>1. ASSUME NEW meeting \in Meetings, Submit(w, meeting) PROVE OwnersSurvive' /\ UNCHANGED rows
    <2>1. PICK found, asked :
            jobs' = [jobs EXCEPT ![w] =
                      [phase |-> "resolved", run |-> Len(runs) + 1,
                       items |-> found.items, questions |-> asked,
                       decisions |-> found.decisions, seen |-> <<>>,
                       extracted |-> FALSE]]
      BY <1>1 DEF Submit
    <2> DEFINE job == [phase |-> "resolved", run |-> Len(runs) + 1,
                       items |-> found.items, questions |-> asked,
                       decisions |-> found.decisions, seen |-> <<>>,
                       extracted |-> FALSE]
    <2>2. jobs' = [jobs EXCEPT ![w] = job] /\ \A c \in DOMAIN job.seen : FALSE
      BY <2>1
    <2>3. UNCHANGED <<rows, clars, replies>>
      BY <1>1 DEF Submit
    <2> HIDE DEF job
    <2>4. QED
      BY <2>2, <2>3, OwnersQuietRun
  <1>2. CASE HistorySkip(w)
    <2> DEFINE job == [jobs[w] EXCEPT !.phase = "reconciled"]
    <2>1. /\ jobs' = [jobs EXCEPT ![w] = job]
          /\ UNCHANGED <<rows, clars, replies>>
          /\ jobs[w].phase = "resolved"
      BY <1>2 DEF HistorySkip
    <2>2. JobOK(jobs[w], Len(runs), Len(rows))
      BY <2>1, BusyJob
    <2>3. job.seen = jobs[w].seen
      BY <2>2 DEF JobOK
    <2> HIDE DEF job
    <2>4. \A c \in DOMAIN job.seen : c \in RowIds /\ Knows(job.seen[c], rows[c])
      BY <2>1, <2>3, SeenSurvives
    <2>5. QED
      BY <2>1, <2>4, OwnersQuietRun
  <1>3. CASE HistoryLoad(w)
    <2> DEFINE open == OpenCommitments(MeetingOf(jobs[w].run))
               job == [jobs[w] EXCEPT !.phase = "reading", !.seen = [c \in open |-> rows[c]]]
    <2>1. /\ jobs' = [jobs EXCEPT ![w] = job]
          /\ UNCHANGED <<rows, clars, replies>>
          /\ jobs[w].phase = "resolved"
      BY <1>3 DEF HistoryLoad
    <2>2. JobOK(jobs[w], Len(runs), Len(rows)) /\ Len(runs) \in Nat /\ Len(rows) \in Nat
      BY <2>1, BusyJob
    <2>3. open \subseteq RowIds
      BY DEF OpenCommitments
    <2> HIDE DEF open
    <2>4. job.seen = [c \in open |-> rows[c]]
      <3>1. job = [phase |-> "reading", run |-> jobs[w].run, items |-> jobs[w].items,
                   questions |-> jobs[w].questions, decisions |-> jobs[w].decisions,
                   seen |-> [c \in open |-> rows[c]], extracted |-> jobs[w].extracted]
        BY <2>2, JobFields
      <3> HIDE DEF job
      <3>2. QED
        BY <3>1
    <2> HIDE DEF job
    <2>5. \A c \in DOMAIN job.seen : c \in RowIds /\ Knows(job.seen[c], rows[c])
      BY <2>3, <2>4 DEF Knows
    <2>6. QED
      BY <2>1, <2>5, OwnersQuietRun
  <1>4. CASE SaveCheck(w)
    <2> DEFINE known == AlreadyExtracted(MeetingOf(jobs[w].run))
               job == [jobs[w] EXCEPT !.phase = "saving", !.extracted = known]
    <2>1. /\ jobs' = [jobs EXCEPT ![w] = job]
          /\ UNCHANGED <<rows, clars, replies>>
          /\ jobs[w].phase = "reconciled"
      BY <1>4 DEF SaveCheck
    <2>2. JobOK(jobs[w], Len(runs), Len(rows)) /\ Len(runs) \in Nat /\ Len(rows) \in Nat
      BY <2>1, BusyJob
    <2> HIDE DEF known
    <2>3. job.seen = jobs[w].seen
      <3>1. job = [phase |-> "saving", run |-> jobs[w].run, items |-> jobs[w].items,
                   questions |-> jobs[w].questions, decisions |-> jobs[w].decisions,
                   seen |-> jobs[w].seen, extracted |-> known]
        BY <2>2, JobFields
      <3> HIDE DEF job
      <3>2. QED
        BY <3>1
    <2> HIDE DEF job
    <2>4. \A c \in DOMAIN job.seen : c \in RowIds /\ Knows(job.seen[c], rows[c])
      BY <2>1, <2>3, SeenSurvives
    <2>5. QED
      BY <2>1, <2>4, OwnersQuietRun
  <1>5. CASE SaveRepeat(w) \/ RunFails(w) \/ RunLost(w)
    <2>1. jobs' = [jobs EXCEPT ![w] = Idle] /\ UNCHANGED <<rows, clars, replies>>
      BY <1>5 DEF SaveRepeat, RunFails, RunLost
    <2>2. QED
      BY <2>1, OwnersQuietRun
  <1>6. QED
    BY <1>1, <1>2, <1>3, <1>4, <1>5

\* The Historian's commit writes verdicts made on copies: the owner an answer
\* gave in the meantime stays.
LEMMA HistoryCommitOwners ==
    ASSUME TypeOK, OwnersSurvive, NEW w \in Workers, HistoryCommit(w)
    PROVE  /\ OwnersSurvive'
           /\ \A c \in RowIds : Knows(rows[c], rows'[c])
  <1>1. PICK heard \in SUBSET DOMAIN jobs[w].seen :
          \E verdict \in [heard -> Verdict] : \E gone, kept :
             Reconcile(w, heard, verdict, gone, kept)
    BY DEF HistoryCommit
  <1>2. PICK verdict \in [heard -> Verdict] : \E gone, kept :
             Reconcile(w, heard, verdict, gone, kept)
    BY <1>1
  <1>3. PICK gone, kept : Reconcile(w, heard, verdict, gone, kept)
    BY <1>2
  <1> DEFINE seen == jobs[w].seen
             meeting == MeetingOf(jobs[w].run)
             silent == {c \in DOMAIN seen \ heard : Owed(seen[c], RunDay[jobs[w].run])}
             fresh == FirstSilences(silent, meeting)
             Edited(c) == IF c \in heard
                            THEN Apply(seen[c], verdict[c], meeting)
                            ELSE [seen[c] EXCEPT !.silence = @ + 1]
  <1>4. jobs[w].phase = "reading"
    BY DEF HistoryCommit
  <1>5. /\ meeting \in Meetings
        /\ \A c \in DOMAIN seen : c \in RowIds /\ seen[c] \in Row /\ Knows(seen[c], rows[c])
    BY <1>4, BusyJob, SeenSurvives
  <1>6. heard \cup fresh \subseteq DOMAIN seen
    BY DEF FirstSilences
  <1>7. rows' = [c \in RowIds |->
                   IF c \in heard \cup fresh
                     THEN Flush(rows[c], seen[c], Edited(c)) ELSE rows[c]]
    BY <1>3 DEF Reconcile
  <1>8. ASSUME NEW c \in heard \cup fresh
        PROVE  /\ Edited(c) \in Row
               /\ Knows(seen[c], Edited(c))
               /\ Edited(c).status = seen[c].status \/ Edited(c).status # "confirmed"
    <2>1. seen[c] \in Row
      BY <1>5, <1>6
    <2>2. CASE c \in heard
      <3>1. Edited(c) = Apply(seen[c], verdict[c], meeting) /\ verdict[c] \in Verdict
        BY <2>2
      <3> HIDE DEF Edited, seen, meeting
      <3> DEFINE edited == Edited(c)
                 loaded == seen[c]
                 said == verdict[c]
      <3>2. edited = Apply(loaded, said, meeting) /\ said \in Verdict /\ loaded \in Row
        BY <2>1, <3>1
      <3> HIDE DEF edited, loaded, said
      <3>3. edited \in Row /\ Knows(loaded, edited)
            /\ (edited.status = loaded.status \/ edited.status # "confirmed")
        BY <1>5, <3>2, ApplyType, ApplyOwner
      <3>4. QED
        BY <3>3 DEF edited, loaded, said
    <2>3. CASE c \notin heard
      <3>1. Edited(c) = [seen[c] EXCEPT !.silence = @ + 1]
        BY <2>3
      <3> HIDE DEF Edited, seen
      <3>2. QED
        BY <2>1, <3>1 DEF Row, Knows
    <2>4. QED
      BY <2>2, <2>3
  <1> HIDE DEF Edited, fresh, silent
  <1>9. ASSUME NEW c \in RowIds
        PROVE  /\ Knows(rows[c], rows'[c])
               /\ rows'[c].status = "confirmed" => rows'[c].owner # None
    <2>1. /\ rows[c] \in Row
          /\ rows[c].status = "confirmed" => rows[c].owner # None
      BY ElementOfSeq DEF TypeOK, RowIds, OwnersSurvive, ConfirmedIsOwned
    <2>2. CASE c \in heard \cup fresh
      <3>1. seen[c] \in Row /\ Knows(seen[c], rows[c])
        BY <1>5, <1>6, <2>2
      <3>2. rows'[c] = Flush(rows[c], seen[c], Edited(c))
        BY <1>7, <2>2
      <3> DEFINE edited == Edited(c)
      <3>3. /\ edited \in Row
            /\ Knows(seen[c], edited)
            /\ edited.status = seen[c].status \/ edited.status # "confirmed"
        BY <1>8, <2>2
      <3> HIDE DEF edited, seen
      <3>4. LET flushed == Flush(rows[c], seen[c], edited)
            IN  /\ Knows(rows[c], flushed)
                /\ flushed.status = "confirmed" => flushed.owner # None
        BY <2>1, <3>1, <3>3, FlushOwner
      <3>5. QED
        BY <3>2, <3>4 DEF edited
    <2>3. CASE c \notin heard \cup fresh
      BY <1>7, <2>1, <2>3 DEF Knows
    <2>4. QED
      BY <2>2, <2>3
  <1>10. RowIds' = RowIds
    <2>1. Len(rows') = Len(rows)
      <3>1. Len(rows) \in Nat
        BY DEF TypeOK
      <3>2. DOMAIN rows' = 1..Len(rows)
        BY <1>7 DEF RowIds
      <3>3. rows' \in Seq(Row)
        BY HistoryCommitType DEF TypeOK
      <3>4. QED
        BY <3>1, <3>2, <3>3
    <2>2. QED
      BY <2>1 DEF RowIds
  <1>11. ConfirmedIsOwned'
    BY <1>9, <1>10 DEF ConfirmedIsOwned
  <1>12. PICK after : jobs' = [jobs EXCEPT ![w] = after] /\ after.seen = <<>>
    <2> DEFINE items == Picked(jobs[w].items, kept)
    <2>1. jobs' = [jobs EXCEPT ![w] = [jobs[w] EXCEPT !.phase = "reconciled", !.seen = <<>>,
                                                     !.items = items]]
      BY <1>3 DEF Reconcile
    <2> HIDE DEF items
    <2>2. [jobs[w] EXCEPT !.phase = "reconciled", !.seen = <<>>, !.items = items] =
             [phase |-> "reconciled", run |-> jobs[w].run, items |-> items,
              questions |-> jobs[w].questions, decisions |-> jobs[w].decisions,
              seen |-> <<>>, extracted |-> jobs[w].extracted]
      BY <1>4, ReconciledJob
    <2>3. QED
      BY <2>1, <2>2
  <1>13. UNCHANGED <<clars, replies>>
    BY <1>3 DEF Reconcile
  <1>14. \A c \in RowIds : c \in RowIds' /\ Knows(rows[c], rows'[c])
    BY <1>9, <1>10
  <1>15. \A c \in DOMAIN after.seen : c \in RowIds /\ Knows(after.seen[c], rows[c])
    BY <1>12
  <1>16. OwnersSurvive'
    BY <1>11, <1>12, <1>13, <1>14, <1>15, OwnersRunStep
  <1>17. QED
    BY <1>9, <1>16

\* Saving adds rows: none is confirmed without an owner.
LEMMA SaveResultsOwners ==
    ASSUME TypeOK, OwnersSurvive, NEW w \in Workers, SaveResults(w)
    PROVE  /\ OwnersSurvive'
           /\ \A c \in RowIds : Knows(rows[c], rows'[c])
  <1> DEFINE items == jobs[w].items
             meeting == MeetingOf(jobs[w].run)
             saved == Len(items)
             new == [i \in 1..saved |-> SavedRow(items[i], meeting)]
  <1>1. /\ JobOK(jobs[w], Len(runs), Len(rows))
        /\ Len(rows) \in Nat
        /\ meeting \in Meetings
    BY BusyJob DEF SaveResults
  <1>2. items \in Seq(Item) /\ saved \in Nat
    BY <1>1 DEF JobOK
  <1>3. ASSUME NEW i \in 1..saved
        PROVE  /\ new[i] \in Row
               /\ new[i].status = "confirmed" => new[i].owner # None
    <2> DEFINE item == items[i]
    <2>1. item \in Item
      BY <1>2, ElementOfSeq
    <2>2. new[i] = SavedRow(item, meeting)
      OBVIOUS
    <2> HIDE DEF item, new, meeting
    <2>3. new[i] \in Row
      BY <1>1, <2>1, <2>2, SavedRowType
    <2>4. new[i].status = "confirmed" => new[i].owner # None
      BY <2>2 DEF SavedRow
    <2>5. QED
      BY <2>3, <2>4
  <1>4. rows' = rows \o new /\ rows \in Seq(Row)
    BY DEF SaveResults, TypeOK
  <1>5. new \in Seq(Row) /\ Len(new) = saved
    <2>1. \A i \in 1..saved : new[i] \in Row
      BY <1>3
    <2>2. DOMAIN new = 1..saved /\ new = [i \in 1..saved |-> new[i]]
      OBVIOUS
    <2> HIDE DEF new, saved
    <2>3. QED
      BY <1>2, <2>1, <2>2
  <1>6. \A i \in 1..saved : new[i].status = "confirmed" => new[i].owner # None
    BY <1>3
  <1> HIDE DEF new, saved
  <1>7. /\ Len(rows') = Len(rows) + saved
        /\ \A c \in 1..Len(rows) : rows'[c] = rows[c]
        /\ \A c \in 1..(Len(rows) + saved) :
             c \notin 1..Len(rows) => rows'[c] = new[c - Len(rows)] /\ c - Len(rows) \in 1..saved
    <2>1. /\ Len(rows \o new) = Len(rows) + saved
          /\ \A c \in 1..(Len(rows) + saved) :
               (rows \o new)[c] = IF c <= Len(rows) THEN rows[c] ELSE new[c - Len(rows)]
      BY <1>4, <1>5, ConcatProperties
    <2>2. QED
      BY <1>1, <1>2, <1>4, <2>1
  <1>8. ConfirmedIsOwned'
    <2>1. ASSUME NEW c \in RowIds', rows'[c].status = "confirmed"
          PROVE  rows'[c].owner # None
      <3>1. CASE c \in 1..Len(rows)
        BY <1>7, <2>1, <3>1 DEF OwnersSurvive, ConfirmedIsOwned, RowIds
      <3>2. CASE c \notin 1..Len(rows)
        BY <1>6, <1>7, <2>1, <3>2 DEF RowIds
      <3>3. QED
        BY <3>1, <3>2
    <2>2. QED
      BY <2>1 DEF ConfirmedIsOwned
  <1>9. \A c \in RowIds : c \in RowIds' /\ Knows(rows[c], rows'[c])
    BY <1>1, <1>2, <1>7 DEF RowIds, Knows
  <1>10. \A k \in DOMAIN clars : clars'[k].commitment = clars[k].commitment
    BY DEF SaveResults
  <1>11. jobs' = [jobs EXCEPT ![w] = Idle] /\ UNCHANGED replies
    BY DEF SaveResults
  <1>12. OwnersSurvive'
    BY <1>8, <1>9, <1>10, <1>11, OwnersRunStep
  <1>13. QED
    BY <1>9, <1>12

\* A step of an answer that takes no owner away, confirms no unowned row and
\* leaves its session idle or with a copy of a row keeps OwnersSurvive.
LEMMA OwnersReplyStep ==
    ASSUME TypeOK, OwnersSurvive, ConfirmedIsOwned', NEW h \in Handlers, NEW reply,
           replies' = [replies EXCEPT ![h] = reply], UNCHANGED jobs,
           RowIds' = RowIds,
           \A c \in RowIds : Knows(rows[c], rows'[c]),
           \A k \in DOMAIN clars : clars'[k].commitment = clars[k].commitment,
           reply.phase \in {"loaded", "checked"} =>
             /\ reply.key \in DOMAIN clars
             /\ \A c \in RowIds : clars[reply.key].commitment = c =>
                  Knows(reply.row, rows[c])
    PROVE  OwnersSurvive'
  <1>1. ASSUME NEW v \in Workers, jobs'[v] # Idle, NEW c \in DOMAIN jobs'[v].seen
        PROVE  Knows(jobs'[v].seen[c], rows'[c])
    <2>1. c \in RowIds /\ Knows(jobs[v].seen[c], rows[c])
      BY <1>1 DEF TypeOK, JobOK, RowIds, OwnersSurvive
    <2>2. QED
      BY <2>1 DEF Knows
  <1>2. ASSUME NEW g \in Handlers, replies'[g].phase \in {"loaded", "checked"},
               NEW c \in RowIds, clars'[replies'[g].key].commitment = c
        PROVE  Knows(replies'[g].row, rows'[c])
    <2>1. CASE g = h
      <3>1. replies'[g] = reply
        BY <2>1 DEF TypeOK
      <3>2. Knows(reply.row, rows[c])
        BY <1>2, <3>1
      <3>3. QED
        BY <3>1, <3>2 DEF Knows
    <2>2. CASE g # h
      <3>1. replies'[g] = replies[g]
        BY <2>2 DEF TypeOK
      <3>2. ReplyOK(replies[g], clars)
        BY <1>2, <3>1, BusyReply
      <3>3. clars[replies[g].key].commitment = c
        BY <1>2, <3>1, <3>2 DEF ReplyOK
      <3>4. Knows(replies[g].row, rows[c])
        BY <1>2, <3>1, <3>3 DEF OwnersSurvive
      <3>5. QED
        BY <3>1, <3>4 DEF Knows
    <2>3. QED
      BY <2>1, <2>2
  <1>3. QED
    BY <1>1, <1>2 DEF OwnersSurvive

\* The steps of an answer before its commit write no row.
LEMMA QuietAnswerOwners ==
    ASSUME TypeOK, OwnersSurvive, NEW h \in Handlers,
           \/ \E k \in DOMAIN clars, answer \in Answer : AnswerOpen(h, k, answer)
           \/ AnswerLoad(h)
           \/ AnswerCheck(h)
           \/ AnswerRollback(h)
    PROVE  OwnersSurvive' /\ UNCHANGED rows
  <1>1. ASSUME NEW reply, replies' = [replies EXCEPT ![h] = reply],
               UNCHANGED <<rows, clars, jobs>>,
               reply.phase \in {"loaded", "checked"} =>
                 /\ reply.key \in DOMAIN clars
                 /\ \A c \in RowIds : clars[reply.key].commitment = c =>
                      Knows(reply.row, rows[c])
        PROVE  OwnersSurvive' /\ UNCHANGED rows
    <2>1. /\ ConfirmedIsOwned'
          /\ \A c \in RowIds : Knows(rows[c], rows'[c])
      BY <1>1, OwnersQuiet
    <2>2. \A k \in DOMAIN clars : clars'[k].commitment = clars[k].commitment
      BY <1>1
    <2>3. RowIds' = RowIds /\ UNCHANGED jobs
      BY <1>1 DEF RowIds
    <2>4. OwnersSurvive'
      BY <1>1, <2>1, <2>2, <2>3, OwnersReplyStep
    <2>5. QED
      BY <1>1, <2>4
  <1>2. ASSUME NEW k \in DOMAIN clars, NEW answer \in Answer, AnswerOpen(h, k, answer)
        PROVE  OwnersSurvive' /\ UNCHANGED rows
    <2> DEFINE reply == [phase |-> "opened", key |-> k, answer |-> answer,
                         row |-> None, settled |-> FALSE]
    <2>1. reply.phase \notin {"loaded", "checked"}
      OBVIOUS
    <2>2. replies' = [replies EXCEPT ![h] = reply] /\ UNCHANGED <<rows, clars, jobs>>
      BY <1>2 DEF AnswerOpen
    <2> HIDE DEF reply
    <2>3. QED
      BY <1>1, <2>1, <2>2
  <1> DEFINE held == replies[h]
  <1>3. CASE AnswerLoad(h)
    <2> DEFINE c == clars[held.key].commitment
               row == IF c = None THEN None ELSE rows[c]
               reply == [held EXCEPT !.phase = "loaded", !.row = row]
    <2>1. /\ replies' = [replies EXCEPT ![h] = reply]
          /\ UNCHANGED <<rows, clars, jobs>>
          /\ held.phase = "opened"
      BY <1>3 DEF AnswerLoad
    <2>2. ReplyOK(held, clars)
      BY <2>1, BusyReply
    <2>3. \A d \in RowIds : c = d => row = rows[d]
      BY RowIdsAssumption DEF RowIds
    <2> HIDE DEF held, row
    <2>4. reply.key = held.key /\ reply.row = row
      <3>1. reply = [phase |-> "loaded", key |-> held.key, answer |-> held.answer,
                     row |-> row, settled |-> held.settled]
        BY <2>2, ReplyFields
      <3> HIDE DEF reply
      <3>2. QED
        BY <3>1
    <2>5. held.key \in DOMAIN clars
      BY <2>2 DEF ReplyOK
    <2> HIDE DEF reply
    <2>6. QED
      BY <1>1, <2>1, <2>3, <2>4, <2>5 DEF Knows
  <1>4. CASE AnswerCheck(h)
    <2> DEFINE settled == OpenBeside(held.key) = {}
               reply == [held EXCEPT !.phase = "checked", !.settled = settled]
    <2>1. /\ replies' = [replies EXCEPT ![h] = reply]
          /\ UNCHANGED <<rows, clars, jobs>>
          /\ held.phase = "loaded"
      BY <1>4 DEF AnswerCheck
    <2>2. ReplyOK(held, clars)
      BY <2>1, BusyReply
    <2>3. /\ held.key \in DOMAIN clars
          /\ \A c \in RowIds : clars[held.key].commitment = c => Knows(held.row, rows[c])
      BY <2>1, <2>2 DEF ReplyOK, OwnersSurvive
    <2> HIDE DEF held, settled
    <2>4. reply.key = held.key /\ reply.row = held.row
      <3>1. reply = [phase |-> "checked", key |-> held.key, answer |-> held.answer,
                     row |-> held.row, settled |-> settled]
        BY <2>2, ReplyFields
      <3> HIDE DEF reply
      <3>2. QED
        BY <3>1
    <2> HIDE DEF reply
    <2>5. QED
      BY <1>1, <2>1, <2>3, <2>4
  <1>5. CASE AnswerRollback(h)
    <2>1. replies' = [replies EXCEPT ![h] = Idle] /\ UNCHANGED <<rows, clars, jobs>>
      BY <1>5 DEF AnswerRollback
    <2>2. Idle.phase \notin {"loaded", "checked"}
      BY DEF Idle
    <2>3. QED
      BY <1>1, <2>1, <2>2
  <1>6. QED
    BY <1>2, <1>3, <1>4, <1>5

\* An answer confirms on the owner its copy has, which the row still has.
LEMMA AnswerCommitOwners ==
    ASSUME TypeOK, OwnersSurvive, NEW h \in Handlers, AnswerCommit(h)
    PROVE  /\ OwnersSurvive'
           /\ \A c \in RowIds : Knows(rows[c], rows'[c])
  <1> DEFINE reply == replies[h]
             k == reply.key
             c == clars[k].commitment
             edited == Answered(reply.row, reply.answer, reply.settled)
  <1>1. ReplyOK(reply, clars) /\ reply # Idle
    BY BusyReply DEF AnswerCommit, Idle
  <1>2. /\ k \in DOMAIN clars
        /\ reply.answer \in Answer
        /\ reply.settled \in BOOLEAN
        /\ c # None => reply.row \in Row
        /\ c \in RowIds \cup {None}
    BY <1>1 DEF ReplyOK, TypeOK, AnswerCommit
  <1>3. c \in RowIds => Knows(reply.row, rows[c])
    BY DEF OwnersSurvive, AnswerCommit
  <1>4. rows' = IF c = None THEN rows
                ELSE [rows EXCEPT ![c] = Flush(rows[c], reply.row, edited)]
    BY DEF AnswerCommit
  <1>5. rows \in Seq(Row) /\ Len(rows) \in Nat
    BY DEF TypeOK
  <1>6. ASSUME NEW d \in RowIds
        PROVE  /\ Knows(rows[d], rows'[d])
               /\ rows'[d].status = "confirmed" => rows'[d].owner # None
    <2>1. rows[d] \in Row /\ (rows[d].status = "confirmed" => rows[d].owner # None)
      BY <1>5, ElementOfSeq DEF RowIds, OwnersSurvive, ConfirmedIsOwned
    <2>2. CASE c # None /\ d = c
      <3>1. rows'[d] = Flush(rows[d], reply.row, edited)
        BY <1>4, <1>5, <2>2 DEF RowIds
      <3>2. /\ reply.row \in Row
            /\ Knows(reply.row, rows[d])
        BY <1>2, <1>3, <2>2
      <3>3. /\ edited \in Row
            /\ Knows(reply.row, edited)
            /\ edited.status = reply.row.status \/ edited.owner # None
        BY <1>2, <3>2, AnsweredType, AnsweredOwner
      <3> HIDE DEF edited, reply
      <3>4. LET flushed == Flush(rows[d], reply.row, edited)
            IN  /\ Knows(rows[d], flushed)
                /\ flushed.status = "confirmed" => flushed.owner # None
        BY <2>1, <3>2, <3>3, FlushOwner
      <3>5. QED
        BY <3>1, <3>4
    <2>3. CASE c = None \/ d # c
      <3>1. rows'[d] = rows[d]
        <4> HIDE DEF c, edited
        <4>1. QED
          BY <1>4, <1>5, <2>3 DEF RowIds
      <3>2. QED
        BY <2>1, <3>1 DEF Knows
    <2>4. QED
      BY <2>2, <2>3
  <1>7. RowIds' = RowIds
    <2> HIDE DEF c, edited, reply
    <2>1. Len(rows') = Len(rows)
      BY <1>4, <1>5
    <2>2. QED
      BY <2>1 DEF RowIds
  <1>8. ConfirmedIsOwned'
    BY <1>6, <1>7 DEF ConfirmedIsOwned
  <1>9. /\ replies' = [replies EXCEPT ![h] = Idle]
        /\ UNCHANGED jobs
    BY DEF AnswerCommit
  <1>10. \A q \in DOMAIN clars : clars'[q].commitment = clars[q].commitment
    <2> DEFINE asked == clars[k]
               status == IF reply.answer.dismiss THEN "abandoned" ELSE "resolved"
               closed == [asked EXCEPT !.status = status, !.answers = @ + 1]
    <2>1. clars' = [clars EXCEPT ![k] = closed]
      BY DEF AnswerCommit
    <2>2. asked \in Clarification
      BY <1>2 DEF TypeOK
    <2>3. closed.commitment = asked.commitment
      <3> HIDE DEF asked, status
      <3>1. QED
        BY <2>2 DEF Clarification
    <2> HIDE DEF closed, k
    <2>4. QED
      BY <1>2, <2>1, <2>3
  <1>11. Idle.phase \notin {"loaded", "checked"}
    BY DEF Idle
  <1>12. OwnersSurvive'
    BY <1>6, <1>7, <1>8, <1>9, <1>10, <1>11, OwnersReplyStep
  <1>13. QED
    BY <1>6, <1>12

\* No step takes an owner from a row or from the copies of it.
LEMMA OwnersStep ==
    TypeOK /\ OwnersSurvive /\ [Next]_vars =>
      /\ OwnersSurvive'
      /\ \A c \in RowIds : Knows(rows[c], rows'[c])
  <1> SUFFICES ASSUME TypeOK, OwnersSurvive, [Next]_vars
               PROVE  OwnersSurvive' /\ \A c \in RowIds : Knows(rows[c], rows'[c])
    OBVIOUS
  <1>1. ASSUME OwnersSurvive', UNCHANGED rows
        PROVE  OwnersSurvive' /\ \A c \in RowIds : Knows(rows[c], rows'[c])
    BY <1>1 DEF Knows
  <1>2. ASSUME NEW w \in Workers, RunStep(w)
        PROVE  OwnersSurvive' /\ \A c \in RowIds : Knows(rows[c], rows'[c])
    <2>1. CASE HistoryCommit(w)
      BY <2>1, HistoryCommitOwners
    <2>2. CASE SaveResults(w)
      BY <2>2, SaveResultsOwners
    <2>3. CASE ~ HistoryCommit(w) /\ ~ SaveResults(w)
      BY <1>1, <1>2, <2>3, QuietRunOwners DEF RunStep
    <2>4. QED
      BY <2>1, <2>2, <2>3
  <1>3. ASSUME NEW h \in Handlers, AnswerStep(h)
        PROVE  OwnersSurvive' /\ \A c \in RowIds : Knows(rows[c], rows'[c])
    <2>1. CASE AnswerCommit(h)
      BY <2>1, AnswerCommitOwners
    <2>2. CASE ~ AnswerCommit(h)
      BY <1>1, <1>3, <2>2, QuietAnswerOwners DEF AnswerStep
    <2>3. QED
      BY <2>1, <2>2
  <1>4. CASE UNCHANGED vars
    BY <1>1, <1>4 DEF vars, OwnersSurvive, ConfirmedIsOwned, RowIds
  <1>5. QED
    BY <1>2, <1>3, <1>4 DEF Next

LEMMA OwnersInit == Init => OwnersSurvive
  <1> SUFFICES ASSUME Init PROVE OwnersSurvive
    OBVIOUS
  <1>1. RowIds = {}
    BY DEF Init, RowIds
  <1>2. (\A w \in Workers : jobs[w] = Idle) /\ (\A h \in Handlers : replies[h] = Idle)
    BY DEF Init
  <1>3. Idle.phase \notin {"loaded", "checked"}
    BY DEF Idle
  <1>4. QED
    BY <1>1, <1>2, <1>3 DEF OwnersSurvive, ConfirmedIsOwned

\* No session ever holds an owner its row has lost, with any number of runs and
\* answers in flight (agents/historian.py, api/clarifications.py).
THEOREM OwnersSurviveAlways == Spec => []OwnersSurvive
  BY TypeCorrect, OwnersInit, OwnersStep, PTL DEF Spec

\* A confirmed commitment has an owner, always: still_open's answer may be
\* stale, but the owner it confirms on is not (api/clarifications.py:149).
THEOREM ConfirmedOwned == Spec => []ConfirmedIsOwned
  <1>1. OwnersSurvive => ConfirmedIsOwned
    BY DEF OwnersSurvive
  <1>2. QED
    BY <1>1, OwnersSurviveAlways, PTL

\* An owner is never taken back, whatever stale copies are written.
THEOREM OwnerKept == Spec => OwnerIsKept
  <1>1. TypeOK /\ OwnersSurvive /\ [Next]_vars =>
          [\A c \in RowIds : rows[c].owner # None => rows'[c].owner # None]_vars
    BY OwnersStep DEF Knows
  <1>2. QED
    BY <1>1, TypeCorrect, OwnersSurviveAlways, PTL DEF Spec, OwnerIsKept

-----------------------------------------------------------------------------
(***************************************************************************)
(* The trail the ledger keeps of its commitments: mentions and audit       *)
(* events against the columns of the rows.                                 *)
(***************************************************************************)

(***************************************************************************)
(* What a step does to one row, its mentions and its events.               *)
(***************************************************************************)

\* The columns a verdict changes that its trail is about.
LEMMA ApplyTrail ==
    ASSUME NEW row \in Row, NEW verdict \in Verdict, NEW meeting \in Meetings
    PROVE  LET edited == Apply(row, verdict, meeting)
           IN  /\ edited.lastSeen = meeting
               /\ edited.silence = 0
               /\ edited.slip = IF verdict.outcome = "recommitted" THEN row.slip + 1 ELSE row.slip
  <1> DEFINE heard == [row EXCEPT !.lastSeen = meeting, !.silence = 0]
  <1>1. heard \in Row /\ heard.lastSeen = meeting /\ heard.silence = 0 /\ heard.slip = row.slip
    BY DEF Row
  <1> DEFINE moved == [heard EXCEPT
                         !.slip = @ + 1,
                         !.originalDue = IF @ = None THEN row.due ELSE @,
                         !.due = IF verdict.due = None THEN @ ELSE verdict.due]
  <1>2. moved.lastSeen = meeting /\ moved.silence = 0 /\ moved.slip = row.slip + 1
    BY <1>1 DEF Row
  <1>3. \A s : /\ [heard EXCEPT !.status = s].lastSeen = meeting
               /\ [heard EXCEPT !.status = s].silence = 0
               /\ [heard EXCEPT !.status = s].slip = row.slip
    BY <1>1 DEF Row
  <1>4. /\ verdict.outcome = "recommitted" => Apply(row, verdict, meeting) = moved
        /\ verdict.outcome # "recommitted" =>
             \/ Apply(row, verdict, meeting) = heard
             \/ \E s \in {"done", "dropped", "in_progress"} :
                  Apply(row, verdict, meeting) = [heard EXCEPT !.status = s]
    BY DEF Apply
  <1> HIDE DEF heard, moved
  <1>5. QED
    BY <1>1, <1>2, <1>3, <1>4

\* The columns of a row that its trail is about, and what a step may leave of them.
SameTrail(before, after) ==
    /\ after.slip = before.slip
    /\ after.silence = before.silence
    /\ after.firstSeen = before.firstSeen
    /\ after.lastSeen = before.lastSeen

\* The rows of the audit trail about a commitment.
EventsOn(c) == {e \in events : e.commitment = c}

\* A verdict is written to a row: loaded as `copy`, said in `meeting` by `run`.
Heard(c, copy, verdict, meeting, run) ==
    /\ rows'[c].slip = Column(rows[c].slip, copy.slip,
                              IF verdict.outcome = "recommitted"
                                THEN copy.slip + 1 ELSE copy.slip)
    /\ rows'[c].silence = Column(rows[c].silence, copy.silence, 0)
    /\ rows'[c].lastSeen = Column(rows[c].lastSeen, copy.lastSeen, meeting)
    /\ rows'[c].firstSeen = rows[c].firstSeen
    /\ mentions'[c] = Record(mentions[c], meeting, verdict.outcome)
    /\ EventsOn(c)' = EventsOn(c) \cup
         {[run |-> run, commitment |-> c, type |-> EventOf(verdict.outcome)]}

\* A first silence is written to a row.
Silenced(c, copy, meeting, run) ==
    /\ mentions[c][meeting] = None
    /\ rows'[c].slip = rows[c].slip
    /\ rows'[c].silence = copy.silence + 1
    /\ rows'[c].lastSeen = rows[c].lastSeen
    /\ rows'[c].firstSeen = rows[c].firstSeen
    /\ mentions'[c] = Record(mentions[c], meeting, "unmentioned")
    /\ EventsOn(c)' = EventsOn(c) \cup
         {[run |-> run, commitment |-> c, type |-> "unmentioned"]}

\* Nothing is written to a row but, maybe, that a later reading was silent too.
Unheard(c, meeting) ==
    /\ SameTrail(rows[c], rows'[c])
    /\ mentions'[c] \in {mentions[c], Record(mentions[c], meeting, "unmentioned")}
    /\ EventsOn(c)' = EventsOn(c)

\* The commit of the Historian writes one of the three to each row.
LEMMA ReconcileTrail ==
    ASSUME TypeOK, NEW w \in Workers, HistoryCommit(w), NEW c \in RowIds
    PROVE  LET job == jobs[w]
               meeting == MeetingOf(job.run)
           IN  \/ Unheard(c, meeting)
               \/ /\ c \in DOMAIN job.seen
                  /\ \/ Silenced(c, job.seen[c], meeting, job.run)
                     \/ \E verdict \in Verdict :
                          Heard(c, job.seen[c], verdict, meeting, job.run)
  <1>1. PICK heard \in SUBSET DOMAIN jobs[w].seen :
          \E verdict \in [heard -> Verdict] : \E gone, kept :
             Reconcile(w, heard, verdict, gone, kept)
    BY DEF HistoryCommit
  <1>2. PICK verdict \in [heard -> Verdict] : \E gone, kept :
             Reconcile(w, heard, verdict, gone, kept)
    BY <1>1
  <1>3. PICK gone, kept : Reconcile(w, heard, verdict, gone, kept)
    BY <1>2
  <1> DEFINE seen == jobs[w].seen
             run == jobs[w].run
             meeting == MeetingOf(run)
             silent == {d \in DOMAIN seen \ heard : Owed(seen[d], RunDay[run])}
             fresh == FirstSilences(silent, meeting)
             Edited(d) == IF d \in heard
                            THEN Apply(seen[d], verdict[d], meeting)
                            ELSE [seen[d] EXCEPT !.silence = @ + 1]
             said == {[run |-> run, commitment |-> d,
                       type |-> EventOf(verdict[d].outcome)] : d \in heard}
             unsaid == {[run |-> run, commitment |-> d, type |-> "unmentioned"] : d \in fresh}
  <1>4. jobs[w].phase = "reading"
    BY DEF HistoryCommit
  <1>5. JobOK(jobs[w], Len(runs), Len(rows)) /\ meeting \in Meetings
    BY <1>4, BusyJob
  <1>6. \A d \in DOMAIN seen : seen[d] \in Row
    BY <1>5 DEF JobOK
  <1>7. /\ heard \cup silent \subseteq DOMAIN seen /\ fresh \subseteq silent
        /\ heard \cap silent = {}
        /\ \A d \in fresh : mentions[d][meeting] = None
    BY DEF FirstSilences
  <1>8. rows'[c] = IF c \in heard \cup fresh
                     THEN Flush(rows[c], seen[c], Edited(c)) ELSE rows[c]
    BY <1>3 DEF Reconcile
  <1>9. mentions'[c] = IF c \in heard THEN Record(mentions[c], meeting, verdict[c].outcome)
                       ELSE IF c \in silent THEN Record(mentions[c], meeting, "unmentioned")
                       ELSE mentions[c]
    BY <1>3 DEF Reconcile
  <1>10. events' = events \cup said \cup unsaid
    BY <1>3 DEF Reconcile
  <1>11. EventsOn(c)' = EventsOn(c) \cup {e \in said \cup unsaid : e.commitment = c}
    <2> HIDE DEF said, unsaid
    <2>1. QED
      BY <1>10 DEF EventsOn
  <1>12. {e \in said \cup unsaid : e.commitment = c} =
           {e \in said : e.commitment = c} \cup {e \in unsaid : e.commitment = c}
    OBVIOUS
  <1>13. {e \in said : e.commitment = c} =
           IF c \in heard
             THEN {[run |-> run, commitment |-> c, type |-> EventOf(verdict[c].outcome)]}
             ELSE {}
    <2> HIDE DEF run
    <2>1. QED
      OBVIOUS
  <1>14. {e \in unsaid : e.commitment = c} =
           IF c \in fresh THEN {[run |-> run, commitment |-> c, type |-> "unmentioned"]} ELSE {}
    <2> HIDE DEF run, fresh
    <2>1. QED
      OBVIOUS
  <1>15. CASE c \in heard
    <2>1. seen[c] \in Row /\ verdict[c] \in Verdict /\ c \in DOMAIN seen /\ c \notin fresh
      BY <1>6, <1>7, <1>15
    <2>2. rows'[c] = Flush(rows[c], seen[c], Apply(seen[c], verdict[c], meeting))
      BY <1>8, <1>15
    <2>3. EventsOn(c)' = EventsOn(c) \cup
            {[run |-> run, commitment |-> c, type |-> EventOf(verdict[c].outcome)]}
      <3> HIDE DEF said, unsaid, fresh, run
      <3>1. QED
        BY <1>11, <1>12, <1>13, <1>14, <1>15, <2>1
    <2>4. mentions'[c] = Record(mentions[c], meeting, verdict[c].outcome)
      BY <1>9, <1>15
    <2> DEFINE edited == Apply(seen[c], verdict[c], meeting)
    <2>5. /\ edited.lastSeen = meeting
          /\ edited.silence = 0
          /\ edited.slip = IF verdict[c].outcome = "recommitted"
                             THEN seen[c].slip + 1 ELSE seen[c].slip
      <3> DEFINE copy == seen[c]
                 spoken == verdict[c]
      <3>1. copy \in Row /\ spoken \in Verdict /\ edited = Apply(copy, spoken, meeting)
        BY <2>1
      <3> HIDE DEF copy, spoken, meeting, edited
      <3>2. /\ edited.lastSeen = meeting /\ edited.silence = 0
            /\ edited.slip = IF spoken.outcome = "recommitted"
                               THEN copy.slip + 1 ELSE copy.slip
        BY <1>5, <3>1, ApplyTrail
      <3>3. QED
        BY <3>2 DEF copy, spoken
    <2> HIDE DEF edited
    <2>6. /\ rows'[c].slip = Column(rows[c].slip, seen[c].slip, edited.slip)
          /\ rows'[c].silence = Column(rows[c].silence, seen[c].silence, edited.silence)
          /\ rows'[c].lastSeen = Column(rows[c].lastSeen, seen[c].lastSeen, edited.lastSeen)
          /\ rows'[c].firstSeen = rows[c].firstSeen
      BY <2>2 DEF Flush, edited
    <2> HIDE DEF seen, meeting, run
    <2>7. Heard(c, seen[c], verdict[c], meeting, run)
      BY <2>3, <2>4, <2>5, <2>6 DEF Heard
    <2>8. QED
      BY <2>1, <2>7 DEF seen, meeting, run
  <1>16. CASE c \in fresh
    <2>1. seen[c] \in Row /\ c \in DOMAIN seen /\ c \notin heard /\ c \in silent
          /\ mentions[c][meeting] = None
      BY <1>6, <1>7, <1>16
    <2> DEFINE copy == seen[c]
               edited == [copy EXCEPT !.silence = @ + 1]
    <2>2. rows'[c] = Flush(rows[c], copy, edited)
      BY <1>8, <1>16, <2>1
    <2>3. EventsOn(c)' = EventsOn(c) \cup
            {[run |-> run, commitment |-> c, type |-> "unmentioned"]}
      <3> HIDE DEF said, unsaid, fresh, run
      <3>1. QED
        BY <1>11, <1>12, <1>13, <1>14, <1>16, <2>1
    <2>4. mentions'[c] = Record(mentions[c], meeting, "unmentioned")
      BY <1>9, <1>16, <2>1
    <2>5. copy \in Row
      BY <2>1
    <2> HIDE DEF copy
    <2>6. /\ edited.slip = copy.slip /\ edited.lastSeen = copy.lastSeen
          /\ edited.silence = copy.silence + 1 /\ edited.silence # copy.silence
      BY <2>5 DEF Row
    <2> HIDE DEF edited
    <2>7. /\ rows'[c].slip = rows[c].slip /\ rows'[c].lastSeen = rows[c].lastSeen
          /\ rows'[c].silence = copy.silence + 1 /\ rows'[c].firstSeen = rows[c].firstSeen
      BY <2>2, <2>6 DEF Flush, Column
    <2> HIDE DEF meeting, run
    <2>8. Silenced(c, copy, meeting, run)
      BY <2>1, <2>3, <2>4, <2>7 DEF Silenced
    <2>9. QED
      BY <2>1, <2>8 DEF copy, meeting, run, seen
  <1>17. CASE c \notin heard \cup fresh
    <2>1. rows'[c] = rows[c]
      BY <1>8, <1>17
    <2>2. EventsOn(c)' = EventsOn(c)
      <3> HIDE DEF said, unsaid, fresh, run
      <3>1. QED
        BY <1>11, <1>12, <1>13, <1>14, <1>17
    <2>3. mentions'[c] \in {mentions[c], Record(mentions[c], meeting, "unmentioned")}
      BY <1>9, <1>17
    <2>4. QED
      BY <2>1, <2>2, <2>3 DEF Unheard, SameTrail
  <1>18. QED
    BY <1>15, <1>16, <1>17

\* The commit of the Historian adds no row and leaves its worker reconciled.
LEMMA ReconcileFrame ==
    ASSUME TypeOK, NEW w \in Workers, HistoryCommit(w)
    PROVE  /\ RowIds' = RowIds
           /\ UNCHANGED <<decided, runs, clars, replies>>
           /\ \E after : /\ jobs' = [jobs EXCEPT ![w] = after]
                         /\ after.phase = "reconciled"
  <1>1. PICK heard \in SUBSET DOMAIN jobs[w].seen :
          \E verdict \in [heard -> Verdict] : \E gone, kept :
             Reconcile(w, heard, verdict, gone, kept)
    BY DEF HistoryCommit
  <1>2. PICK verdict \in [heard -> Verdict] : \E gone, kept :
             Reconcile(w, heard, verdict, gone, kept)
    BY <1>1
  <1>3. PICK gone, kept : Reconcile(w, heard, verdict, gone, kept)
    BY <1>2
  <1>4. jobs[w].phase = "reading"
    BY DEF HistoryCommit
  <1>5. UNCHANGED <<decided, runs, clars, replies>>
    BY <1>3 DEF Reconcile
  <1>6. RowIds' = RowIds
    <2>1. DOMAIN rows' = RowIds
      BY <1>3 DEF Reconcile
    <2>2. rows' \in Seq(Row) /\ Len(rows) \in Nat
      BY HistoryCommitType DEF TypeOK
    <2>3. QED
      BY <2>1, <2>2 DEF RowIds
  <1>7. \E after : jobs' = [jobs EXCEPT ![w] = after] /\ after.phase = "reconciled"
    <2> DEFINE items == Picked(jobs[w].items, kept)
    <2>1. jobs' = [jobs EXCEPT ![w] = [jobs[w] EXCEPT !.phase = "reconciled", !.seen = <<>>,
                                                     !.items = items]]
      BY <1>3 DEF Reconcile
    <2> HIDE DEF items
    <2>2. [jobs[w] EXCEPT !.phase = "reconciled", !.seen = <<>>, !.items = items] =
             [phase |-> "reconciled", run |-> jobs[w].run, items |-> items,
              questions |-> jobs[w].questions, decisions |-> jobs[w].decisions,
              seen |-> <<>>, extracted |-> jobs[w].extracted]
      BY <1>4, ReconciledJob
    <2>3. QED
      BY <2>1, <2>2
  <1>8. QED
    BY <1>5, <1>6, <1>7

\* An answer leaves the trail of every row alone.
LEMMA AnswerTrail ==
    ASSUME TypeOK, NEW h \in Handlers, AnswerCommit(h)
    PROVE  /\ RowIds' = RowIds
           /\ \A c \in RowIds : SameTrail(rows[c], rows'[c])
           /\ UNCHANGED <<mentions, events, decided, runs, jobs>>
  <1> DEFINE reply == replies[h]
             k == reply.key
             c == clars[k].commitment
             edited == Answered(reply.row, reply.answer, reply.settled)
  <1>1. ReplyOK(reply, clars)
    BY BusyReply DEF AnswerCommit
  <1>2. c # None => reply.row \in Row
    BY <1>1 DEF ReplyOK, AnswerCommit
  <1>3. rows' = IF c = None THEN rows
                ELSE [rows EXCEPT ![c] = Flush(rows[c], reply.row, edited)]
    BY DEF AnswerCommit
  <1>4. rows \in Seq(Row) /\ Len(rows) \in Nat
    BY DEF TypeOK
  <1>5. reply.row \in Row => SameTrail(reply.row, edited)
    <2> DEFINE copy == reply.row
    <2>1. copy \in Row => SameTrail(copy, Answered(copy, reply.answer, reply.settled))
      <3> HIDE DEF copy, reply
      <3>1. QED
        BY DEF Answered, Row, SameTrail
    <2>2. QED
      BY <2>1
  <1> HIDE DEF edited, reply, c
  <1>6. ASSUME NEW d \in RowIds
        PROVE  SameTrail(rows[d], rows'[d])
    <2>1. CASE c # None /\ d = c
      <3>1. rows'[d] = Flush(rows[d], reply.row, edited)
        BY <1>3, <1>4, <2>1 DEF RowIds
      <3>2. QED
        BY <1>2, <1>5, <2>1, <3>1 DEF Flush, Column, SameTrail
    <2>2. CASE c = None \/ d # c
      <3>1. rows'[d] = rows[d]
        BY <1>3, <1>4, <2>2 DEF RowIds
      <3>2. QED
        BY <3>1 DEF SameTrail
    <2>3. QED
      BY <2>1, <2>2
  <1>7. RowIds' = RowIds
    BY <1>3, <1>4 DEF RowIds
  <1>8. UNCHANGED <<mentions, events, decided, runs, jobs>>
    BY DEF AnswerCommit
  <1>9. QED
    BY <1>6, <1>7, <1>8

\* Saving keeps the rows there are and adds rows whose trail starts with the
\* meeting of the run.
LEMMA SaveTrail ==
    ASSUME TypeOK, NEW w \in Workers, SaveResults(w)
    PROVE  LET run == jobs[w].run
               meeting == MeetingOf(run)
           IN  /\ RowIds \subseteq RowIds'
               /\ \A c \in RowIds : rows'[c] = rows[c] /\ mentions'[c] = mentions[c]
               /\ \A c \in RowIds' \ RowIds :
                    /\ rows'[c].slip = 0 /\ rows'[c].silence = 0
                    /\ rows'[c].firstSeen = meeting /\ rows'[c].lastSeen = meeting
               /\ \A e \in events' \ events :
                    e.run = run /\ e.type = "created" /\ e.commitment \in RowIds' \ RowIds
               /\ events \subseteq events'
               /\ jobs' = [jobs EXCEPT ![w] = Idle]
  <1> DEFINE run == jobs[w].run
             meeting == MeetingOf(run)
             items == jobs[w].items
             saved == Len(items)
             new == [i \in 1..saved |-> SavedRow(items[i], meeting)]
             quiet == [i \in 1..saved |-> Silent]
  <1>1. /\ JobOK(jobs[w], Len(runs), Len(rows))
        /\ Len(rows) \in Nat
        /\ meeting \in Meetings
    BY BusyJob DEF SaveResults
  <1>2. items \in Seq(Item) /\ saved \in Nat
    BY <1>1 DEF JobOK
  <1>3. /\ rows' = rows \o new /\ mentions' = mentions \o quiet
        /\ events' = events \cup
            {[run |-> run, commitment |-> Len(rows) + i, type |-> "created"] : i \in 1..saved}
        /\ jobs' = [jobs EXCEPT ![w] = Idle]
    BY DEF SaveResults
  <1>4. rows \in Seq(Row) /\ Len(mentions) = Len(rows)
        /\ mentions \in Seq([Meetings -> MentionOutcome \cup {None}])
    BY DEF TypeOK
  <1>5. new \in Seq(Row) /\ Len(new) = saved
    <2>1. ASSUME NEW i \in 1..saved
          PROVE  new[i] \in Row
      <3> DEFINE item == items[i]
      <3>1. item \in Item /\ new[i] = SavedRow(item, meeting)
        BY <1>2, ElementOfSeq
      <3> HIDE DEF item, new, meeting
      <3>2. QED
        BY <1>1, <3>1, SavedRowType
    <2>2. DOMAIN new = 1..saved /\ new = [i \in 1..saved |-> new[i]]
      OBVIOUS
    <2> HIDE DEF new, saved
    <2>3. QED
      BY <1>2, <2>1, <2>2
  <1>6. quiet \in Seq([Meetings -> MentionOutcome \cup {None}]) /\ Len(quiet) = saved
    <2> DEFINE Outcome == [Meetings -> MentionOutcome \cup {None}]
    <2>1. Silent \in Outcome
      BY DEF Silent
    <2>2. quiet = [i \in 1..saved |-> Silent]
      OBVIOUS
    <2> HIDE DEF saved, quiet, Outcome
    <2>3. quiet \in Seq(Outcome) /\ Len(quiet) = saved
      BY <1>2, <2>1, <2>2
    <2>4. QED
      BY <2>3 DEF Outcome
  <1>7. \A i \in 1..saved : /\ new[i].slip = 0 /\ new[i].silence = 0
                            /\ new[i].firstSeen = meeting /\ new[i].lastSeen = meeting
    <2> HIDE DEF items, meeting, saved
    <2>1. QED
      BY DEF SavedRow
  <1> HIDE DEF new, quiet, saved, run, meeting
  <1>8. /\ Len(rows') = Len(rows) + saved
        /\ \A c \in 1..Len(rows) : rows'[c] = rows[c]
        /\ \A c \in 1..(Len(rows) + saved) :
             c \notin 1..Len(rows) => rows'[c] = new[c - Len(rows)] /\ c - Len(rows) \in 1..saved
    <2>1. /\ Len(rows \o new) = Len(rows) + saved
          /\ \A c \in 1..(Len(rows) + saved) :
               (rows \o new)[c] = IF c <= Len(rows) THEN rows[c] ELSE new[c - Len(rows)]
      BY <1>4, <1>5, ConcatProperties
    <2>2. QED
      BY <1>1, <1>2, <1>3, <2>1
  <1>9. \A c \in 1..Len(rows) : mentions'[c] = mentions[c]
    <2> DEFINE Outcome == [Meetings -> MentionOutcome \cup {None}]
    <2>1. mentions \in Seq(Outcome) /\ quiet \in Seq(Outcome)
      BY <1>4, <1>6
    <2> HIDE DEF Outcome
    <2>2. \A c \in 1..(Len(mentions) + Len(quiet)) :
             (mentions \o quiet)[c] = IF c <= Len(mentions) THEN mentions[c]
                                      ELSE quiet[c - Len(mentions)]
      BY <2>1, ConcatProperties
    <2>3. QED
      BY <1>1, <1>2, <1>3, <1>4, <1>6, <2>2
  <1>10. \A c \in RowIds' \ RowIds : c - Len(rows) \in 1..saved /\ rows'[c] = new[c - Len(rows)]
    BY <1>8 DEF RowIds
  <1>11. \A i \in 1..saved : Len(rows) + i \in RowIds' \ RowIds
    BY <1>1, <1>2, <1>8 DEF RowIds
  <1>12. RowIds \subseteq RowIds'
    BY <1>1, <1>2, <1>8 DEF RowIds
  <1>13. \A e \in events' \ events :
           e.run = run /\ e.type = "created" /\ e.commitment \in RowIds' \ RowIds
    BY <1>3, <1>11
  <1>14. \A c \in RowIds' \ RowIds :
           /\ rows'[c].slip = 0 /\ rows'[c].silence = 0
           /\ rows'[c].firstSeen = meeting /\ rows'[c].lastSeen = meeting
    BY <1>7, <1>10
  <1>15. \A c \in RowIds : rows'[c] = rows[c] /\ mentions'[c] = mentions[c]
    BY <1>8, <1>9 DEF RowIds
  <1>16. QED
    BY <1>3, <1>12, <1>13, <1>14, <1>15 DEF run, meeting

\* The other steps write no row, no mention and no event.
LEMMA QuietTrail ==
    ASSUME NEW w \in Workers, RunStep(w), ~ HistoryCommit(w), ~ SaveResults(w)
    PROVE  UNCHANGED <<rows, mentions, events, decided, clars, replies>>
  BY DEF RunStep, Submit, HistorySkip, HistoryLoad, SaveCheck, SaveRepeat, RunFails, RunLost

LEMMA QuietAnswer ==
    ASSUME NEW h \in Handlers, AnswerStep(h), ~ AnswerCommit(h)
    PROVE  UNCHANGED <<rows, mentions, events, decided, runs, clars, jobs>>
  BY DEF AnswerStep, AnswerOpen, AnswerLoad, AnswerCheck, AnswerRollback

-----------------------------------------------------------------------------
(***************************************************************************)
(* The table of mentions agrees with the column, whatever interleaves.     *)
(***************************************************************************)

\* Recording an outcome leaves no mention empty.
LEMMA RecordFills ==
    ASSUME NEW said \in [Meetings -> MentionOutcome \cup {None}],
           NEW meeting \in Meetings, NEW outcome \in MentionOutcome, NEW m \in Meetings
    PROVE  LET after == Record(said, meeting, outcome)
           IN  /\ after \in [Meetings -> MentionOutcome \cup {None}]
               /\ after[meeting] = outcome /\ outcome # None
               /\ m # meeting => after[m] = said[m]
               /\ said[m] # None => after[m] # None
  BY MentionsAssumption DEF Record

\* A row whose trail is where it was, with mentions that lose nothing, agrees.
LEMMA LastSeenFrame ==
    ASSUME LastSeenIsMentioned, NEW c \in RowIds, SameTrail(rows[c], rows'[c]),
           mentions[c][rows[c].lastSeen] # None => mentions'[c][rows[c].lastSeen] # None
    PROVE  rows'[c].lastSeen # rows'[c].firstSeen => mentions'[c][rows'[c].lastSeen] # None
  BY DEF LastSeenIsMentioned, SameTrail

\* A step that adds no row and keeps the columns and the mentions agrees.
LEMMA LastSeenQuiet ==
    ASSUME LastSeenIsMentioned, RowIds' = RowIds, UNCHANGED mentions,
           \A c \in RowIds : SameTrail(rows[c], rows'[c])
    PROVE  LastSeenIsMentioned'
  <1>1. \A c \in RowIds :
          rows'[c].lastSeen # rows'[c].firstSeen => mentions'[c][rows'[c].lastSeen] # None
    BY LastSeenFrame
  <1>2. QED
    BY <1>1 DEF LastSeenIsMentioned

LEMMA LastSeenReconcile ==
    ASSUME TypeOK, LastSeenIsMentioned, NEW w \in Workers, HistoryCommit(w)
    PROVE  LastSeenIsMentioned'
  <1> DEFINE job == jobs[w]
             meeting == MeetingOf(job.run)
  <1>1. meeting \in Meetings /\ RowIds' = RowIds
    BY BusyJob, ReconcileFrame DEF HistoryCommit
  <1>2. ASSUME NEW c \in RowIds
        PROVE  rows'[c].lastSeen # rows'[c].firstSeen => mentions'[c][rows'[c].lastSeen] # None
    <2>1. /\ mentions[c] \in [Meetings -> MentionOutcome \cup {None}]
          /\ rows[c] \in Row
      BY ElementOfSeq DEF TypeOK, RowIds
    <2>2. rows[c].lastSeen \in Meetings
      BY <2>1 DEF Row
    <2>3. "unmentioned" \in MentionOutcome
      BY DEF MentionOutcome
    <2>4. \/ Unheard(c, meeting)
          \/ \E copy, run : Silenced(c, copy, meeting, run)
          \/ \E copy, run : \E verdict \in Verdict : Heard(c, copy, verdict, meeting, run)
      BY ReconcileTrail
    <2> HIDE DEF meeting
    <2>5. CASE Unheard(c, meeting)
      <3>1. mentions[c][rows[c].lastSeen] # None => mentions'[c][rows[c].lastSeen] # None
        BY <1>1, <2>1, <2>2, <2>3, <2>5, RecordFills DEF Unheard
      <3>2. QED
        BY <2>5, <3>1, LastSeenFrame DEF Unheard
    <2>6. ASSUME NEW copy, NEW run, Silenced(c, copy, meeting, run)
          PROVE  rows'[c].lastSeen # rows'[c].firstSeen =>
                   mentions'[c][rows'[c].lastSeen] # None
      <3>1. mentions[c][rows[c].lastSeen] # None => mentions'[c][rows[c].lastSeen] # None
        BY <1>1, <2>1, <2>2, <2>3, <2>6, RecordFills DEF Silenced
      <3>2. QED
        BY <2>6, <3>1 DEF Silenced, LastSeenIsMentioned
    <2>7. ASSUME NEW copy, NEW run, NEW verdict \in Verdict,
                 Heard(c, copy, verdict, meeting, run)
          PROVE  rows'[c].lastSeen # rows'[c].firstSeen =>
                   mentions'[c][rows'[c].lastSeen] # None
      <3>1. verdict.outcome \in MentionOutcome
        BY OutcomesAssumption DEF Verdict
      <3>2. /\ mentions'[c][meeting] # None
            /\ mentions[c][rows[c].lastSeen] # None => mentions'[c][rows[c].lastSeen] # None
        BY <1>1, <2>1, <2>2, <2>7, <3>1, RecordFills DEF Heard
      <3>3. rows'[c].lastSeen \in {meeting, rows[c].lastSeen}
            /\ rows'[c].firstSeen = rows[c].firstSeen
        BY <2>7 DEF Heard, Column
      <3>4. QED
        BY <3>2, <3>3 DEF LastSeenIsMentioned
    <2>8. QED
      BY <2>4, <2>5, <2>6, <2>7
  <1>3. QED
    BY <1>1, <1>2 DEF LastSeenIsMentioned

LEMMA LastSeenSave ==
    ASSUME TypeOK, LastSeenIsMentioned, NEW w \in Workers, SaveResults(w)
    PROVE  LastSeenIsMentioned'
  <1>1. /\ RowIds \subseteq RowIds'
        /\ \A c \in RowIds : rows'[c] = rows[c] /\ mentions'[c] = mentions[c]
        /\ \A c \in RowIds' \ RowIds : rows'[c].firstSeen = rows'[c].lastSeen
    BY SaveTrail
  <1>2. QED
    BY <1>1 DEF LastSeenIsMentioned

LEMMA LastSeenStep == TypeOK /\ LastSeenIsMentioned /\ [Next]_vars => LastSeenIsMentioned'
  <1> SUFFICES ASSUME TypeOK, LastSeenIsMentioned, [Next]_vars
               PROVE  LastSeenIsMentioned'
    OBVIOUS
  <1>1. ASSUME UNCHANGED <<rows, mentions>>
        PROVE  LastSeenIsMentioned'
    BY <1>1, LastSeenQuiet DEF RowIds, SameTrail
  <1>2. ASSUME NEW w \in Workers, RunStep(w)
        PROVE  LastSeenIsMentioned'
    BY <1>1, <1>2, LastSeenReconcile, LastSeenSave, QuietTrail
  <1>3. ASSUME NEW h \in Handlers, AnswerStep(h)
        PROVE  LastSeenIsMentioned'
    <2>1. CASE AnswerCommit(h)
      BY <2>1, AnswerTrail, LastSeenQuiet
    <2>2. CASE ~ AnswerCommit(h)
      BY <1>1, <1>3, <2>2, QuietAnswer
    <2>3. QED
      BY <2>1, <2>2
  <1>4. CASE UNCHANGED vars
    BY <1>1, <1>4 DEF vars
  <1>5. QED
    BY <1>2, <1>3, <1>4 DEF Next

\* The meeting a row was last seen in left a mention of it, with any number of
\* runs reconciling it at once (agents/historian.py writes both).
THEOREM LastSeenMentioned == Spec => []LastSeenIsMentioned
  <1>1. Init => LastSeenIsMentioned
    BY DEF Init, LastSeenIsMentioned, RowIds
  <1>2. QED
    BY <1>1, LastSeenStep, TypeCorrect, PTL DEF Spec

\* A streak grows only when a meeting falls silent on the row for the first
\* time, with any number of runs of it (agents/historian.py).
THEOREM SilenceCounted == Spec => SilenceCountsOnce
  <1> DEFINE Counted == \A c \in RowIds : rows'[c].silence > rows[c].silence =>
                          \E m \in Meetings : /\ mentions[c][m] = None
                                              /\ mentions'[c][m] = "unmentioned"
  <1>1. ASSUME TypeOK, [Next]_vars
        PROVE  Counted
    <2>1. ASSUME NEW c \in RowIds, rows'[c].silence = rows[c].silence
          PROVE  ~ (rows'[c].silence > rows[c].silence)
      <3>1. rows[c] \in Row
        BY <1>1, ElementOfSeq DEF TypeOK, RowIds
      <3>2. rows[c].silence \in Nat
        BY <3>1 DEF Row
      <3>3. QED
        BY <2>1, <3>2
    <2>2. ASSUME NEW w \in Workers, HistoryCommit(w), NEW c \in RowIds,
                 rows'[c].silence > rows[c].silence
          PROVE  \E m \in Meetings : /\ mentions[c][m] = None
                                     /\ mentions'[c][m] = "unmentioned"
      <3> DEFINE meeting == MeetingOf(jobs[w].run)
      <3>1. /\ meeting \in Meetings /\ mentions[c] \in [Meetings -> MentionOutcome \cup {None}]
            /\ rows[c].silence \in Nat
        <4>1. rows[c] \in Row /\ mentions[c] \in [Meetings -> MentionOutcome \cup {None}]
          BY <1>1, ElementOfSeq DEF TypeOK, RowIds
        <4>2. QED
          BY <1>1, <2>2, <4>1, BusyJob DEF HistoryCommit, Row
      <3>2. \/ Unheard(c, meeting)
            \/ \E copy, run : Silenced(c, copy, meeting, run)
            \/ \E copy, run : \E verdict \in Verdict : Heard(c, copy, verdict, meeting, run)
        BY <1>1, <2>2, ReconcileTrail
      <3> HIDE DEF meeting
      <3>3. ~ Unheard(c, meeting)
        BY <2>1, <2>2 DEF Unheard, SameTrail
      <3>4. ASSUME NEW copy, NEW run, NEW verdict, Heard(c, copy, verdict, meeting, run)
            PROVE  FALSE
        BY <2>2, <3>1, <3>4 DEF Heard, Column
      <3>5. PICK copy, run : Silenced(c, copy, meeting, run)
        BY <3>2, <3>3, <3>4
      <3>6. mentions[c][meeting] = None /\ mentions'[c][meeting] = "unmentioned"
        BY <3>1, <3>5 DEF Silenced, Record
      <3>7. QED
        BY <3>1, <3>6
    <2>3. ASSUME \A c \in RowIds : rows'[c].silence = rows[c].silence
          PROVE  Counted
      BY <2>1, <2>3
    <2>4. ASSUME NEW w \in Workers, RunStep(w)
          PROVE  Counted
      <3>1. CASE HistoryCommit(w)
        BY <2>2, <3>1
      <3>2. CASE SaveResults(w)
        BY <1>1, <2>3, <3>2, SaveTrail
      <3>3. CASE ~ HistoryCommit(w) /\ ~ SaveResults(w)
        BY <2>3, <2>4, <3>3, QuietTrail
      <3>4. QED
        BY <3>1, <3>2, <3>3
    <2>5. ASSUME NEW h \in Handlers, AnswerStep(h)
          PROVE  Counted
      <3>1. CASE AnswerCommit(h)
        <4>1. \A c \in RowIds : SameTrail(rows[c], rows'[c])
          BY <1>1, <3>1, AnswerTrail
        <4>2. \A c \in RowIds : rows'[c].silence = rows[c].silence
          BY <4>1 DEF SameTrail
        <4> HIDE DEF Counted
        <4>3. QED
          BY <2>3, <4>2
      <3>2. CASE ~ AnswerCommit(h)
        BY <2>3, <2>5, <3>2, QuietAnswer
      <3>3. QED
        BY <3>1, <3>2
    <2>6. CASE UNCHANGED vars
      BY <2>3, <2>6 DEF vars
    <2> HIDE DEF Counted
    <2>7. QED
      BY <1>1, <2>4, <2>5, <2>6 DEF Next
  <1> HIDE DEF Counted
  <1>2. TypeOK /\ [Next]_vars => [Counted]_vars
    BY <1>1
  <1>3. QED
    BY <1>2, TypeCorrect, PTL DEF Spec, SilenceCountsOnce, Counted

-----------------------------------------------------------------------------
(***************************************************************************)
(* One run at a time.  What follows holds when at most one run is          *)
(* executing, while any number of answers are applied; LedgerSerial checks *)
(* it, and two runs at a time do break it.                                 *)
(***************************************************************************)

AtMostOneWorker == \A v, w \in Workers : v = w

\* The slips of a commitment on the audit trail, and the meetings silent on it.
Slips(c) == {e \in events : e.commitment = c /\ e.type = "slipped"}
Silences(c) == {m \in Meetings : mentions[c][m] = "unmentioned"}

\* The columns of a row are what its trail adds up to.
AddsUp(c) ==
    /\ IsFiniteSet(Slips(c))
    /\ rows[c].slip = Cardinality(Slips(c))
    /\ rows[c].silence <= Cardinality(Silences(c))

\* A row that a run created is first seen in the meeting of that run.
CreatedInMeeting ==
    \A e \in events : e.type = "created" =>
      rows[e.commitment].firstSeen = MeetingOf(e.run)

\* The run that is executing has left no event before the Historian commits,
\* its copies still have the counts of their rows, and when it is about to
\* save, nothing of its meeting is stored.
InFlight(w) ==
    /\ jobs[w].phase \in {"resolved", "reading"} => \A e \in events : e.run # jobs[w].run
    /\ jobs[w].phase = "reading" =>
         \A c \in DOMAIN jobs[w].seen : /\ jobs[w].seen[c].slip = rows[c].slip
                                        /\ jobs[w].seen[c].silence = rows[c].silence
    /\ jobs[w].phase = "saving" /\ ~ jobs[w].extracted =>
         \A c \in RowIds : rows[c].firstSeen # MeetingOf(jobs[w].run)

SerialInv ==
    /\ TypeOK
    /\ \A c \in RowIds : AddsUp(c)
    /\ CreatedInMeeting
    /\ OneRunWritesAMeeting
    /\ \A w \in Workers : InFlight(w)

\* The runs there are keep the meetings they are of.
SameMeetings == \A r \in 1..Len(runs) : MeetingOf(r)' = MeetingOf(r)

\* Every step keeps the meetings of the runs.
LEMMA MeetingsStay ==
    ASSUME TypeOK, [Next]_vars
    PROVE  SameMeetings
  <1>1. runs \in Seq([meeting : Meetings, status : RunStatus]) /\ Len(runs) \in Nat
    BY DEF TypeOK
  <1>2. ASSUME UNCHANGED runs
        PROVE  SameMeetings
    BY <1>2 DEF SameMeetings, MeetingOf
  <1>3. ASSUME NEW meeting, runs' = Append(runs, [meeting |-> meeting, status |-> "running"])
        PROVE  SameMeetings
    <2>1. \A r \in 1..Len(runs) : runs'[r] = runs[r]
      BY <1>1, <1>3
    <2>2. QED
      BY <2>1 DEF SameMeetings, MeetingOf
  <1>4. ASSUME NEW run, NEW status, runs' = [runs EXCEPT ![run].status = status]
        PROVE  SameMeetings
    <2>1. \A r \in 1..Len(runs) : runs[r] \in [meeting : Meetings, status : RunStatus]
      BY <1>1, ElementOfSeq
    <2>2. \A r \in 1..Len(runs) : runs'[r].meeting = runs[r].meeting
      BY <1>1, <1>4, <2>1
    <2>3. QED
      BY <2>2 DEF SameMeetings, MeetingOf
  <1>5. ASSUME NEW w \in Workers, RunStep(w)
        PROVE  SameMeetings
    <2>1. CASE HistoryCommit(w)
      BY <1>2, <2>1, ReconcileFrame
    <2>2. CASE SaveResults(w)
      BY <1>4, <2>2 DEF SaveResults
    <2>3. CASE \E meeting \in Meetings : Submit(w, meeting)
      BY <1>3, <2>3 DEF Submit
    <2>4. CASE SaveRepeat(w) \/ RunFails(w)
      BY <1>4, <2>4 DEF SaveRepeat, RunFails
    <2>5. CASE HistorySkip(w) \/ HistoryLoad(w) \/ SaveCheck(w) \/ RunLost(w)
      BY <1>2, <2>5 DEF HistorySkip, HistoryLoad, SaveCheck, RunLost
    <2>6. QED
      BY <1>5, <2>1, <2>2, <2>3, <2>4, <2>5 DEF RunStep
  <1>6. ASSUME NEW h \in Handlers, AnswerStep(h)
        PROVE  SameMeetings
    <2>1. UNCHANGED runs
      BY <1>6, AnswerTrail, QuietAnswer
    <2>2. QED
      BY <1>2, <2>1
  <1>7. CASE UNCHANGED vars
    BY <1>2, <1>7 DEF vars
  <1>8. QED
    BY <1>5, <1>6, <1>7 DEF Next

\* What an event is about.
LEMMA EventFields ==
    ASSUME TypeOK, NEW e \in events
    PROVE  e.run \in 1..Len(runs) /\ e.commitment \in RowIds /\ e.type \in EventType
           /\ e = [run |-> e.run, commitment |-> e.commitment, type |-> e.type]
  BY DEF TypeOK

\* A step that writes none of the tables but the runs keeps what they add up to.
LEMMA QuietBooks ==
    ASSUME SerialInv, SameMeetings, UNCHANGED <<mentions, events>>, RowIds' = RowIds,
           \A c \in RowIds : SameTrail(rows[c], rows'[c])
    PROVE  /\ \A c \in RowIds' : AddsUp(c)'
           /\ CreatedInMeeting'
           /\ OneRunWritesAMeeting'
  <1>1. \A c \in RowIds : AddsUp(c)'
    <2>1. ASSUME NEW c \in RowIds
          PROVE  AddsUp(c)'
      <3>1. Slips(c)' = Slips(c) /\ Silences(c)' = Silences(c)
        BY DEF Slips, Silences
      <3>2. AddsUp(c) /\ SameTrail(rows[c], rows'[c])
        BY DEF SerialInv
      <3>3. QED
        BY <3>1, <3>2 DEF AddsUp, SameTrail
    <2>2. QED
      BY <2>1
  <1>2. \A e \in events : e.run \in 1..Len(runs) /\ e.commitment \in RowIds
                         /\ MeetingOf(e.run)' = MeetingOf(e.run)
    BY EventFields DEF SerialInv, SameMeetings
  <1>3. CreatedInMeeting'
    <2>1. ASSUME NEW e \in events, e.type = "created"
          PROVE  rows'[e.commitment].firstSeen = MeetingOf(e.run)'
      <3>1. rows[e.commitment].firstSeen = MeetingOf(e.run)
        BY <2>1 DEF SerialInv, CreatedInMeeting
      <3>2. SameTrail(rows[e.commitment], rows'[e.commitment])
        BY <1>2
      <3>3. QED
        BY <1>2, <3>1, <3>2 DEF SameTrail
    <2>2. QED
      BY <2>1 DEF CreatedInMeeting
  <1>4. OneRunWritesAMeeting'
    BY <1>2 DEF SerialInv, OneRunWritesAMeeting
  <1>5. QED
    BY <1>1, <1>3, <1>4

\* One more event, or one more meeting, is one more to count.
LEMMA OneMore ==
    ASSUME NEW S, IsFiniteSet(S), NEW x
    PROVE  /\ IsFiniteSet(S \cup {x})
           /\ Cardinality(S) \in Nat /\ Cardinality(S \cup {x}) \in Nat
           /\ x \notin S => Cardinality(S \cup {x}) = Cardinality(S) + 1
           /\ Cardinality(S) <= Cardinality(S \cup {x})
  <1>1. Cardinality(S) \in Nat
    BY FS_CardinalityType
  <1>2. CASE x \in S
    <2>1. S \cup {x} = S
      BY <1>2
    <2>2. IsFiniteSet(S \cup {x}) /\ Cardinality(S \cup {x}) = Cardinality(S)
      BY <2>1, Zenon
    <2>3. QED
      BY <1>1, <1>2, <2>2
  <1>3. CASE x \notin S
    <2>1. IsFiniteSet(S \cup {x}) /\ Cardinality(S \cup {x}) = Cardinality(S) + 1
      BY <1>3, FS_AddElement
    <2>2. QED
      BY <1>1, <2>1
  <1>4. QED
    BY <1>2, <1>3

\* The commit of the Historian keeps each row settled.
LEMMA ReconcileSettles ==
    ASSUME SerialInv, NEW w \in Workers, HistoryCommit(w), NEW c \in RowIds
    PROVE  AddsUp(c)'
  <1> DEFINE job == jobs[w]
             meeting == MeetingOf(job.run)
             run == job.run
  <1>1. TypeOK /\ jobs[w].phase = "reading"
    BY DEF SerialInv, HistoryCommit
  <1>2. /\ meeting \in Meetings
        /\ \A e \in events : e.run # run
        /\ \A d \in DOMAIN job.seen : /\ job.seen[d].slip = rows[d].slip
                                      /\ job.seen[d].silence = rows[d].silence
    BY <1>1, BusyJob DEF SerialInv, InFlight
  <1>3. rows[c] \in Row /\ mentions[c] \in [Meetings -> MentionOutcome \cup {None}]
    BY <1>1, ElementOfSeq DEF TypeOK, RowIds
  <1>4. rows[c].slip \in Nat /\ rows[c].silence \in Nat
    BY <1>3 DEF Row
  <1>5. /\ IsFiniteSet(Slips(c)) /\ rows[c].slip = Cardinality(Slips(c))
        /\ rows[c].silence <= Cardinality(Silences(c))
    BY DEF SerialInv, AddsUp
  <1>6. IsFiniteSet(Silences(c)) /\ Cardinality(Silences(c)) \in Nat
    <2>1. Silences(c) \subseteq Meetings
      BY DEF Silences
    <2>2. QED
      BY <2>1, MeetingsAssumption, FS_Subset, FS_CardinalityType
  <1>7. \/ Unheard(c, meeting)
        \/ /\ c \in DOMAIN job.seen
           /\ \/ Silenced(c, job.seen[c], meeting, run)
              \/ \E verdict \in Verdict : Heard(c, job.seen[c], verdict, meeting, run)
    BY <1>1, ReconcileTrail
  <1>8. Slips(c) = {e \in EventsOn(c) : e.type = "slipped"}
        /\ Slips(c)' = {e \in EventsOn(c)' : e.type = "slipped"}
    BY DEF Slips, EventsOn
  <1>9. ASSUME mentions'[c] = Record(mentions[c], meeting, "unmentioned")
        PROVE  Silences(c)' = Silences(c) \cup {meeting}
    BY <1>2, <1>3, <1>9 DEF Silences, Record
  <1> HIDE DEF job, meeting, run
  <1>10. CASE Unheard(c, meeting)
    <2>1. Slips(c)' = Slips(c)
      BY <1>8, <1>10 DEF Unheard
    <2>2. Silences(c)' \in {Silences(c), Silences(c) \cup {meeting}}
      BY <1>9, <1>10 DEF Unheard, Silences
    <2>3. Cardinality(Silences(c)') \in Nat /\ Cardinality(Silences(c)) <= Cardinality(Silences(c)')
      BY <1>6, <2>2, OneMore
    <2>4. rows'[c].slip = rows[c].slip /\ rows'[c].silence = rows[c].silence
      BY <1>10 DEF Unheard, SameTrail
    <2>5. rows'[c].silence <= Cardinality(Silences(c)')
      BY <1>4, <1>5, <1>6, <2>3, <2>4
    <2>6. QED
      BY <1>5, <2>1, <2>4, <2>5 DEF AddsUp
  <1>11. CASE c \in DOMAIN job.seen /\ Silenced(c, job.seen[c], meeting, run)
    <2>1. Slips(c)' = Slips(c)
      BY <1>8, <1>11 DEF Silenced
    <2>2. meeting \notin Silences(c) /\ Silences(c)' = Silences(c) \cup {meeting}
      <3>1. "unmentioned" # None
        BY MentionsAssumption DEF MentionOutcome
      <3>2. QED
        BY <1>9, <1>11, <3>1 DEF Silenced, Silences
    <2>3. Cardinality(Silences(c)') = Cardinality(Silences(c)) + 1
      BY <1>6, <2>2, OneMore
    <2>4. rows'[c].slip = rows[c].slip /\ rows'[c].silence = rows[c].silence + 1
      BY <1>2, <1>11 DEF Silenced
    <2>5. rows'[c].silence <= Cardinality(Silences(c)')
      BY <1>4, <1>5, <1>6, <2>3, <2>4
    <2>6. QED
      BY <1>5, <2>1, <2>4, <2>5 DEF AddsUp
  <1>12. ASSUME c \in DOMAIN job.seen, NEW verdict \in Verdict,
                Heard(c, job.seen[c], verdict, meeting, run)
         PROVE  AddsUp(c)'
    <2> DEFINE said == [run |-> run, commitment |-> c, type |-> EventOf(verdict.outcome)]
    <2>1. EventsOn(c)' = EventsOn(c) \cup {said}
      BY <1>12 DEF Heard
    <2>2. said.type = EventOf(verdict.outcome) /\ said \notin Slips(c)
      BY <1>2 DEF Slips
    <2> HIDE DEF said
    <2>3. rows'[c].silence = 0
      BY <1>2, <1>12 DEF Heard, Column
    <2>4. 0 <= Cardinality(Silences(c)')
      <3>1. Silences(c)' \subseteq Meetings
        BY DEF Silences
      <3>2. Cardinality(Silences(c)') \in Nat
        BY <3>1, MeetingsAssumption, FS_Subset, FS_CardinalityType
      <3>3. QED
        BY <3>2
    <2>5. CASE verdict.outcome = "recommitted"
      <3>1. said.type = "slipped"
        BY <2>2, <2>5 DEF EventOf
      <3>2. Slips(c)' = Slips(c) \cup {said}
        BY <1>8, <2>1, <3>1
      <3>3. IsFiniteSet(Slips(c)') /\ Cardinality(Slips(c)') = Cardinality(Slips(c)) + 1
        BY <1>5, <2>2, <3>2, OneMore
      <3>4. rows'[c].slip = rows[c].slip + 1
        BY <1>2, <1>4, <1>12, <2>5 DEF Heard, Column
      <3>5. QED
        BY <1>5, <2>3, <2>4, <3>3, <3>4 DEF AddsUp
    <2>6. CASE verdict.outcome # "recommitted"
      <3>1. said.type # "slipped"
        BY <2>2, <2>6 DEF EventOf
      <3>2. Slips(c)' = Slips(c)
        BY <1>8, <2>1, <3>1
      <3>3. rows'[c].slip = rows[c].slip
        BY <1>2, <1>12, <2>6 DEF Heard, Column
      <3>4. QED
        BY <1>5, <2>3, <2>4, <3>2, <3>3 DEF AddsUp
    <2>7. QED
      BY <2>5, <2>6
  <1>13. QED
    BY <1>7, <1>10, <1>11, <1>12

\* The commit of the Historian creates no commitment.
LEMMA ReconcileCreatesNone ==
    ASSUME TypeOK, NEW w \in Workers, HistoryCommit(w), NEW e \in events', e.type = "created"
    PROVE  e \in events /\ rows'[e.commitment].firstSeen = rows[e.commitment].firstSeen
  <1> DEFINE c == e.commitment
             meeting == MeetingOf(jobs[w].run)
  <1>1. c \in RowIds
    <2>1. TypeOK' /\ RowIds' = RowIds
      BY HistoryCommitType, ReconcileFrame
    <2>2. e.commitment \in RowIds'
      BY <2>1 DEF TypeOK
    <2>3. QED
      BY <2>1, <2>2
  <1>2. e \in EventsOn(c)'
    BY DEF EventsOn
  <1>3. \/ Unheard(c, meeting)
        \/ \E copy, run : Silenced(c, copy, meeting, run)
        \/ \E copy, run : \E verdict \in Verdict : Heard(c, copy, verdict, meeting, run)
    BY <1>1, ReconcileTrail
  <1> HIDE DEF c, meeting
  <1>4. rows'[c].firstSeen = rows[c].firstSeen
    BY <1>3 DEF Unheard, Silenced, Heard, SameTrail
  <1>5. e \in EventsOn(c)
    <2>1. \A o : EventOf(o) # "created"
      BY DEF EventOf
    <2>2. ASSUME NEW run, NEW type, type # "created",
                 EventsOn(c)' = EventsOn(c) \cup {[run |-> run, commitment |-> c, type |-> type]}
          PROVE  e \in EventsOn(c)
      BY <1>2, <2>2
    <2>3. CASE Unheard(c, meeting)
      BY <1>2, <2>3 DEF Unheard
    <2>4. ASSUME NEW copy, NEW run, Silenced(c, copy, meeting, run)
          PROVE  e \in EventsOn(c)
      BY <2>2, <2>4 DEF Silenced
    <2>5. ASSUME NEW copy, NEW run, NEW verdict, Heard(c, copy, verdict, meeting, run)
          PROVE  e \in EventsOn(c)
      BY <2>1, <2>2, <2>5 DEF Heard
    <2>6. QED
      BY <1>3, <2>3, <2>4, <2>5
  <1>6. QED
    BY <1>4, <1>5 DEF EventsOn, c

LEMMA ReconcileBooks ==
    ASSUME SerialInv, NEW w \in Workers, HistoryCommit(w), SameMeetings
    PROVE  /\ \A c \in RowIds' : AddsUp(c)'
           /\ CreatedInMeeting'
           /\ OneRunWritesAMeeting'
  <1>1. TypeOK /\ RowIds' = RowIds
    BY ReconcileFrame DEF SerialInv
  <1>2. \A c \in RowIds' : AddsUp(c)'
    BY <1>1, ReconcileSettles
  <1>3. \A e \in events : e.run \in 1..Len(runs) /\ MeetingOf(e.run)' = MeetingOf(e.run)
    BY <1>1, EventFields DEF SameMeetings
  <1>4. CreatedInMeeting'
    <2>1. ASSUME NEW e \in events', e.type = "created"
          PROVE  rows'[e.commitment].firstSeen = MeetingOf(e.run)'
      <3>1. e \in events /\ rows'[e.commitment].firstSeen = rows[e.commitment].firstSeen
        BY <1>1, <2>1, ReconcileCreatesNone
      <3>2. rows[e.commitment].firstSeen = MeetingOf(e.run)
        BY <2>1, <3>1 DEF SerialInv, CreatedInMeeting
      <3>3. QED
        BY <1>3, <3>1, <3>2
    <2>2. QED
      BY <2>1 DEF CreatedInMeeting
  <1>5. OneRunWritesAMeeting'
    <2>1. \A e \in events' : e.type = "created" => e \in events
      BY <1>1, ReconcileCreatesNone
    <2>2. QED
      BY <1>3, <2>1 DEF SerialInv, OneRunWritesAMeeting
  <1>6. QED
    BY <1>2, <1>4, <1>5

\* Saving starts the trails of its rows; no other run created rows for the meeting.
LEMMA SaveBooks ==
    ASSUME SerialInv, NEW w \in Workers, SaveResults(w), SameMeetings
    PROVE  /\ \A c \in RowIds' : AddsUp(c)'
           /\ CreatedInMeeting'
           /\ OneRunWritesAMeeting'
  <1> DEFINE run == jobs[w].run
             meeting == MeetingOf(run)
  <1>1. TypeOK /\ jobs[w].phase = "saving" /\ ~ jobs[w].extracted
    BY DEF SerialInv, SaveResults
  <1>2. /\ RowIds \subseteq RowIds'
        /\ \A c \in RowIds : rows'[c] = rows[c] /\ mentions'[c] = mentions[c]
        /\ \A c \in RowIds' \ RowIds :
             rows'[c].slip = 0 /\ rows'[c].silence = 0 /\ rows'[c].firstSeen = meeting
        /\ \A e \in events' \ events :
             e.run = run /\ e.type = "created" /\ e.commitment \in RowIds' \ RowIds
        /\ events \subseteq events'
    BY <1>1, SaveTrail
  <1>3. \A e \in events : /\ e.commitment \in RowIds
                          /\ MeetingOf(e.run)' = MeetingOf(e.run)
    BY <1>1, EventFields DEF SameMeetings
  <1>4. \A r : r = run => MeetingOf(r)' = meeting
    BY <1>1, BusyJob DEF SameMeetings, JobOK
  <1>5. \A c \in RowIds : rows[c].firstSeen # meeting
    BY <1>1 DEF SerialInv, InFlight
  <1> HIDE DEF run, meeting
  <1>6. ASSUME NEW c \in RowIds
        PROVE  AddsUp(c)'
    <2>1. Slips(c)' = Slips(c)
      BY <1>2, <1>3 DEF Slips
    <2>2. Silences(c)' = Silences(c)
      BY <1>2 DEF Silences
    <2>3. AddsUp(c) /\ rows'[c] = rows[c]
      BY <1>2 DEF SerialInv
    <2>4. QED
      BY <2>1, <2>2, <2>3 DEF AddsUp
  <1>7. ASSUME NEW c \in RowIds' \ RowIds
        PROVE  AddsUp(c)'
    <2>1. Slips(c)' = {}
      BY <1>2, <1>3 DEF Slips
    <2>2. Silences(c)' \subseteq Meetings
      BY DEF Silences
    <2>3. Cardinality(Silences(c)') \in Nat
      BY <2>2, MeetingsAssumption, FS_Subset, FS_CardinalityType
    <2>4. QED
      BY <1>2, <2>1, <2>3, FS_EmptySet DEF AddsUp
  <1>8. CreatedInMeeting'
    <2>1. ASSUME NEW e \in events', e.type = "created"
          PROVE  rows'[e.commitment].firstSeen = MeetingOf(e.run)'
      <3>1. CASE e \in events
        BY <1>2, <1>3, <2>1, <3>1 DEF SerialInv, CreatedInMeeting
      <3>2. CASE e \notin events
        BY <1>2, <1>4, <3>2
      <3>3. QED
        BY <3>1, <3>2
    <2>2. QED
      BY <2>1 DEF CreatedInMeeting
  <1>9. OneRunWritesAMeeting'
    <2>1. ASSUME NEW e \in events, e.type = "created"
          PROVE  MeetingOf(e.run)' # meeting
      BY <1>3, <1>5, <2>1 DEF SerialInv, CreatedInMeeting
    <2>2. ASSUME NEW e \in events', NEW f \in events', e.type = "created", f.type = "created",
                 MeetingOf(e.run)' = MeetingOf(f.run)'
          PROVE  e.run = f.run
      <3>1. CASE e \in events /\ f \in events
        BY <1>3, <2>2, <3>1 DEF SerialInv, OneRunWritesAMeeting
      <3>2. CASE e \notin events /\ f \notin events
        BY <1>2, <3>2
      <3>3. CASE e \in events /\ f \notin events
        BY <1>2, <1>4, <2>1, <2>2, <3>3
      <3>4. CASE e \notin events /\ f \in events
        BY <1>2, <1>4, <2>1, <2>2, <3>4
      <3>5. QED
        BY <3>1, <3>2, <3>3, <3>4
    <2>3. QED
      BY <2>2 DEF OneRunWritesAMeeting
  <1>10. QED
    BY <1>6, <1>7, <1>8, <1>9

\* A step of the one run leaves it in flight as it should be.
LEMMA RunInFlight ==
    ASSUME SerialInv, NEW w \in Workers, RunStep(w), SameMeetings
    PROVE  InFlight(w)'
  <1>1. TypeOK /\ DOMAIN jobs = Workers
    BY DEF SerialInv, TypeOK
  <1>2. ASSUME NEW job, jobs' = [jobs EXCEPT ![w] = job],
               job.phase \notin {"resolved", "reading", "saving"}
        PROVE  InFlight(w)'
    <2>1. jobs'[w] = job
      BY <1>1, <1>2
    <2>2. QED
      BY <1>2, <2>1 DEF InFlight
  <1>3. Idle.phase \notin {"resolved", "reading", "saving"}
    BY DEF Idle
  <1>4. CASE HistoryCommit(w)
    BY <1>1, <1>2, <1>4, ReconcileFrame
  <1>5. CASE SaveResults(w)
    BY <1>2, <1>3, <1>5 DEF SaveResults
  <1>6. CASE SaveRepeat(w) \/ RunFails(w) \/ RunLost(w)
    BY <1>2, <1>3, <1>6 DEF SaveRepeat, RunFails, RunLost
  <1>7. ASSUME NEW meeting \in Meetings, Submit(w, meeting)
        PROVE  InFlight(w)'
    <2>1. PICK found, asked :
            jobs' = [jobs EXCEPT ![w] =
                      [phase |-> "resolved", run |-> Len(runs) + 1,
                       items |-> found.items, questions |-> asked,
                       decisions |-> found.decisions, seen |-> <<>>,
                       extracted |-> FALSE]]
      BY <1>7 DEF Submit
    <2>2. jobs'[w].phase = "resolved" /\ jobs'[w].run = Len(runs) + 1
      BY <1>1, <2>1
    <2>3. Len(runs) \in Nat /\ UNCHANGED events
      BY <1>1, <1>7 DEF TypeOK, Submit
    <2>4. \A e \in events : e.run # Len(runs) + 1
      BY <1>1, <2>3, EventFields
    <2>5. QED
      BY <2>2, <2>3, <2>4 DEF InFlight
  <1>8. CASE HistorySkip(w)
    <2> DEFINE job == [jobs[w] EXCEPT !.phase = "reconciled"]
    <2>1. jobs' = [jobs EXCEPT ![w] = job] /\ jobs[w].phase = "resolved"
      BY <1>8 DEF HistorySkip
    <2>2. job.phase = "reconciled"
      BY <1>1, <2>1, BusyJob DEF JobOK
    <2> HIDE DEF job
    <2>3. QED
      BY <1>2, <2>1, <2>2
  <1>9. CASE HistoryLoad(w)
    <2> DEFINE open == OpenCommitments(MeetingOf(jobs[w].run))
               held == jobs[w]
               job == [held EXCEPT !.phase = "reading", !.seen = [c \in open |-> rows[c]]]
    <2>1. /\ jobs' = [jobs EXCEPT ![w] = job]
          /\ UNCHANGED <<rows, events>>
          /\ held.phase = "resolved"
      BY <1>9 DEF HistoryLoad
    <2>2. JobOK(held, Len(runs), Len(rows)) /\ Len(runs) \in Nat /\ Len(rows) \in Nat
      BY <1>1, <2>1, BusyJob
    <2>3. \A e \in events : e.run # held.run
      BY <2>1 DEF SerialInv, InFlight
    <2> HIDE DEF open, held
    <2>4. job.phase = "reading" /\ job.run = held.run /\ job.seen = [c \in open |-> rows[c]]
      <3>1. job = [phase |-> "reading", run |-> held.run, items |-> held.items,
                   questions |-> held.questions, decisions |-> held.decisions,
                   seen |-> [c \in open |-> rows[c]], extracted |-> held.extracted]
        BY <2>2, JobFields
      <3> HIDE DEF job
      <3>2. QED
        BY <3>1
    <2> HIDE DEF job
    <2>5. jobs'[w] = job
      BY <1>1, <2>1
    <2>6. QED
      BY <2>1, <2>3, <2>4, <2>5 DEF InFlight
  <1>10. CASE SaveCheck(w)
    <2> DEFINE held == jobs[w]
               known == AlreadyExtracted(MeetingOf(held.run))
               job == [held EXCEPT !.phase = "saving", !.extracted = known]
    <2>1. /\ jobs' = [jobs EXCEPT ![w] = job]
          /\ UNCHANGED rows
          /\ held.phase = "reconciled"
      BY <1>10 DEF SaveCheck
    <2>2. JobOK(held, Len(runs), Len(rows)) /\ Len(runs) \in Nat /\ Len(rows) \in Nat
      BY <1>1, <2>1, BusyJob
    <2>3. ~ known => \A c \in RowIds : rows[c].firstSeen # MeetingOf(held.run)
      BY DEF AlreadyExtracted
    <2>4. UNCHANGED runs
      BY <1>10 DEF SaveCheck
    <2> HIDE DEF held, known
    <2>5. job.phase = "saving" /\ job.run = held.run /\ job.extracted = known
      <3>1. job = [phase |-> "saving", run |-> held.run, items |-> held.items,
                   questions |-> held.questions, decisions |-> held.decisions,
                   seen |-> held.seen, extracted |-> known]
        BY <2>2, JobFields
      <3> HIDE DEF job
      <3>2. QED
        BY <3>1
    <2> HIDE DEF job
    <2>6. jobs'[w] = job
      BY <1>1, <2>1
    <2>7. QED
      BY <2>1, <2>3, <2>4, <2>5, <2>6 DEF InFlight, RowIds, MeetingOf
  <1>11. QED
    BY <1>4, <1>5, <1>6, <1>7, <1>8, <1>9, <1>10 DEF RunStep

\* A step of an answer, or none, leaves the one run in flight as it should be.
LEMMA OtherInFlight ==
    ASSUME SerialInv, UNCHANGED <<events, runs, jobs>>, RowIds' = RowIds,
           \A c \in RowIds : SameTrail(rows[c], rows'[c]), NEW w \in Workers
    PROVE  InFlight(w)'
  <1>1. InFlight(w) /\ TypeOK
    BY DEF SerialInv
  <1>2. jobs[w].phase = "reading" => DOMAIN jobs[w].seen \subseteq RowIds
    BY <1>1, BusyJob DEF JobOK, RowIds
  <1>3. QED
    BY <1>1, <1>2 DEF InFlight, SameTrail, MeetingOf

LEMMA SerialStep ==
    ASSUME AtMostOneWorker
    PROVE  SerialInv /\ [Next]_vars => SerialInv'
  <1> SUFFICES ASSUME SerialInv, [Next]_vars PROVE SerialInv'
    OBVIOUS
  <1>1. TypeOK /\ TypeOK' /\ SameMeetings
    BY TypeStep, MeetingsStay DEF SerialInv
  <1>2. ASSUME UNCHANGED <<mentions, events, runs, jobs>>, RowIds' = RowIds,
               \A c \in RowIds : SameTrail(rows[c], rows'[c])
        PROVE  SerialInv'
    <2>1. \A w \in Workers : InFlight(w)'
      BY <1>2, OtherInFlight
    <2>2. /\ \A c \in RowIds' : AddsUp(c)'
          /\ CreatedInMeeting'
          /\ OneRunWritesAMeeting'
      BY <1>1, <1>2, QuietBooks
    <2>3. QED
      BY <1>1, <2>1, <2>2 DEF SerialInv
  <1>3. ASSUME NEW w \in Workers, RunStep(w)
        PROVE  SerialInv'
    <2>1. \A v \in Workers : InFlight(v)'
      <3>1. InFlight(w)'
        BY <1>1, <1>3, RunInFlight
      <3>2. \A v \in Workers : v = w
        BY DEF AtMostOneWorker
      <3>3. QED
        BY <3>1, <3>2
    <2>2. /\ \A c \in RowIds' : AddsUp(c)'
          /\ CreatedInMeeting'
          /\ OneRunWritesAMeeting'
      <3>1. CASE HistoryCommit(w)
        BY <1>1, <3>1, ReconcileBooks
      <3>2. CASE SaveResults(w)
        BY <1>1, <3>2, SaveBooks
      <3>3. CASE ~ HistoryCommit(w) /\ ~ SaveResults(w)
        <4>1. UNCHANGED <<rows, mentions, events>>
          BY <1>3, <3>3, QuietTrail
        <4>2. RowIds' = RowIds /\ \A c \in RowIds : SameTrail(rows[c], rows'[c])
          BY <4>1 DEF RowIds, SameTrail
        <4>3. QED
          BY <1>1, <4>1, <4>2, QuietBooks
      <3>4. QED
        BY <3>1, <3>2, <3>3
    <2>3. QED
      BY <1>1, <2>1, <2>2 DEF SerialInv
  <1>4. ASSUME NEW h \in Handlers, AnswerStep(h)
        PROVE  SerialInv'
    <2>1. CASE AnswerCommit(h)
      BY <1>1, <1>2, <2>1, AnswerTrail
    <2>2. CASE ~ AnswerCommit(h)
      <3>1. UNCHANGED <<rows, mentions, events, runs, jobs>>
        BY <1>4, <2>2, QuietAnswer
      <3>2. RowIds' = RowIds /\ \A c \in RowIds : SameTrail(rows[c], rows'[c])
        BY <3>1 DEF RowIds, SameTrail
      <3>3. QED
        BY <1>2, <3>1, <3>2
    <2>3. QED
      BY <2>1, <2>2
  <1>5. CASE UNCHANGED vars
    <2>1. UNCHANGED <<rows, mentions, events, runs, jobs>>
      BY <1>5 DEF vars
    <2>2. RowIds' = RowIds /\ \A c \in RowIds : SameTrail(rows[c], rows'[c])
      BY <2>1 DEF RowIds, SameTrail
    <2>3. QED
      BY <1>2, <2>1, <2>2
  <1>6. QED
    BY <1>3, <1>4, <1>5 DEF Next

LEMMA SerialInit == Init => SerialInv
  <1> SUFFICES ASSUME Init PROVE SerialInv
    OBVIOUS
  <1>1. TypeOK
    BY TypeInit
  <1>2. RowIds = {} /\ events = {}
    BY DEF Init, RowIds
  <1>3. \A w \in Workers : jobs[w] = Idle
    BY DEF Init
  <1>4. \A w \in Workers : InFlight(w)
    BY <1>2, <1>3 DEF InFlight, Idle
  <1>5. CreatedInMeeting /\ OneRunWritesAMeeting
    BY <1>2 DEF CreatedInMeeting, OneRunWritesAMeeting
  <1>6. QED
    BY <1>1, <1>2, <1>4, <1>5 DEF SerialInv

LEMMA Serially ==
    ASSUME AtMostOneWorker
    PROVE  Spec => []SerialInv
  <1>1. SerialInv /\ [Next]_vars => SerialInv'
    BY SerialStep
  <1>2. QED
    BY <1>1, SerialInit, PTL DEF Spec

\* With one run at a time, a meeting's commitments are written by one run however
\* often its transcript is submitted and whichever runs of it fail or are lost on
\* the way (services/persistence.py).
THEOREM OneRunWrites ==
    ASSUME AtMostOneWorker
    PROVE  Spec => []OneRunWritesAMeeting
  <1>1. SerialInv => OneRunWritesAMeeting
    BY DEF SerialInv
  <1>2. QED
    BY <1>1, Serially, PTL

\* With one run at a time, the slip count of a row is the number of slips on its
\* audit trail, whatever answers are written beside it (agents/historian.py).
THEOREM SlipsOnTrail ==
    ASSUME AtMostOneWorker
    PROVE  Spec => []SlipsAreOnTrail
  <1>1. SerialInv => SlipsAreOnTrail
    BY DEF SerialInv, AddsUp, SlipsAreOnTrail, Slips
  <1>2. QED
    BY <1>1, Serially, PTL

\* With one run at a time, a silence streak is backed by as many meetings recorded
\* as silent (agents/historian.py).
THEOREM SilenceRecorded ==
    ASSUME AtMostOneWorker
    PROVE  Spec => []SilenceIsRecorded
  <1>1. SerialInv => SilenceIsRecorded
    BY DEF SerialInv, AddsUp, SilenceIsRecorded, Silences
  <1>2. QED
    BY <1>1, Serially, PTL

=============================================================================

-------------------------- MODULE HistorianBatches --------------------------
(***************************************************************************)
(* The Historian at work: the ledger with its reconciliation taken apart.  *)
(* Ledger reconciles in one step; here the open commitments are put to the *)
(* model batch by batch, each verdict edits a copy and writes a mention    *)
(* at once, in a transaction that is committed when the last silence is    *)
(* written.  The mentions of an open transaction hold their place in the   *)
(* unique index: another run of the meeting that wants to write one waits, *)
(* and the database aborts a run of those that wait for one another.       *)
(***************************************************************************)
EXTENDS Ledger, SequencesExt, Relation

CONSTANTS
    Relevance,  \* how much each text has in common with each transcript
    BatchSize,  \* commitments put to the model in one call
    Replies     \* what the model may return about a batch

\* A verdict of a reply: the number of the commitment in its batch, what became
\* of it, and the number of the item that makes the same promise, if any.  The
\* model counts both from zero, and may miscount.
BatchVerdict ==
    [index : Nat, mentioned : BOOLEAN, verdict : Verdict, restates : Nat \cup {None}]

ASSUME MaxCheckedAssumption == MaxChecked \in Nat
ASSUME BatchSizeAssumption == BatchSize \in Nat \ {0}
ASSUME RepliesAssumption == Replies \subseteq Seq(BatchVerdict)

VARIABLE talks  \* the session each worker's Historian has open

allVars == <<vars, talks>>

MeetingAt(w) == MeetingOf(jobs[w].run)
Day(w) == RunDay[jobs[w].run]

\* A talk: the commitments to check and the first not asked about; the batch at
\* hand, which attempt at it this is, and the verdicts still to be applied; what
\* was applied, to copies and mentions; the mention that is being written.
Opened(copies, checked) ==
    [checked |-> checked, next |-> 1, batch |-> <<>>, attempt |-> 1, verdicts |-> <<>>,
     said |-> [c \in {} |-> None], restated |-> {},
     copies |-> copies, notes |-> [c \in {} |-> None], trail |-> {},
     wants |-> None]

\* The function that also maps c to v.
Also(f, c, v) == [x \in DOMAIN f \cup {c} |-> IF x = c THEN v ELSE f[x]]

Reading(w) == jobs[w].phase = "reading"

BatchedInit == Init /\ talks = [w \in Workers |-> Idle]

-----------------------------------------------------------------------------
(***************************************************************************)
(* Loading, asking.                                                        *)
(***************************************************************************)

\* The open commitments, those that have most in common with the transcript
\* first, down to the cap.
Checked(meeting, open) ==
    LET Score(c) == Relevance[meeting][rows[c].text] IN
    {SubSeq(s, 1, IF Len(s) < MaxChecked THEN Len(s) ELSE MaxChecked) :
       s \in {s \in SetToSeqs(open) :
                \A i, j \in DOMAIN s : i < j => Score(s[i]) >= Score(s[j])}}

Open(w) ==
    /\ HistoryLoad(w)
    /\ LET open == OpenCommitments(MeetingAt(w)) IN
       \E checked \in Checked(MeetingAt(w), open) :
         talks' = [talks EXCEPT ![w] = Opened([c \in open |-> rows[c]], checked)]

\* Nothing is being applied or written, and there is something left to ask.
Asking(w) ==
    /\ Reading(w)
    /\ talks[w].verdicts = <<>> /\ talks[w].wants = None
    /\ talks[w].next <= Len(talks[w].checked)

BatchEnd(talk) ==
    LET last == talk.next + BatchSize - 1 IN
    IF last < Len(talk.checked) THEN last ELSE Len(talk.checked)

\* The model returns verdicts, or nothing that fits its schema.
Reply(w, verdicts) ==
    /\ Asking(w)
    /\ LET talk == talks[w]
           last == BatchEnd(talk)
           batch == SubSeq(talk.checked, talk.next, last)
       IN talks' = [talks EXCEPT
                      ![w] = [talk EXCEPT !.batch = batch, !.next = last + 1, !.attempt = 1,
                                          !.verdicts = verdicts]]
    /\ UNCHANGED vars

AttemptsLeft(talk) == talk.attempt < 2

\* The call raises: one more attempt, then the batch is passed over.
CallRaises(w) ==
    /\ Asking(w)
    /\ talks' = [talks EXCEPT
                   ![w] = IF AttemptsLeft(@)
                            THEN [@ EXCEPT !.attempt = 2]
                            ELSE [@ EXCEPT !.attempt = 1, !.next = BatchEnd(talks[w]) + 1]]
    /\ UNCHANGED vars

-----------------------------------------------------------------------------
(***************************************************************************)
(* Applying and writing.                                                   *)
(***************************************************************************)

\* The position of the item a verdict folds into its commitment: none that was
\* folded before, none too far from it in its text, none of another owner.
Folds(talk, c, verdict, items) ==
    {i \in DOMAIN items \ talk.restated :
       /\ verdict.restates # None /\ i = verdict.restates + 1
       /\ Restates(talk.copies[c], items[i])}

FirstVerdict(talk, c) == c \notin DOMAIN talk.said

\* The next verdict is applied to its copy, if it is the first on a commitment
\* of the batch; a duplicate may still fold an item.
Hear(w) ==
    /\ Reading(w)
    /\ talks[w].verdicts # <<>> /\ talks[w].wants = None
    /\ LET talk == [talks[w] EXCEPT !.verdicts = Tail(@)]
           head == Head(talks[w].verdicts)
           c == talk.batch[head.index + 1]
           folding == [talk EXCEPT !.restated = @ \cup Folds(talk, c, head, jobs[w].items)]
           applied ==
             [folding EXCEPT
                !.said = Also(@, c, head.verdict),
                !.copies[c] = Apply(@, head.verdict, MeetingAt(w)),
                !.trail = @ \cup {[run |-> jobs[w].run, commitment |-> c,
                                   type |-> EventOf(head.verdict.outcome)]},
                !.wants = c]
       IN talks' = [talks EXCEPT
                      ![w] = CASE ~ head.mentioned \/ head.index >= Len(talk.batch) -> talk
                               [] OTHER -> IF FirstVerdict(talk, c) THEN applied ELSE folding]
    /\ UNCHANGED vars

\* Commitments that are owed and that no verdict spoke of.
Unmentioned(w) ==
    {c \in DOMAIN talks[w].copies \ DOMAIN talks[w].said : Owed(talks[w].copies[c], Day(w))}

\* All batches are through: another commitment's silence is written.
FallSilent(w, c) ==
    /\ Reading(w)
    /\ talks[w].verdicts = <<>> /\ talks[w].wants = None
    /\ talks[w].next > Len(talks[w].checked)
    /\ c \in Unmentioned(w) \ DOMAIN talks[w].notes
    /\ talks' = [talks EXCEPT ![w] = [@ EXCEPT !.wants = c]]
    /\ UNCHANGED vars

\* Mutant of Blocks: the row that an open transaction inserted blocks nobody.
BlocksNobody(v, w) == FALSE

\* Whether w waits for v: they write the same mention, and v wrote it first.
Blocks(v, w) ==
    /\ v # w /\ Reading(v) /\ Reading(w)
    /\ MeetingAt(v) = MeetingAt(w)
    /\ talks[w].wants \in DOMAIN talks[v].notes

\* The mention is inserted, or rewritten when it is there.  The first time a
\* meeting is silent on a commitment adds to its streak.
Write(w) ==
    /\ Reading(w)
    /\ talks[w].wants # None
    /\ \A v \in Workers : ~ Blocks(v, w)
    /\ LET talk == talks[w]
           c == talk.wants
           first == mentions[c][MeetingAt(w)] = None
           noted == [talk EXCEPT !.wants = None]
           heard == [noted EXCEPT !.notes = Also(@, c, talk.said[c].outcome)]
           silent == [noted EXCEPT !.notes = Also(@, c, "unmentioned")]
           counted ==
             [silent EXCEPT
                !.copies[c].silence = @ + 1,
                !.trail = @ \cup {[run |-> jobs[w].run, commitment |-> c,
                                   type |-> "unmentioned"]}]
       IN talks' = [talks EXCEPT
                      ![w] = CASE c \in DOMAIN talk.said -> heard
                               [] c \notin DOMAIN talk.said /\ first -> counted
                               [] OTHER -> silent]
    /\ UNCHANGED vars

\* The transaction is committed: copies are written back, mentions and events
\* are there for all to see, and the folded items leave the run.
Commit(w) ==
    /\ Reading(w)
    /\ talks[w].verdicts = <<>> /\ talks[w].wants = None
    /\ talks[w].next > Len(talks[w].checked)
    /\ Unmentioned(w) \subseteq DOMAIN talks[w].notes
    /\ LET talk == talks[w]
           seen == jobs[w].seen
           meeting == MeetingAt(w)
       IN
       /\ rows' = [c \in RowIds |-> IF c \in DOMAIN seen
                                      THEN Flush(rows[c], seen[c], talk.copies[c]) ELSE rows[c]]
       /\ mentions' = [c \in RowIds |-> IF c \in DOMAIN talk.notes
                                          THEN Record(mentions[c], meeting, talk.notes[c])
                                          ELSE mentions[c]]
       /\ events' = events \cup talk.trail
       /\ folded' = folded \cup {<<meeting, jobs[w].items[i].text>> : i \in talk.restated}
       /\ \E kept \in Kept(jobs[w].items, talk.restated) :
            jobs' = [jobs EXCEPT ![w].phase = "reconciled",
                                 ![w].seen = <<>>,
                                 ![w].items = Picked(jobs[w].items, kept)]
    /\ talks' = [talks EXCEPT ![w] = Idle]
    /\ UNCHANGED <<decided, runs, clars, replies>>

-----------------------------------------------------------------------------
\* Mutant of Deadlocked: what holds the runs up is a lock the database does not
\* know of, and nobody looks for a cycle.
DeadlockUnseen(w) == FALSE

\* Whether w waits, through whom ever, for itself.
Deadlocked(w) ==
    TransitiveClosure([p \in Workers \X Workers |-> Blocks(p[1], p[2])], Workers)[w, w]

\* Mutant of Break: the session is left open by the exception.
BreakLeavingSession(w) ==
    /\ RunFails(w) \/ RunLost(w)
    /\ UNCHANGED talks

\* A run ends early: its transaction is rolled back.
Break(w) ==
    /\ RunFails(w) \/ RunLost(w)
    /\ talks' = [talks EXCEPT ![w] = Idle]

\* The database aborts it, and the exception fails the run.
Abort(w) ==
    /\ Reading(w)
    /\ Deadlocked(w)
    /\ RunFails(w)
    /\ talks' = [talks EXCEPT ![w] = Idle]

\* What the Historian does next, once it has loaded.
Proceed(w) ==
    \/ \E verdicts \in Replies : Reply(w, verdicts)
    \/ CallRaises(w)
    \/ Hear(w)
    \/ \E c \in RowIds : FallSilent(w, c)
    \/ Write(w)
    \/ Commit(w)

\* The steps of the ledger that are not the Historian's.
Elsewhere(w) ==
    /\ \/ \E meeting \in Meetings : Submit(w, meeting)
       \/ HistorySkip(w) \/ SaveCheck(w) \/ SaveRepeat(w) \/ SaveResults(w)
    /\ UNCHANGED talks

BatchedNext ==
    \/ \E w \in Workers : Open(w) \/ Proceed(w) \/ Break(w) \/ Abort(w) \/ Elsewhere(w)
    \/ \E h \in Handlers : AnswerStep(h) /\ UNCHANGED talks

\* A model's call ends, the transaction goes on, and the database looks for
\* deadlocks; nothing is owed by the runs' other steps.
BatchedSpec ==
    /\ BatchedInit /\ [][BatchedNext]_allVars
    /\ \A w \in Workers : WF_allVars(Proceed(w))
    /\ WF_allVars(\E w \in Workers : Abort(w))

-----------------------------------------------------------------------------
TalkOK(talk, job) ==
    /\ DOMAIN talk.copies = DOMAIN job.seen
    /\ talk.checked \in Seq(DOMAIN job.seen)
    /\ talk.next \in 1..(Len(talk.checked) + 1)
    /\ talk.attempt \in 1..2
    /\ talk.batch \in Seq(Range(talk.checked))
    /\ talk.verdicts \in Seq(BatchVerdict)
    /\ DOMAIN talk.said \subseteq Range(talk.checked)
    /\ talk.restated \subseteq DOMAIN job.items
    /\ talk.wants \in DOMAIN job.seen \cup {None}
    /\ DOMAIN talk.notes \subseteq DOMAIN job.seen

\* A session is open exactly while its run's Historian is at work, and asks,
\* edits and notes only what it loaded (historian.py 188-245).
BatchedTypeOK ==
    /\ DOMAIN talks = Workers
    /\ \A w \in Workers : IF Reading(w) THEN TalkOK(talks[w], jobs[w]) ELSE talks[w] = Idle

\* Batch by batch, with duplicates, failures and runs that wait for each other's
\* mentions, the Historian does to the ledger what Ledger says it does at once:
\* no verdict counts twice, no silence is counted by two runs of a meeting, and a
\* run that breaks off leaves nothing behind (historian.py 162-245, 358-560).
ReconcilesAtOnce == Init /\ [][vars' # vars => Next]_vars

\* A reconciliation that has begun ends: the batches run out, and of runs that
\* wait for each other's mentions one is aborted (historian.py 221-299, 391-415).
ReconciliationEnds == \A w \in Workers : Reading(w) ~> ~ Reading(w)

=============================================================================

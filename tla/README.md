# Kept, in TLA+

Kept turns meeting transcripts into a ledger of commitments. A run reads one
transcript with a team of language-model agents, reconciles what it hears with
the commitments of earlier meetings, creates tasks on a tracker, and leaves
questions for a human where an owner or a date could not be settled. This
directory holds TLA+ models of the parts where order, failure and concurrency
matter and of the rules that decide what is written, the TLC instances that check
them, and proofs of the facts about them that matter most.

Paths below are relative to `src/backend/app/` unless they start with `docs/`.

## 1. The system

### Components, their state and their operations

| Component | State | Operations |
|---|---|---|
| Ledger (`services/persistence.py`, `services/ledger.py`, `models/`) | commitments, mentions, events, decisions, runs, clarifications | upsert of a meeting, save of a run, repeat of a run |
| Historian (`agents/historian.py`) | the rows it loaded and an open transaction, for the length of the model calls | reconcile: batches, verdicts, mentions, silence, folding |
| Clarifications (`api/clarifications.py`, `deps.py`) | one session per request | answer or dismiss a question |
| Run endpoint (`api/meetings.py`) | run rows, an event queue per stream | submit, stream, fail, save |
| Meeting graph (`graph/`, `agents/handoff.py`) | the state the teams share | route, four teams, refusal, rerun, finish |
| Execution (`agents/execution.py`) | one outcome per item | create tasks in turn |
| Task client (`services/task_client.py`) | breaker, attempts of the call | create with retries |
| Mock tracker (`api/mock_tasks.py`) | tasks, unique on key | idempotent create |
| Model router (`services/model_router.py`, `agents/middleware.py`) | credentials, overrides | chain of a tier, the Skeptic's other provider, pacing of a call |
| Extraction (`agents/intelligence.py`, `services/verifier.py`, `services/segmentation.py`) | none beyond a run | briefs side by side, grounding, twins, review |
| Resolution (`agents/resolution.py`, `services/temporal.py`) | none beyond a run | owner and deadline of an item, by rule and then by agent |
| Token budget (`services/rate_budget.py`) | spends of the last minute | reserve, reconcile |
| Search (`services/search.py`) | spent budget, cached results | search |
| Roster (`services/roster.py`) | people | match, enrol |
| Views, sweep, risk (`api/views.py`, `api/internal.py`, `services/risk.py`) | none of their own | lists and pages over the ledger, what is late, draft nudges |
| Auth (`security/auth.py`) | counters per address | check and count |
| Session pool (`db/session.py`) | five connections | check out, return |

How they interact:

* A **run** is submitted over HTTP (a first transaction stores meeting and run),
  executes the graph in a task of its own, and is saved by the request that
  streams it (a last transaction). In the middle, the graph's history team has
  the Historian reconcile the ledger in a **third transaction of its own**, which
  stays open across its model calls and makes another run of the meeting wait.
* **Answers** are separate requests with a session each. Sessions run under READ
  COMMITTED without row locks: a session loads rows, keeps its copies, and writes
  back the columns it changed.
* A run's **stream** has three parties: a task that drives the graph and puts
  reports in a queue, a generator that forwards them and saves the result, and a
  reader who may leave.
* The Analyst's three **briefs** run beside each other; the calls of all agents of
  the process share one token budget per model, whose lock a caller may sleep on.
* Inside a run, the Chief of Staff delegates to **teams**, which share one state.
  Items are known by **position**, and questions refer to positions.
* The execution team calls the tracker **over HTTP**, through a client with
  retries and a circuit breaker that belong to the run.

### What makes it hard

Two transactions with minutes between them; copies written back after other
sessions wrote; a run that fails after its first write and is submitted again; a
model that routes as it likes and answers what it likes; positions that shift;
requests that outlive the client that gave up on them; a reader who leaves before
the save; callers that wait for a lock whose holder sleeps; names that several
people bear. `PROJECT.json` lists every hazard at its line, with
the property that covers it or the reason why none does.

## 2. The modules

| Module | What it is | Models |
|---|---|---|
| `Blackboard` | positions of items, and taking some out | the filter of `graph/meeting_graph.py` |
| `Ledger` | every write to the ledger by runs and answers | `agents/historian.py`, `services/persistence.py`, `services/ledger.py`, `api/clarifications.py`, `api/meetings.py` |
| `Risk` | the risk score | `services/risk.py` |
| `Console` | the pages and the sweep as queries over `Ledger` | `api/views.py`, `api/internal.py` |
| `HistorianBatches` | the reconciliation taken apart, implements `Ledger` | `agents/historian.py`, `graph/meeting_graph.py` |
| `Supervision` | abstract: what a supervisor promises of its teams | |
| `MeetingGraph` | one run's graph, implements `Supervision` | `graph/meeting_graph.py`, `agents/handoff.py` |
| `Delivery` | abstract: what creating tasks promises | |
| `TaskClient` | client, breaker, network and tracker, implements `Delivery` | `agents/execution.py`, `services/task_client.py`, `api/mock_tasks.py` |
| `Selection` | choosing from sequences by position: comprehensions, lowest and highest | |
| `Router` | which models serve a tier | `services/model_router.py` |
| `Briefs` | the concurrent briefs and the token budget | `agents/intelligence.py`, `agents/middleware.py`, `services/rate_budget.py` |
| `RunStream` | `Briefs` inside one run and its stream | `api/meetings.py`, `graph/meeting_graph.py` |
| `Evidence` | turns of a transcript, and where a quote is found | `services/segmentation.py`, `services/verifier.py` |
| `Extraction` | grounding, twins, the Skeptic's review | `agents/intelligence.py` |
| `Roster` | matching and enrolling people | `services/roster.py` |
| `Calendar` | what a spoken deadline means | `services/temporal.py` |
| `Resolution` | owner and deadline of an item | `agents/resolution.py` |
| `Reading` | a transcript from submission to save, composes the five above | the files above, `api/meetings.py`, `models/domain.py` |
| `LedgerProofs`, `ConsoleProofs`, `HistorianProofs`, `MeetingGraphProofs`, `TaskClientProofs`, `RunStreamProofs`, `ReadingProofs`, `SelectionProofs` | theorems | |
| `MCLedger`, `MCHistorian`, `MCMeetingGraph`, `MCTaskClient`, `MCRunStream`, `MCReading` | constants of the TLC instances | |

### Ledger

Rows are a sequence, in insertion order, so a row's id is its position; mentions
are per row and meeting, which is their unique key. A run is a job on a worker:

| Action | Code |
|---|---|
| `Submit` | `run_meeting`, then the graph up to resolved items and their questions |
| `HistorySkip` | the Chief never ran history, or there was nothing to reconcile |
| `HistoryLoad` | `open_commitments`: the session takes its copies |
| `HistoryCommit` | `reconcile` with `_apply`, `_record_mention`, `_record_silence`, its commit, and the filter of the folded items |
| `SaveCheck` | `_already_extracted`, which reads before the save writes |
| `SaveRepeat`, `SaveResults` | `_record_repeat_run`, the rest of `save_run_results` |
| `RunFails` | an exception in the graph, `_mark_failed` |
| `RunLost` | a dead process, a disconnected reader, an exception in the save |
| `AnswerOpen`, `AnswerLoad`, `AnswerCheck`, `AnswerCommit`, `AnswerRollback` | `resolve_clarification`, one step for each time it awaits the database |

`Flush` is the write-back of a session: column by column, and only where the copy
was edited. That is SQLAlchemy's rule, taken from how the code uses it, and what
`OwnersSurvive` depends on. A verdict is any outcome the schema admits for any
subset of at most `MaxChecked` loaded rows: a model may leave one out, a batch may
fail, and rows past the cap are not asked about. `folded` is a history variable.

Of a run's events only those of the Historian and the `created` ones are kept,
because the counters are compared with them. Dates are numbers; what a phrase
resolves to is any date or none. An extraction is any of the constant's choices.

### HistorianBatches

`Ledger` reconciles in one step, `HistoryCommit`. Here that step is taken apart
into the session the code keeps open, `talks[w]`:

| Action | Code |
|---|---|
| `Open` | `open_commitments`, the sort by relevance, the cap |
| `Reply`, `CallRaises` | `_check_batch`: verdicts about the next batch, or one more attempt and then none |
| `Hear` | one verdict of the loop in `reconcile`: the bounds of its index, `_restated_index`, `_apply` on a copy |
| `Write` | `_record_mention`, once nobody's open transaction has the same mention |
| `FallSilent` | the next row of `_record_silence` |
| `Commit` | the commit of the session and the filter of the folded items |
| `Break`, `Abort` | an exception anywhere, and the one the database raises in a deadlock |

The session is opened without autoflush (`db/session.py:87`): copies and events
are written at the commit, mentions as soon as they are made. A mention that an
open transaction has inserted holds its place in the unique index, so `Blocks` is
the only way one run waits for another, and a cycle of it is a deadlock.
Everything else, submission, save and answers, is `Ledger`'s own (`Elsewhere`,
`AnswerStep`). The abstract specification is `Ledger`'s `Spec` under the identity
mapping: every other step of the Historian is a stutter of the ledger. 

### Risk and Console

A score is exact in 1/42 of a thousandth, the common denominator of the shares,
where the code has floats. A page of the console is an operator of the ledger's
state and of the day it is read on, named for its handler: nothing is stored, so
every state of `Ledger` is a state in which it may be read. Columns `Ledger`
leaves out (confidences, blockers, conditions) are one constant record, `Stated`.

A sweep has several possible answers (`Sweeps`), because three things are not the
ledger's: the order of rows due on one day, which is the database's; which drafts
fail (`draft_nudge` returns None and the name gets no nudge); and whether it is a dry
run, which writes none. `FirstNames` is the list the code cuts off at
`MAX_OWNERS_NUDGED`: names in the order in which the rows, sorted by date, come to
them. Names, not people: the code groups by `item.owner.name`, so `Namings` says what
people are called, and two of one name share a nudge. A nudge speaks of what was late
when the sweep read it; what changes until its drafts are committed, and the rows of
`Communication`, are left out.

`SweepAgreesWithPages` says what that amounts to. The lists, the pages and the sweep
have filters of their own and name the same work. A nudge carries everything that is
late on the pages under its name, and there are no more nudges than the limit and the
late names allow. What lies beyond the limit is counted as skipped. A name is nudged
only if fewer names than the limit have been late for longer.

### MeetingGraph

`Visit` is one superstep of the graph. The Chief's choice is free: `Delegate` to
any team, `Finish`, or no route (`Advance`, `RunOut`). The guards of the teams are
the code's: `Refuse` for a team that has reported, `MayRerun` for extraction.
What the teams' agents decide (what is found, who is known, what restates the
ledger, which creates fail) is free too. `Raise` is an exception of any node,
`OutOfSteps` the recursion limit. `work` is a history variable.

`Supervision` knows only how often each team worked and how the run ended. The
mapping hides the hops on which the Chief routes or a team refuses, and reads
running out of steps as a failure.

### TaskClient

A call is made of attempts; an attempt is a request that travels on its own. It is
looked up and inserted in two steps (`Miss`, `Insert`), so another request of the
same key may come between; its client may have given up on it by then. A request
of no further use (nobody awaits it, and it can store nothing) is dropped from the
set, which keeps the state finite and changes nothing anyone can see. `Rest` is
the clock of the breaker. `burst` is a history variable.

`Delivery` knows only how many tasks each key was given and what each item counts
as. An item may count as failed although its task exists: that is what the code
does after an ambiguous error, and the abstract specification says so.

### Briefs and RunStream

| Action | Code |
|---|---|
| `Extract`, `StartBriefs` | the first team fans out, a brief each |
| `Enter`, `PauseEnds` | the semaphore, and the pause of a second attempt inside it |
| `Reserve`, `Wake` | `reserve`: under the lock, drop what has aged, then book or sleep |
| `CallUnpaced` | a call of a model that is not metered |
| `Return`, `Raise` | the call ends; `reconcile` on success, another attempt or a failed brief otherwise |
| `Expire` | the oldest spend leaves the window |
| `Extracted`, `Finish`, `Raises` | reports of the teams, or a node that raises |
| `AnnounceEnd` | the done callback of the task |
| `Forward`, `Join`, `Save`, `SaveRaises`, `Tell` | the generator |
| `Leave` | the reader disconnects |

Time is an order: spends are kept oldest first and `aged` of them have left the
window of a minute. The code sleeps *holding* the lock until the oldest spend has
aged, so others wait for it: `sleeper`. `Reconcile` replaces the newest entry that
is equal to the estimate, whosever it is, as the code does. `rolled` is a history
variable. The settings (credentials, overrides) are chosen in `Init` and give, through
`Router`, the `chains`: which models serve the Analyst and the Skeptic, in which
order, and hence whether the Analyst's calls are paced. Tokens are counted one by
one, as a set, so that their sum is a cardinality.

The end of the stream is what the code makes it: the task's end is put in the
queue by its callback, the generator joins the task, saves, and only then tells
the reader. A reader who leaves closes the generator where it stands; the task
goes on and nobody saves. An exception while saving breaks the response off.

### Reading

Runs follow one another and share a roster: `Post` segments the transcript and
enrols its new speakers, `Reply` is the Analyst's batch with at most one
correction, `ReviewReply` grounds it, takes twins out and applies the Skeptic's
verdicts by position, `ResolveItems` finds owners and dates by rule and then by an
agent, `Save` stores all items or none: the table's check refuses a confidence
outside 0..1, and the code can compute one below 0 for a speaker whose label two
people bear. What models reply is any of the constants' choices.

Text is abstracted to what the rules look at. A transcript is a sequence of lines
with a label and a sentence; a quote copies a sentence exactly, but for case and
space, but for a word, or not at all; a name is a sequence of words, and likeness
of names and of bodies is a relation given as a constant; a phrase is the set of
marks that the rules of `resolve` search for. The rules are kept in their order,
for a phrase may match several. Days are numbers, and the calendar is the
sequence of the first days of its months.

The comprehensions of the Python code (`[x for x in xs if ...]`) are `Select` of
`Selection`: a sequence at some of its positions, in their order. It is defined by
how many positions lie below each, not by recursion, so that the proofs about
`Reading` and `RunStream` can say what a comprehension keeps.

## 3. What is checked

| Run | Question | Result |
|---|---|---|
| `LedgerSerial` | With one run at a time, failing or lost anywhere: do the counters agree with the trail, is a meeting written once, do runs leave closed rows alone, does the last answer confirm, and does a row look safer only after news of it? | holds |
| `LedgerRacing` | With two runs and an answer in flight: are owners kept, confirmed rows owned, silences counted once, mentions there? Do a sweep with its limit and the pages of two people, of one name or two, name the same work, and whom does it pass over? | holds |
| `HistorianBatches` | Two runs reconcile verdict by verdict beside each other and beside an answer, wait for each other's mentions, fail and are aborted: is it the one step of `Ledger`, does a run that ends leave no session, and does every reconciliation end? | holds |
| `MeetingGraph` | Does every routing implement `Supervision`? Are requested reruns granted, do questions fit their items until something is folded? | holds |
| `TaskClient` | At most one task per key, task numbers of one's own, bounded hammering, and every item of a run that lives settled | holds |
| `RunStream` | Under any of five settings, with a reader who leaves when they like and a save that may raise: do all briefs settle, do bursts stay below the ceiling, is review independent where it can be, is the reader told the truth, after all reports, and told at all? | holds |
| `Reading` | Three transcripts in any order and again, whatever the agents reply: does an item disappear only for a reason, is nobody guessed, is "I" the speaker, is a date the nearest that fits, does enrolment settle, and is a save refused for shared labels only? | holds |
| `LedgerWrongQuestion` | "the commitment the question was about" (`api/clarifications.py:70`) | violated |
| `LedgerUnfolded` | no "two rows for one obligation" (`graph/meeting_graph.py:326`) | violated |
| `LedgerReopened` | nothing leaves done or dropped (`docs/diagrams/lifecycle.md:21`) | violated |
| `MeetingGraphLoops` | "it cannot loop" (`docs/adr/0001-hybrid-supervisor.md:48`) | violated |
| `MeetingGraphAbandons` | a supervisor that cannot abandon the work (`docs/ARCHITECTURE.md:216`) | violated |

The five violations are disagreements between the code and its own
documentation, described under `findings` in `PROJECT.json`:

1. **Wrong question.** Resolution numbers the items, history takes folded items
   out, the save looks questions up by the old numbers.
2. **Unfolded.** The Historian commits, the run fails, the retry does not compare
   the rows the first attempt touched and writes the folded obligation again.
3. **Reopened.** Completing a commitment leaves its question open, and an answer
   to it sets the status to confirmed.
4. **Loop.** The tool call limit is of one invocation of the Chief, and the Chief
   is invoked afresh at every hop.
5. **Abandoned.** A team that ran before its input existed counts as having run.

### Bounds, and why they are enough

* **Ledger**: two meetings, three runs: one to create, one to reconcile, one to
  repeat either. One person (two in `LedgerRacing`) and up to two days: a column either changes or does
  not, a date is owed or is not. At most two rows are compared in one run, so
  that the cap is met when there are more. `LedgerSerial` has one worker: the
  invariants of counters and of a meeting written once are true of runs that do
  not overlap, the leftover task of a disconnected reader included, and **false
  of runs that do** (see the hazards: a lost slip, a meeting written twice); the
  deployment the code is written for has one process, which does not prevent it.
  `LedgerRacing` has two workers and one answer, which is every kind of race on
  one row. Two answers at once can leave a row waiting with no question open, so
  `WaitsOnlyForAnOpenQuestion` is checked with one.
* **HistorianBatches**: one run to promise two things, two to reconcile them, of the
  same meeting so that their mentions meet. The one reply judges the second
  commitment first, the first twice and one that is not there, and folds an item; a
  batch whose calls raise is silent on both, in either order. That is what a
  duplicate and a deadlock take. An answer comes in beside the last run. Both
  commitments fit in one batch here; with batches of one, the run that
  is silent on a batch after it was told of another holds as well but takes twice as
  long, and the theorem is of any number of batches of any size.
* **MeetingGraph**: the code's own limits, 40 supersteps and one rerun; two
  obligations, one of them on the ledger, are enough for a position to shift.
* **TaskClient**: two runs with a promise in common, which one of them makes twice,
  around a payload the tracker refuses: three calls, as many as it takes to open a
  circuit of two failures and to be refused by it. Two attempts instead of three, a
  threshold of two instead of five: both only count up to their bound, and both
  sides of it are met. The safety properties are theorems for every value.
* **LedgerSerial, LedgerRacing and the console**: the pages are read after every
  step. The sweep is asked in `LedgerRacing`, where two people can be late from
  different days, or the same, each with a name or both with one; the limit is one
  name instead of eight, so that it is met, and two rows are enough to pass over
  the wrong one. The theorem is of any limit, names and people. That run has the
  outcomes that change a row most, completed and committed again; `LedgerSerial`
  has the third. Its two workers are interchangeable and it asks for safety only,
  so its states are counted up to their symmetry. `RiskFallsOnlyOnNews` compares scores on one day after every date owed,
  on which lateness, silence and slips all count. It is of one run at a time: a
  run that overlaps two others can write back a lower silence streak than theirs,
  and a row looks safer by nobody's news (section 5).
* **RunStream**: the code's three briefs, two at a time as configured, two
  attempts each. Two of the prompts have the same estimate, so that one call can
  settle another's booking; one of the choices of estimates has a prompt above
  the ceiling, which only fits an empty window. A call turns out cheaper than its
  estimate or not. The five settings make the Analyst paced, unpaced, without a
  model, alone with its provider, or overridden by the operator.
* **Reading**: one transcript for its speakers (misspelt, new, shared first name,
  collective), one for its lines (nobody's first line, heading, continuation, a
  sentence said twice), one for its deadlines. The days run over a leap day, the
  end of a quarter and the end of a year. Batches of three are enough for a
  twin, an ungrounded item and a rejected neighbour to shift the indices of
  verdicts.

Deadlock is checked in `Reading`, where a transcript can always be posted again.
The other runs say `CHECK_DEADLOCK FALSE` because their systems really stop: runs
are bounded by `MaxRuns` and idle sessions need not be used again, a graph and a
stream end, and a client that has settled its items has nothing left to do.

### Fairness

`MeetingGraph` assumes weak fairness of its next step: a node that is visited
returns or raises, which the timeouts of the model clients and of the tools give.
It does not assume that the Chief ever chooses well; the run ends because
supersteps run out. `TaskClient` assumes weak fairness of each client: a request
is answered or its timeout (ten seconds) passes, and a backoff ends. Nothing is
assumed of the tracker, the network or the clock of the breaker. `RunStream`
assumes weak fairness of each brief (its call has a timeout, its pause and sleep
end), of the passing of time, of the task and of the generator, which the event
loop runs when they are ready. It assumes nothing of the reader or of the
database's errors. Weak fairness of a brief is enough although the semaphore and
the lock are contended, because a brief enters each at most twice: at some point
nobody else is left who could take them. `HistorianBatches` assumes weak fairness
of each worker's `Proceed`: a model call returns or raises (it has a timeout, and
two attempts are all there are), and a statement that waits for nobody is carried
out; and of `Abort`, of one worker or another, because the database looks for
deadlocks of its own accord. It assumes nothing of the run's other steps: a run
that waits for another is let go when that one commits, fails or is aborted.
`Ledger` and `Reading` have no fairness:
their properties are safety.

## 4. What is proved

`LedgerProofs` proves, with no bound on meetings, people, dates, workers,
handlers or runs:

* `TypeCorrect`: `Spec => []TypeOK`. Beyond shapes it says that every reference
  from an event, a clarification, or a session's copies is to a row that exists.
* `OwnersSurviveAlways`: `Spec => []OwnersSurvive`.
* `ConfirmedOwned`: `Spec => []ConfirmedIsOwned`.
* `OwnerKept`: `Spec => OwnerIsKept`.

`ConfirmedIsOwned` is not inductive: an answer confirms on the owner in its
*copy* of the row, so it holds only if no row has lost an owner that a copy
still has. `OwnersSurvive` adds exactly that for the copies of runs and of
answers; together with `TypeOK` it is inductive. The argument has one lemma about
rows (`Flush` of a copy that keeps its owner keeps the row's), one per action that
writes rows (`HistoryCommit`, `SaveResults`, `AnswerCommit`), and one each for the
quiet steps of runs and answers. `OwnerKept` follows from the same step lemma. The
assumptions are those `Ledger` states on its constants: null is not a person, a
date or a number, and what an extraction returns has the shape of one.

The same module goes on from there, with no bound either:

* `LastSeenMentioned`: `Spec => []LastSeenIsMentioned`.
* `SilenceCounted`: `Spec => SilenceCountsOnce`.
* `OneRunWrites`, `SlipsOnTrail`, `SilenceRecorded`: `Spec => []` of
  `OneRunWritesAMeeting`, `SlipsAreOnTrail` and `SilenceIsRecorded`, **assuming
  `AtMostOneWorker`**, that is, one run at a time. Without the assumption they are
  false: two runs that overlap lose a slip and write a meeting twice.

The first two are of any number of runs, since the Historian writes the mention
and the column in one transaction and mentions are unique. The other three have one
inductive invariant, `SerialInv`: each row is `Settled` (its slips and its silence
add up), a row is created in its run's meeting, a meeting is written once, and the
run at work is `InFlight`: it has left no event before the Historian commits, its
copies have the counts of their rows, and when it is about to save nothing of its
meeting is stored. Answers need nothing of this, as they write neither counter.
They further assume that no outcome is null and that there are finitely many
meetings.

`ConsoleProofs` proves of what people see of the ledger, again for any number of
meetings, people, rows and days:

* `ClosedLeftAlone`: `Spec => RunsLeaveClosedAlone`, **assuming `AtMostOneWorker`**.
* `WaitsForAQuestion`: `Spec => []WaitsOnlyForAnOpenQuestion`, beside any number of
  runs, **assuming `AtMostOneHandler`**, that is, one answer at a time.
* `SweepAgreesAlways`: `Spec => []SweepAgreesWithPages`, with no such assumption.
* `RiskFallsOnNews`: `Spec => RiskFallsOnlyOnNews`, assuming `AtMostOneWorker`,
  beside any number of answers.

The first needs that what the run at work has loaded was open and still is
(`StillOpen`): only runs close rows. The second strengthens the invariant by what an
answer knows (`Accurate`): its copy has the row's owner, a row that waits was
loaded waiting, and if it saw another question open then one still is. A run
cannot undo that (`Unnoticed`): it adds questions, gives no row another owner and
makes no row wait that did not. The third: every commitment the sweep lists is on
the page of its owner, and on no other page, or it is nobody's (`PagesOfTheLate`),
for which an owner must be a person. That a nudged name is among the longest late
is a count (`FewLateLonger`): a sweep came to every name that is late for longer, and
to no more names than its limit, the nudged one included. The last is the arithmetic of the score, each of whose parts grows with what it counts
(`Share` is monotone, rounding and the cut at one thousand keep the order), from
`SerialInv`, which gives that a silence written back is one more than the row's.
The two assumptions `AtMostOneWorker` and `AtMostOneHandler` are of the number of
sessions, as `LedgerSerial` has them, and each theorem that has one is false without
it. `SweepAgreesAlways` assumes of the people's names only that each person has one.

`HistorianProofs` proves, for any batch size and cap, any replies, and any number of
runs and answers beside each other:

* `BatchesReconcile`: `BatchedSpec => Spec /\ ReconcilesAtOnce`: every behaviour of
  `HistorianBatches` is one of `Ledger`, and what is proved of `Ledger` holds of it.
  `ReconcilesAtOnce` is `Spec` with a premise that spares TLC the stutters.
* `SessionsAreWellFormed`: `BatchedSpec => []BatchedTypeOK`.

Only `Commit` is a step of the ledger that is not one by name, and it needs to know
that what a session has gathered is what `HistoryCommit` would compute. The
invariant is `TypeOK /\ Sessions`. `Faithful` says of an open session that its
copies, mentions and events are exactly those that the verdicts heard and the
silences noted make of the rows it loaded, whose `new` are the silences its meeting
had not recorded. That these are still unrecorded at the commit is `Apart`: no two
open sessions of a meeting have noted the same commitment, which is what the unique
index gives, and what `BlocksNobody` loses. The assumptions are those of
`Ledger` and those on the cap, the batch size and the shape of a reply.

`MeetingGraphProofs` proves, for any findings, limit of reruns and limit of
supersteps:

* `TypeCorrect`: `Spec => []TypeOK`.
* `QuestionsFit`: `Spec => []QuestionsFitTheirItems`.
* `RerunGranted`: `Spec => RequestedRerunIsGranted`.
* `SupervisedSafely`: `Spec => Promise!Safe`, each step is one of `Supervision` or
  a stutter.

The invariant is `TypeOK /\ Counts /\ Fits`. `Counts` ties the history variable
`work` to what the code keeps, who reported and how many reruns there were; a
rerun that is wanted has one left, which is what grants it. `Fits` adds to the
property that there is nothing to ask about before the first extraction. The
refinement needs `Counts` where the run out of steps and the finished run are told
apart by how often each team worked.

`RunStreamProofs` proves, for any briefs, settings, estimates and ceiling:

* `TypeCorrect`: `Spec => []TypeOK`, with one sleeper at most.
* `ToldTheTruth`: `Spec => []TheReaderIsToldTheTruth`.
* `ReportsFirst`: `Spec => []ReportsComeBeforeTheEnd`.
* `Independence`: `Spec => []ReviewIsIndependent`.
* `Bursts`: `Spec => []BurstsStayBelowTheCeiling`.

The invariant of the first three is `BriefsTypeOK /\ Queue /\ Ending`. That every report was heard
when the reader is told is not inductive; `Queue` says why it is so: the end, once
announced, is the last of what is queued, and as long as the generator listens,
what was put in the queue is in it or was heard. `Ending` is what the generator
knows of the task when it saves, and of the row when it tells.

`Independence` is a fact of the chains, for any credentials and overrides: if a model
of another provider is in the Skeptic's chain, the part put in front is not
empty, and its first member is of another provider. `Bursts` needs `Burst`: each
call in flight has a booking of its own estimate that is no other's (`Covered`, an
injection from calls to bookings), as long as nothing has left the window. Settling
by value keeps it so: the newest booking equal to the estimate may be another
call's, but then that call's own estimate is the same, and it takes over the
booking the settled call leaves. A call is booked only where all bookings and its
estimate fit, or where there is none and hence no other call. The mutant
`ReconcileEvery` breaks exactly this.

`ReadingProofs` proves every property of `Reading`, for any transcripts, rosters,
likeness of names and of bodies, phrases, calendar and replies:

* `EnrolmentSettled`: `Spec => EnrolmentSettles`.
* `NobodyGuessed`: `Spec => []NobodyIsGuessed`.
* `SpeakerOwesIt`: `Spec => []FirstPersonIsTheSpeaker`.
* `RefusalExplained`: `Spec => []OnlySharedLabelsAreRefused`.
* `ReviewKeepsTheRest`: `Spec => []NothingIsDropped`.
* `ReadingIsTyped`: `Spec => []TypeOK`.
* `DueWhenItFits`: `Spec => []DeadlinesAreNearest`.
* `DueInOrder`: `Spec => []LaterSaidLaterDue`.

There are three inductive invariants. `Enrolments`: no submitted transcript has a
speaker left to enrol (adding people to a roster never makes a name match fewer of
them). `Attributed`: the owners are what they were resolved to. `Worked`: nothing is
there before its step, the review is of exactly this reply, owners and dates are of
exactly what it calls work. The rest is about the operators:

* *Speakers.* A turn is the lines from one that opens it to the next
  (`StartsAreLines`, `OneOpener`, `TurnSays`), so the turn a quote is attributed to
  was opened by a label from which only headings and continued lines lead to the
  sentence (`SpeakerSaidIt`). That label matched the owner; and a match is below
  zero, which the table refuses, only where two people bear it as well.
* *Review.* The n-th candidate of the listing is the one with n - 1 below it
  (`AscendingLists`), so the verdict applied to an item is the one given to its
  place in the listing. What is not a candidate was not found, is a decision, or
  has a twin before it.
* *Dates.* `DueByRule`: what each rule gives, when it is the first to match.
  From the calendar, `MonthOfDay` and `MonthsFollow`; the 28th and four days is in
  the next month because months have 28 to 31 days; a quarter's end is the last
  day of the next month whose number three divides, at most 100 days away; a
  weekday is one of the next seven days.

What is assumed is what `Calendar`, `Roster` and `Reading` state of their constants. A
transcript is finite, roster and answers are sequences. The replies have what the
schemas of the agents' answers require (`RepliesAssumption`, `VerdictsAssumption`,
`AnswersAssumption`). The calendar has whole years with months of 28 to 31 days, as
Gregorian months have, and it goes on for more than a hundred days after any run:
`datetime` knows the days to the year 9999, a constant of a model must end
somewhere, and the quarter after the run must be in it.

`SelectionProofs` proves what the positional operators do: `SelectKeeps` for a
comprehension, `AscendingLists` for the positions in order, `LowestIsLeast` and
`HighestIsGreatest`. Finite sets have no induction that the provers can
instantiate, so `PlacesAreTaken` argues by counting: the map from a member of a set
to the number of those below it is injective, and hence onto.

`TaskClientProofs` proves, with no bound on runs, items, keys, attempts or the
threshold:

* `TypeCorrect`: `Spec => []TypeOK`, with no request naming an item without a key.
* `OutcomesOwn`: `Spec => []OutcomesAreTheirOwn`.
* `DeliversAtMostOnce`: `Spec => DeliversOnce`, the refinement of the safety of
  `Delivery` under the mapping `Promise`.
* `HammeringBounded`: `Spec => []HammeringIsBounded`.

The types need `Engaged`: a client that waits or backs off is at an item with a
key, and one that backs off has an attempt left. `OutcomesAreTheirOwn` needs to
know the same of answers that nobody has read yet (`Answered`). The refinement
needs two facts more: no two tasks share a key (`Single`, from the unique column:
without `Clashes`, two requests that both missed would both insert), and a run
that lives knows nothing yet of items it has not reached (`Unreached`), so that
settling is a step from "todo". Every step of a client then settles one item or
changes nothing `Delivery` sees, and every step of the tracker stores one task or
changes nothing. The bound on hammering is `HammerInv`: while the circuit is
closed the requests are at most those of the failed calls and of the call under
way; when it has rested they are those of the probe; while it is open no call is
under way. The assumptions are those of `TaskClient`: `None` is not a key, at
least one attempt, a threshold of at least one.

Only model-checked is **liveness**: the end of a run in `Supervised`, `Delivers`,
`EveryBriefSettles`, `AReaderWhoStaysIsAnswered` and `ReconciliationEnds`. The proof
system has no rules for ENABLED and hence none for fairness. The safety halves of
the refinements are theorems (`SupervisedSafely`, `DeliversAtMostOnce`,
`BatchesReconcile`). The five violations are runs, with a counterexample each; a
theorem would have nothing to add. Every other property of a passing run has a
theorem.

## 5. What is not modelled

* **Text**: prompts, wording, similarity ratios, the formats a line of a transcript
  may have, injection scanning. Likeness is a relation, a quote is a kind.
* **Confidences** other than an owner's, costs, traces, near misses that tie.
* **Locks** other than those on mentions: rows are written at the commit, in the
  order of their keys, so that they are held for the length of the commit only.
* **Sweeps one after another**: nothing records that a name was nudged, so each sweep
  takes the same names first. The drafts of a sweep are not stored in the model.
* **The session pool**: who waits for one of the five connections. What a session
  loads and writes back is `Ledger`'s.
* **Items of the decisions and blockers briefs** after grounding, the enrichment of
  decisions, drafts and communications: they are saved as they were extracted.
* **Other callers of the token budget** than the three briefs, the fallback to the
  next model inside one call, and a rerun of extraction in `RunStream`; reruns are
  `MeetingGraph`'s. The correction of quotes is one more reply in `Reading` and
  spends no budget of its own in `Briefs`, where the code books once.
* **A dead process** in `RunStream`: `RunLost` is what the ledger sees of it.
* **Search, authentication and rate limit**: counters of one process that are read
  and spent without an await between, so nothing can come in between.
* **Entry points, migrations, evaluation, frontend**: wiring, schema and layout.

Hazards without a property are in `PROJECT.json` with the reason.

Two things were found that no run states:

* A batch of the Historian whose two attempts raise returns no verdicts, as one in
  which nothing was mentioned does (`agents/historian.py:281`), and its due
  commitments are recorded as "not raised in this meeting".
* A run writes back the silence streak it loaded, plus one
  (`agents/historian.py:516-535`). If runs of two other meetings are silent on the
  row, one after the other, between its load and its commit, its commit puts the
  streak back from two more to one more than it loaded, and the row looks safer with
  no news of it. An attempt to prove `RiskFallsOnlyOnNews` of any number of runs
  fails on this step; two meetings, as in `LedgerRacing`, are too few to show it.
  The theorem, and the run, are therefore of one run at a time.

## 6. What is left

1. The session pool: runs, readers, the tracker's own requests and answers that
   wait for five connections.
2. Which of the theorems that assume one run at a time hold of runs that overlap
   but are of different meetings.

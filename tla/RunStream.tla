----------------------------- MODULE RunStream ------------------------------
(***************************************************************************)
(* One run as its reader sees it: a task drives the graph and puts reports *)
(* in a queue, a generator forwards them to the browser, and when the task *)
(* is over saves its result or marks the run as failed.  The reader may    *)
(* leave at any time; the task goes on without it.  The first team is      *)
(* modelled by its briefs, the teams after it are one step.                *)
(***************************************************************************)
EXTENDS Briefs

VARIABLES
    drive,   \* how far the task that drives the graph is
    events,  \* the queue between the task and the generator, oldest first
    made,    \* reports put in the queue so far
    heard,   \* reports forwarded to the reader so far
    over,    \* whether the end of the task has been announced in the queue
    stream,  \* how far the generator is
    row,     \* the status of the run's committed row
    told     \* the last event of the stream, the one that says how it ended

task == <<drive, made, over>>
reader == <<heard, stream, row, told>>
vars == <<briefVars, task, events, reader>>

Init ==
    /\ InitBriefs
    /\ drive = "new"
    /\ events = <<>>
    /\ made = 0
    /\ heard = 0
    /\ over = FALSE
    /\ stream = "open"
    /\ row = "running"
    /\ told = "nothing"

Report ==
    /\ events' = Append(events, "report")
    /\ made' = made + 1

-----------------------------------------------------------------------------
\* The graph starts with extraction, which fans out to the briefs.
Extract ==
    /\ drive = "new"
    /\ StartBriefs
    /\ drive' = "extracting"
    /\ UNCHANGED <<events, made, over, reader>>

\* All briefs are in, answered or not: the team reports.
Extracted ==
    /\ drive = "extracting"
    /\ \A b \in Brief : Settled(b)
    /\ drive' = "extracted"
    /\ Report
    /\ UNCHANGED <<briefVars, over, reader>>

\* The teams after it report and the graph is done.
Finish ==
    /\ drive = "extracted"
    /\ drive' = "done"
    /\ Report
    /\ UNCHANGED <<briefVars, over, reader>>

\* A node raises: at once when there is no model to build an agent with.  No
\* brief raises, so extraction that is under way does not.
Raises ==
    /\ \/ drive = "new" /\ chains.reason = <<>>
       \/ drive = "extracted"
    /\ drive' = "raised"
    /\ UNCHANGED <<briefVars, events, made, over, reader>>

\* Mutant of TaskOver: the end is announced when the work is, before the report.
TaskOverEarly == drive \in {"extracted", "done", "raised"}

\* Mutant of TaskOver: a task that raised is not over.
TaskOverOnSuccess == drive = "done"

TaskOver == drive \in {"done", "raised"}

\* The done callback puts the end of the queue in the queue.
AnnounceEnd ==
    /\ TaskOver
    /\ ~ over
    /\ over' = TRUE
    /\ events' = Append(events, "end")
    /\ UNCHANGED <<briefVars, drive, made, reader>>

-----------------------------------------------------------------------------
\* The generator forwards the next report, or stops listening at the end.
Forward ==
    /\ stream = "open"
    /\ events # <<>>
    /\ events' = Tail(events)
    /\ IF Head(events) = "end" THEN stream' = "joining" /\ heard' = heard
                               ELSE stream' = stream /\ heard' = heard + 1
    /\ UNCHANGED <<briefVars, task, row, told>>

\* It awaits the task and goes on to save what it returned, or to mark the run.
Join ==
    /\ stream = "joining"
    /\ \/ drive = "done" /\ stream' = "saving"
       \/ drive = "raised" /\ stream' = "failing"
    /\ UNCHANGED <<briefVars, task, events, heard, row, told>>

\* Mutant of Saved: the session is closed without a commit.
SavedUncommitted == row

Saved == "saved"

\* The result is committed, or the run's failure is.
Save ==
    /\ \/ stream = "saving" /\ row' = Saved /\ stream' = "saved"
       \/ stream = "failing" /\ row' = "failed" /\ stream' = "failed"
    /\ UNCHANGED <<briefVars, task, events, heard, told>>

\* Saving raises, which nothing catches: the response breaks off.
SaveRaises ==
    /\ stream \in {"saving", "failing"}
    /\ stream' = "broken"
    /\ UNCHANGED <<briefVars, task, events, heard, row, told>>

\* The last event of the stream.
Tell ==
    /\ \/ stream = "saved" /\ told' = "run_finished"
       \/ stream = "failed" /\ told' = "run_failed"
    /\ stream' = "closed"
    /\ UNCHANGED <<briefVars, task, events, heard, row>>

\* The reader is gone and the generator is closed where it stands; what it has
\* not committed by then nobody commits.
Leave ==
    /\ stream \in {"open", "joining", "saving", "failing", "saved", "failed"}
    /\ stream' = "gone"
    /\ UNCHANGED <<briefVars, task, events, heard, row, told>>

Working(b) == Progress(b) /\ UNCHANGED <<task, events, reader>>
Passing == Expire /\ UNCHANGED <<task, events, reader>>

Driving == Extract \/ Extracted \/ Finish \/ Raises \/ AnnounceEnd
Streaming == Forward \/ Join \/ Save \/ Tell

Next ==
    \/ Driving
    \/ Streaming
    \/ SaveRaises
    \/ Leave
    \/ \E b \in Brief : Working(b)
    \/ Passing

\* The event loop runs what is ready, a model call ends and time passes; nothing
\* is owed by the database's errors, nor by the reader.
Spec ==
    /\ Init /\ [][Next]_vars
    /\ \A b \in Brief : WF_vars(Working(b))
    /\ WF_vars(Passing)
    /\ WF_vars(Driving)
    /\ WF_vars(Streaming)

-----------------------------------------------------------------------------
TypeOK ==
    /\ BriefsTypeOK
    /\ drive \in {"new", "extracting", "extracted", "done", "raised"}
    /\ events \in Seq({"report", "end"})
    /\ made \in 0..2 /\ heard \in 0..made
    /\ over \in BOOLEAN
    /\ stream \in {"open", "joining", "saving", "failing", "saved", "failed", "broken",
                   "gone", "closed"}
    /\ row \in {"running", "saved", "failed"}
    /\ told \in {"nothing", "run_finished", "run_failed"}

\* What the stream says of the run's end is what is committed of it, and a run
\* that is over and still says "running" had its reader leave or its save raise
\* (meetings.py 302-349).
TheReaderIsToldTheTruth ==
    /\ told = "run_finished" => row = "saved" /\ drive = "done"
    /\ told = "run_failed" => row = "failed" /\ drive = "raised"
    /\ stream = "closed" => told # "nothing"
    /\ row = "running" => stream \notin {"saved", "failed", "closed"}

\* A reader that is told how the run ended has heard every report before, and no
\* report is put behind the end of the queue (meetings.py 287-307).
ReportsComeBeforeTheEnd ==
    /\ told # "nothing" => heard = made
    /\ \A i, j \in DOMAIN events : events[i] = "end" => j <= i

\* A reader that stays is told how the run ended unless saving raises, also of a
\* run that raised and however the briefs end (meetings.py 298-349).
AReaderWhoStaysIsAnswered == stream = "open" ~> stream \in {"closed", "broken", "gone"}

=============================================================================

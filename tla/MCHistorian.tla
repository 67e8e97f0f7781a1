---------------------------- MODULE MCHistorian -----------------------------
(***************************************************************************)
(* A small instance of HistorianBatches: what is promised at the kickoff   *)
(* is due when two runs of the standup compare it.                         *)
(***************************************************************************)
EXTENDS HistorianBatches

CONSTANTS kickoff, standup, ana

MCMeetings == {kickoff, standup}
MCRunDay == [r \in 1..MaxRuns |-> IF r = 1 THEN 1 ELSE 2]
MCTexts == {"plan", "demo"}
MCAlike == {<<t, t>> : t \in MCTexts}
MCRelevance == [m \in MCMeetings |-> [plan |-> 2, demo |-> 1]]

Firm(t) == [text |-> t, owner |-> ana, due |-> 1, hinted |-> TRUE]
Unowned(t) == [Firm(t) EXCEPT !.owner = None]

\* Two promises at the kickoff, the less relevant first; at the standup the plan is
\* promised again, by somebody.
MCExtractions ==
    [m \in MCMeetings |->
       {[items |-> IF m = kickoff THEN <<Firm("demo"), Firm("plan")>>
                                  ELSE <<Unowned("plan")>>,
         decisions |-> FALSE]}]

On(index, outcome, restates) ==
    [index |-> index, mentioned |-> TRUE,
     verdict |-> [outcome |-> outcome, due |-> None], restates |-> restates]

\* The second commitment of the batch, the first, twice, and a number of nothing.
\* A batch that gets no reply is silent, in either order.
MCReplies ==
    {<<On(1, "progress", None), On(0, "recommitted", 0), On(0, "progress", None),
       On(2, "progress", 0)>>}
=============================================================================

---------------------------- MODULE MeetingGraph ----------------------------
(***************************************************************************)
(* One run of the meeting graph: a Chief of Staff that delegates to four   *)
(* teams, one at a time, until it finishes.                                *)
(*                                                                         *)
(* The Chief is a language model: at every hop it may delegate to any      *)
(* team, finish, or return without a route.  What the teams guard is       *)
(* deterministic.  Every visit of a node is a superstep, and the graph     *)
(* gives up after RecursionLimit of them.  A team overwrites the keys of   *)
(* the shared state it reports and leaves the others as they were.         *)
(*                                                                         *)
(* An item is an obligation with the state of its owner; its date, risk    *)
(* and wording are left out, and an owner question stands for every gap.   *)
(***************************************************************************)
EXTENDS Blackboard

CONSTANTS
    Obligations,     \* what can be said in the meeting
    Findings,        \* the sequences of obligations an extraction can return
    OnLedger,        \* the obligations that restate an open commitment
    MaxReplans,      \* reruns of extraction in one run
    RecursionLimit   \* supersteps of one run

ASSUME FindingsAssumption == Findings \subseteq Seq(Obligations)
ASSUME MaxReplansAssumption == MaxReplans \in Nat
ASSUME RecursionLimitAssumption == RecursionLimit \in Nat

TeamOrder == <<"intelligence", "resolution", "history", "execution">>
Teams == {"intelligence", "resolution", "history", "execution"}

Item == [what : Obligations, owner : {"pending", "unknown", "known"}, task : BOOLEAN]
Question == [index : Nat, what : Obligations]

VARIABLES
    node,          \* the node the next superstep visits
    status,        \* how the run ended, if it has
    reported,      \* teams with a line in `progress`
    replans,       \* reruns of extraction so far
    replanWanted,  \* extraction reported its own output untrustworthy
    items,         \* the obligations, as the last team to write them left them
    questions,     \* what resolution asks a human
    tracked,       \* obligations with a task on the tracker
    folded,        \* obligations the Historian folded into the ledger
    hops,          \* supersteps so far
    work           \* history variable: how often each team worked

artifacts == <<items, questions, tracked, folded>>
planning == <<reported, replans, replanWanted>>
vars == <<node, status, planning, artifacts, hops, work>>

Init ==
    /\ node = "chief_of_staff"
    /\ status = "running"
    /\ reported = {}
    /\ replans = 0
    /\ replanWanted = FALSE
    /\ items = <<>>
    /\ questions = {}
    /\ tracked = {}
    /\ folded = {}
    /\ hops = 0
    /\ work = [t \in Teams |-> 0]

\* Mutant of Within: nobody counts the supersteps.
Uncounted(steps) == TRUE

\* Whether the graph may take another superstep.
Within(steps) == steps < RecursionLimit

\* A superstep that visits `here`.
Visit(here) ==
    /\ status = "running"
    /\ node = here
    /\ Within(hops)
    /\ hops' = hops + 1

-----------------------------------------------------------------------------
(***************************************************************************)
(* The Chief of Staff.                                                     *)
(***************************************************************************)

Remaining == Teams \ reported

\* The first team in the order of TEAMS that has not reported.
FirstOf(teams) ==
    TeamOrder[CHOOSE i \in DOMAIN TeamOrder :
                /\ TeamOrder[i] \in teams
                /\ \A j \in 1..(i - 1) : TeamOrder[j] \notin teams]

Delegate(team) ==
    /\ Visit("chief_of_staff")
    /\ node' = team
    /\ UNCHANGED <<status, planning, artifacts, work>>

Finish ==
    /\ Visit("chief_of_staff")
    /\ node' = "end"
    /\ status' = "finished"
    /\ UNCHANGED <<planning, artifacts, work>>

\* The Chief returns without a route while work remains: the graph advances.
Advance ==
    /\ Visit("chief_of_staff")
    /\ Remaining # {}
    /\ node' = FirstOf(Remaining)
    /\ UNCHANGED <<status, planning, artifacts, work>>

\* The Chief returns without a route and every team has run.
RunOut ==
    /\ Visit("chief_of_staff")
    /\ Remaining = {}
    /\ node' = "end"
    /\ status' = "completed"
    /\ UNCHANGED <<planning, artifacts, work>>

-----------------------------------------------------------------------------
(***************************************************************************)
(* The teams.                                                              *)
(***************************************************************************)

\* Mutant of MayRerun: the budget for reruns is off by one.
MayRerunLate == replanWanted /\ replans + 1 < MaxReplans

\* Extraction may run again when it asked to and reruns are left.
MayRerun == replanWanted /\ replans < MaxReplans

\* Mutant of AlreadyDone: only extraction refuses to run again.
OnlyExtractionDone(team) == team = "intelligence" /\ team \in reported

\* A team that has reported refuses to run again.
AlreadyDone(team) == team \in reported

Refuses(team) == AlreadyDone(team) /\ ~ (team = "intelligence" /\ MayRerun)

\* The refusal reports, which changes nothing the Chief is shown of the team.
Refuse(team) ==
    /\ Visit(team)
    /\ Refuses(team)
    /\ node' = "chief_of_staff"
    /\ UNCHANGED <<status, planning, artifacts, work>>

\* A team that does its work reports and hands back to the Chief.
Works(team) ==
    /\ Visit(team)
    /\ ~ Refuses(team)
    /\ node' = "chief_of_staff"
    /\ reported' = reported \cup {team}
    /\ work' = [work EXCEPT ![team] = @ + 1]
    /\ UNCHANGED status

\* Extraction and review.  A failed brief or too many rejections asks for a
\* rerun, unless this was the last one allowed.
Intelligence ==
    /\ Works("intelligence")
    /\ \E found \in Findings :
         items' = [i \in DOMAIN found |->
                     [what |-> found[i], owner |-> "pending", task |-> FALSE]]
    /\ replans' = IF replanWanted THEN replans + 1 ELSE replans
    /\ \E untrustworthy \in BOOLEAN :
         replanWanted' = (untrustworthy /\ replans' < MaxReplans)
    /\ UNCHANGED <<questions, tracked, folded>>

\* Mutant of QuestionsOn: questions are numbered from zero.
QuestionsFromZero(list, unknown) ==
    {[index |-> i - 1, what |-> list[i].what] : i \in unknown}

\* One question for each item nobody could be found for.
QuestionsOn(list, unknown) ==
    {[index |-> i, what |-> list[i].what] : i \in unknown}

Resolution ==
    /\ Works("resolution")
    /\ \E known \in SUBSET DOMAIN items :
         /\ items' = [i \in DOMAIN items |->
                        [what |-> items[i].what, task |-> FALSE,
                         owner |-> IF i \in known THEN "known" ELSE "unknown"]]
         /\ questions' = IF items = <<>> THEN questions
                         ELSE QuestionsOn(items, DOMAIN items \ known)
    /\ UNCHANGED <<replans, replanWanted, tracked, folded>>

\* Without items the history team says so, and has run.
History ==
    /\ Works("history")
    /\ \E gone \in SUBSET {i \in DOMAIN items : items[i].what \in OnLedger} :
         /\ \E kept \in Kept(items, gone) : items' = Picked(items, kept)
         /\ folded' = folded \cup {items[i].what : i \in gone}
    /\ UNCHANGED <<replans, replanWanted, questions, tracked>>

\* Tasks for the owned items.  The tracker may refuse one, or create it and
\* fail to say so.
Execution ==
    /\ Works("execution")
    /\ \E created \in SUBSET {i \in DOMAIN items : items[i].owner = "known"} :
       \E told \in SUBSET created :
         /\ items' = [i \in DOMAIN items |-> [items[i] EXCEPT !.task = i \in told]]
         /\ tracked' = tracked \cup {items[i].what : i \in created}
    /\ UNCHANGED <<replans, replanWanted, questions, folded>>

-----------------------------------------------------------------------------
\* A node raises: the run is marked as failed.
Raise ==
    /\ \E here \in Teams \cup {"chief_of_staff"} : Visit(here)
    /\ node' = "end"
    /\ status' = "failed"
    /\ UNCHANGED <<planning, artifacts, work>>

\* The supersteps are spent before the graph reached its end.
OutOfSteps ==
    /\ status = "running"
    /\ ~ Within(hops)
    /\ node' = "end"
    /\ status' = "out_of_steps"
    /\ UNCHANGED <<planning, artifacts, hops, work>>

Next ==
    \/ \E team \in Teams : Delegate(team)
    \/ Finish
    \/ Advance
    \/ RunOut
    \/ \E team \in Teams : Refuse(team)
    \/ Intelligence
    \/ Resolution
    \/ History
    \/ Execution
    \/ Raise
    \/ OutOfSteps

Fairness == WF_vars(Next)

Spec == Init /\ [][Next]_vars /\ Fairness

-----------------------------------------------------------------------------
(***************************************************************************)
(* What the supervisor promises.                                           *)
(***************************************************************************)

\* The state the teams share has its shape, and the supersteps and the reruns
\* stay within their bounds.
TypeOK ==
    /\ node \in Teams \cup {"chief_of_staff", "end"}
    /\ status \in {"running", "finished", "completed", "failed", "out_of_steps"}
    /\ node = "end" <=> status # "running"
    /\ reported \subseteq Teams
    /\ replans \in 0..MaxReplans
    /\ replanWanted \in BOOLEAN
    /\ items \in Seq(Item)
    /\ questions \subseteq Question
    /\ tracked \subseteq Obligations
    /\ folded \subseteq Obligations
    /\ hops \in 0..RecursionLimit
    /\ work \in [Teams -> Nat]

\* A team works once, extraction once more for every rerun it may ask for;
\* a run that ends with no route has had every team work; and every run ends.
\* The hops on which the Chief routes or a team refuses are invisible.
Promise ==
    INSTANCE Supervision WITH
        Allowance <- [t \in Teams |-> IF t = "intelligence" THEN 1 + MaxReplans ELSE 1],
        status <- IF status = "out_of_steps" THEN "failed" ELSE status

Supervised == Promise!Spec

\* A rerun extraction asked for is granted when the Chief comes back to it:
\* the counter that bounds reruns never blocks the one it permits.
RequestedRerunIsGranted ==
    [][node = "intelligence" /\ replanWanted /\ node' = "chief_of_staff" =>
         work'["intelligence"] = work["intelligence"] + 1]_vars

\* A question is about the item at its position, as long as the Historian
\* folded nothing away and extraction has not replaced the items.
QuestionsFitTheirItems ==
    folded = {} =>
      \A q \in questions :
        \/ q.index \in DOMAIN items /\ items[q.index].what = q.what
        \/ work["intelligence"] > 1

\* A run whose teams have all reported leaves no item with its placeholders
\* (docs/ARCHITECTURE.md: "A supervisor that cannot abandon the work").
EveryItemIsResolved ==
    status = "completed" => \A i \in DOMAIN items : items[i].owner # "pending"

\* The Chief cannot loop until the run is lost
\* (docs/adr/0001-hybrid-supervisor.md: "bounded by a tool call limit so it
\* cannot loop").
NoRunIsLostToALoop == status # "out_of_steps"
=============================================================================

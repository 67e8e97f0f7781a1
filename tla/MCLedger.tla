------------------------------ MODULE MCLedger ------------------------------
(***************************************************************************)
(* Small instances of Ledger: up to three promises, two people, two days.  *)
(***************************************************************************)
EXTENDS Console, TLC

CONSTANTS kickoff, standup, ana, ben

MCMeetings == {kickoff, standup}
MCRunDay == [r \in 1..MaxRuns |-> IF r = 1 THEN 1 ELSE 2]
MCTexts == {"plan", "demo", "memo"}
MCAlike == {<<t, t>> : t \in MCTexts}
MCDays == {1, 2}

\* Everybody has a name of their own, or all have one name.
MCNamings == {[p \in People |-> p], [p \in People |-> ana]}

\* The slots for runs are alike: which of them a run is on tells nothing.
WorkersAlike == Permutations(Workers)

Firm(t) == [text |-> t, owner |-> ana, due |-> 1, hinted |-> TRUE]
Unowned(t) == [text |-> t, owner |-> None, due |-> 1, hinted |-> TRUE]
Vague(t) == [text |-> t, owner |-> None, due |-> None, hinted |-> TRUE]

Found(items, decisions) == [items |-> items, decisions |-> decisions]

\* A firm promise or one that lacks owner and date, made again at the standup.
SerialExtractions ==
    [m \in MCMeetings |->
       {Found(<<Firm("plan")>>, FALSE)}
         \cup IF m = kickoff THEN {Found(<<Vague("plan")>>, FALSE)}
                             ELSE {Found(<<>>, TRUE)}]

\* A promise nobody owns at the kickoff, firm at the standup.
RacingExtractions ==
    [m \in MCMeetings |->
       {Found(<<IF m = kickoff THEN Unowned("plan") ELSE Firm("plan")>>, FALSE)}]

\* The standup makes the kickoff's promise again, before two of its own.
FoldingExtractions ==
    [m \in MCMeetings |->
       {Found(IF m = kickoff THEN <<Firm("plan")>>
                ELSE <<Firm("plan"), Unowned("demo"), Firm("memo")>>, FALSE)}]
=============================================================================

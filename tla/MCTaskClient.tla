---------------------------- MODULE MCTaskClient ----------------------------
(***************************************************************************)
(* Small instances of TaskClient: two runs of one meeting that have a      *)
(* promise in common.                                                      *)
(***************************************************************************)
EXTENDS TaskClient

CONSTANTS first, again

\* After an item nobody owns, the same promise twice around a payload the tracker
\* refuses: as many calls as it takes to open a circuit of two failures and to be
\* refused by it.
SameTodo ==
    [c \in Clients |->
       IF c = first THEN <<None, "plan", "memo", "plan">> ELSE <<"plan">>]
=============================================================================

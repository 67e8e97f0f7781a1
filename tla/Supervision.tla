---------------------------- MODULE Supervision ----------------------------
(***************************************************************************)
(* What the supervisor of a run promises about its teams, whatever the     *)
(* model that routes decides: a team works within its allowance, a run     *)
(* that ends without the supervisor saying so has had every team work, and *)
(* every run ends.                                                         *)
(***************************************************************************)
EXTENDS Naturals

CONSTANTS Teams,      \* the teams of a run
          Allowance   \* how often each may work

VARIABLES status,  \* how the run ended, if it has
          work     \* how often each team has worked

vars == <<status, work>>

Init ==
    /\ status = "running"
    /\ work = [t \in Teams |-> 0]

Work(t) ==
    /\ status = "running"
    /\ work[t] < Allowance[t]
    /\ work' = [work EXCEPT ![t] = @ + 1]
    /\ UNCHANGED status

\* The supervisor ends the run, or an error does.
Stop ==
    /\ status = "running"
    /\ status' \in {"finished", "failed"}
    /\ UNCHANGED work

\* The run ends by itself: nothing is left to do.
Complete ==
    /\ status = "running"
    /\ \A t \in Teams : work[t] > 0
    /\ status' = "completed"
    /\ UNCHANGED work

Next == (\E t \in Teams : Work(t)) \/ Stop \/ Complete

Safe == Init /\ [][Next]_vars

Spec == Safe /\ WF_vars(Stop \/ Complete)
=============================================================================

------------------------------ MODULE Delivery ------------------------------
(***************************************************************************)
(* What creating tasks over a network promises: a key is given at most one *)
(* task, whoever asks and however often; an item counts as created only    *)
(* when its task exists, and may count as failed all the same; and a run   *)
(* that lives settles every item it has.                                   *)
(***************************************************************************)
EXTENDS Naturals, Sequences

CONSTANTS Clients,  \* the runs that create tasks
          Todo,     \* the key of each item of a run, None for one nobody owns
          Keys,     \* the idempotency keys
          None      \* no key

VARIABLES alive,   \* runs that have not died
          made,    \* how many tasks each key was given
          outcome  \* what each run knows of each of its items

vars == <<alive, made, outcome>>

Init ==
    /\ alive = Clients
    /\ made = [k \in Keys |-> 0]
    /\ outcome = [c \in Clients |-> [i \in DOMAIN Todo[c] |-> "todo"]]

Create(k) ==
    /\ made[k] = 0
    /\ made' = [made EXCEPT ![k] = 1]
    /\ UNCHANGED <<alive, outcome>>

Settle(c, i) ==
    /\ c \in alive
    /\ outcome[c][i] = "todo"
    /\ \/ Todo[c][i] = None /\ outcome' = [outcome EXCEPT ![c][i] = "skipped"]
       \/ Todo[c][i] # None /\ outcome' = [outcome EXCEPT ![c][i] = "failed"]
       \/ /\ Todo[c][i] # None
          /\ made[Todo[c][i]] = 1
          /\ outcome' = [outcome EXCEPT ![c][i] = "created"]
    /\ UNCHANGED <<alive, made>>

Die(c) ==
    /\ c \in alive
    /\ alive' = alive \ {c}
    /\ UNCHANGED <<made, outcome>>

SettleOne(c) == \E i \in DOMAIN Todo[c] : Settle(c, i)

Next ==
    \/ \E k \in Keys : Create(k)
    \/ \E c \in Clients : SettleOne(c) \/ Die(c)

Safe == Init /\ [][Next]_vars

Spec == Safe /\ \A c \in Clients : WF_vars(SettleOne(c))
=============================================================================

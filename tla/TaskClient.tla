----------------------------- MODULE TaskClient -----------------------------
(***************************************************************************)
(* Creating tasks on the tracker: the Operator, its HTTP client with       *)
(* retries and a circuit breaker, and the idempotent tracker.              *)
(*                                                                         *)
(* Every run's execution team has a client and a breaker of its own and    *)
(* creates its tasks one after the other.  A request may be lost on the    *)
(* way, its answer may be lost on the way back, and one the client gave up *)
(* on keeps being served, beside its own retry and beside the requests of  *)
(* another run of the same meeting.                                        *)
(*                                                                         *)
(* The idempotency key of an item is a hash of its text and its owner's    *)
(* name: equal items have equal keys.  Backoff delays are left out, and    *)
(* the clock of the breaker is whether its rest period has passed.         *)
(***************************************************************************)
EXTENDS Naturals, Sequences, FiniteSets

CONSTANTS
    Clients,      \* runs whose execution team creates tasks
    Keys,         \* idempotency keys
    Todo,         \* the key of each item of a run, None when nobody owns it
    Invalid,      \* keys of payloads the tracker refuses
    MaxAttempts,  \* attempts of one call
    Threshold,    \* consecutive failed calls that open a circuit
    None          \* no owner, no key

ASSUME NoneAssumption == None \notin Keys
ASSUME TodoAssumption == Todo \in [Clients -> Seq(Keys \cup {None})]
ASSUME MaxAttemptsAssumption == MaxAttempts \in Nat \ {0}
ASSUME ThresholdAssumption == Threshold \in Nat \ {0}

Circuit == {"closed", "open", "half_open"}

VARIABLES
    calls,    \* where each run's client is
    breaker,  \* each client's circuit breaker
    outcome,  \* what each run knows of each of its items
    requests, \* requests on their way, being served or answered
    tasks,    \* the keys of the tracker's tasks, in the order of their numbers
    burst     \* history variable: requests since the tracker last answered the
              \* client or its circuit last rested

vars == <<calls, breaker, outcome, requests, tasks, burst>>

Ready(item) == [phase |-> "ready", item |-> item, attempt |-> 0]
Unsettled == [result |-> "todo", task |-> 0]

Init ==
    /\ calls = [c \in Clients |-> Ready(1)]
    /\ breaker = [c \in Clients |-> [circuit |-> "closed", failures |-> 0]]
    /\ outcome = [c \in Clients |-> [i \in DOMAIN Todo[c] |-> Unsettled]]
    /\ requests = {}
    /\ tasks = <<>>
    /\ burst = [c \in Clients |-> 0]

(***************************************************************************)
(* The breaker.                                                            *)
(***************************************************************************)

Closed == [circuit |-> "closed", failures |-> 0]

\* Mutant of Failing: the circuit opens one failure late.
FailingLate(b) ==
    [circuit |-> IF b.failures >= Threshold THEN "open" ELSE b.circuit,
     failures |-> b.failures + 1]

\* A call spent its attempts.
Failing(b) ==
    [circuit |-> IF b.failures + 1 >= Threshold THEN "open" ELSE b.circuit,
     failures |-> b.failures + 1]

\* The rest period of an open circuit has passed.
Rest(c) ==
    /\ breaker[c].circuit = "open"
    /\ breaker' = [breaker EXCEPT ![c].circuit = "half_open"]
    /\ burst' = [burst EXCEPT ![c] = 0]
    /\ UNCHANGED <<calls, outcome, requests, tasks>>

-----------------------------------------------------------------------------
(***************************************************************************)
(* The Operator and its client.                                            *)
(***************************************************************************)

\* Mutant of Handles: the last item is left out.
HandlesAllButLast(c) == calls[c].phase = "ready" /\ calls[c].item + 1 \in DOMAIN Todo[c]

\* Client c is about to handle one of its items.
Handles(c) == calls[c].phase = "ready" /\ calls[c].item \in DOMAIN Todo[c]

KeyOf(c) == Todo[c][calls[c].item]

\* The item at hand is settled, and the next one is at hand.
Settled(c, result, task) ==
    /\ outcome' = [outcome EXCEPT ![c][calls[c].item] = [result |-> result, task |-> task]]
    /\ calls' = [calls EXCEPT ![c] = Ready(@.item + 1)]

\* Nobody owns the item: it becomes no task.
Skip(c) ==
    /\ Handles(c)
    /\ KeyOf(c) = None
    /\ Settled(c, "skipped", 0)
    /\ UNCHANGED <<breaker, requests, tasks, burst>>

\* The circuit is open: the call fails without a request.
Refuse(c) ==
    /\ Handles(c)
    /\ KeyOf(c) # None
    /\ breaker[c].circuit = "open"
    /\ Settled(c, "failed", 0)
    /\ UNCHANGED <<breaker, requests, tasks, burst>>

\* An attempt leaves the client.
Attempt(c, n) ==
    /\ calls' = [calls EXCEPT ![c] = [@ EXCEPT !.phase = "waiting", !.attempt = n]]
    /\ requests' = requests \cup
         {[client |-> c, item |-> calls[c].item, attempt |-> n, stage |-> "sent", task |-> 0]}
    /\ burst' = [burst EXCEPT ![c] = @ + 1]
    /\ UNCHANGED <<breaker, outcome, tasks>>

\* A closed circuit lets the call through, a rested one lets it through as the
\* probe that decides.
Call(c) ==
    /\ Handles(c)
    /\ KeyOf(c) # None
    /\ breaker[c].circuit # "open"
    /\ Attempt(c, 1)

Retry(c) ==
    /\ calls[c].phase = "backoff"
    /\ Attempt(c, calls[c].attempt + 1)

\* The attempt a client waits for.
IsAwaited(r) ==
    /\ calls[r.client].phase = "waiting"
    /\ calls[r.client].item = r.item
    /\ calls[r.client].attempt = r.attempt

\* Mutant of MayRetry: one attempt too many.
MayRetryOnceMore(attempt) == attempt <= MaxAttempts

MayRetry(attempt) == attempt < MaxAttempts

\* The attempt failed: another one if any is left, or the call has failed.
Missed(c) ==
    \/ /\ MayRetry(calls[c].attempt)
       /\ calls' = [calls EXCEPT ![c].phase = "backoff"]
       /\ UNCHANGED <<breaker, outcome>>
    \/ /\ ~ MayRetry(calls[c].attempt)
       /\ breaker' = [breaker EXCEPT ![c] = Failing(@)]
       /\ Settled(c, "failed", 0)

\* The tracker answered the attempt.
Receive(c) ==
    \E r \in requests :
      /\ r.client = c
      /\ IsAwaited(r)
      /\ \/ /\ r.stage = "created"
            /\ Settled(c, "created", r.task)
            /\ breaker' = [breaker EXCEPT ![c] = Closed]
            /\ burst' = [burst EXCEPT ![c] = 0]
         \/ /\ r.stage = "rejected"
            /\ Settled(c, "failed", 0)
            /\ breaker' = [breaker EXCEPT ![c] = Closed]
            /\ burst' = [burst EXCEPT ![c] = 0]
         \/ /\ r.stage = "failed"
            /\ Missed(c)
            /\ UNCHANGED burst
      /\ requests' = requests \ {r}
      /\ UNCHANGED tasks

\* A request that matters without its client: it may still insert its task.
Abandonable(r) == r.stage \in {"sent", "missed"}

\* No answer in time, or no connection: the request goes on without its client.
Timeout(c) ==
    /\ calls[c].phase = "waiting"
    /\ Missed(c)
    /\ requests' = {r \in requests : r.client = c => Abandonable(r)}
    /\ UNCHANGED <<tasks, burst>>

\* The run dies with its client and its breaker; its requests do not.
Die(c) ==
    /\ calls[c].phase # "dead"
    /\ calls' = [calls EXCEPT ![c] = [Ready(1) EXCEPT !.phase = "dead"]]
    /\ breaker' = [breaker EXCEPT ![c] = Closed]
    /\ burst' = [burst EXCEPT ![c] = 0]
    /\ requests' = {r \in requests : r.client = c => Abandonable(r)}
    /\ UNCHANGED <<outcome, tasks>>

-----------------------------------------------------------------------------
(***************************************************************************)
(* The tracker.                                                            *)
(***************************************************************************)

RequestKey(r) == Todo[r.client][r.item]

\* A request reaches another stage; one whose client gave up on it ends once it
\* has inserted its task or cannot.
Served(r, stage, task) ==
    requests' = (requests \ {r}) \cup
      {s \in {[r EXCEPT !.stage = stage, !.task = task]} :
         Abandonable(s) \/ IsAwaited(s)}

\* Mutant of TasksOf: the number of the task before.
TaskBefore(key) == {n \in 0..Len(tasks) : n + 1 \in DOMAIN tasks /\ tasks[n + 1] = key}

\* The tasks stored under a key.
TasksOf(key) == {n \in DOMAIN tasks : tasks[n] = key}

\* The payload does not validate.
Reject(r) ==
    /\ r.stage = "sent"
    /\ RequestKey(r) \in Invalid
    /\ Served(r, "rejected", 0)
    /\ UNCHANGED <<calls, breaker, outcome, tasks, burst>>

\* A replay is answered with the task the key already has.
Replay(r) ==
    /\ r.stage = "sent"
    /\ RequestKey(r) \notin Invalid
    /\ \E n \in TasksOf(RequestKey(r)) : Served(r, "created", n)
    /\ UNCHANGED <<calls, breaker, outcome, tasks, burst>>

\* No task under the key: the request goes on to insert one.
Miss(r) ==
    /\ r.stage = "sent"
    /\ RequestKey(r) \notin Invalid
    /\ TasksOf(RequestKey(r)) = {}
    /\ Served(r, "missed", 0)
    /\ UNCHANGED <<calls, breaker, outcome, tasks, burst>>

\* Mutant of Clashes: the column of keys is not unique.
NeverClashes(key) == FALSE

\* The unique constraint on keys refuses the insert.
Clashes(key) == key \in {tasks[n] : n \in DOMAIN tasks}

\* The insert commits, and the answer says so or is an error all the same.
Insert(r) ==
    /\ r.stage = "missed"
    /\ ~ Clashes(RequestKey(r))
    /\ tasks' = Append(tasks, RequestKey(r))
    /\ \/ Served(r, "created", Len(tasks) + 1)
       \/ Served(r, "failed", 0)
    /\ UNCHANGED <<calls, breaker, outcome, burst>>

\* An error before anything is stored: a failure of the tracker, or an insert
\* that came after another one of the same key.
Fail(r) ==
    /\ \/ r.stage = "sent" /\ RequestKey(r) \notin Invalid
       \/ r.stage = "missed"
    /\ Served(r, "failed", 0)
    /\ UNCHANGED <<calls, breaker, outcome, tasks, burst>>

\* The request is lost, or the tracker dies over it.
Lose(r) ==
    /\ r.stage \in {"sent", "missed"}
    /\ requests' = requests \ {r}
    /\ UNCHANGED <<calls, breaker, outcome, tasks, burst>>

-----------------------------------------------------------------------------
ClientStep(c) ==
    \/ Skip(c)
    \/ Refuse(c)
    \/ Call(c)
    \/ Retry(c)
    \/ Receive(c)
    \/ Timeout(c)

TrackerStep(r) ==
    \/ Reject(r)
    \/ Replay(r)
    \/ Miss(r)
    \/ Insert(r)
    \/ Fail(r)
    \/ Lose(r)

Next ==
    \/ \E c \in Clients : ClientStep(c) \/ Rest(c) \/ Die(c)
    \/ \E r \in requests : TrackerStep(r)

\* A client never waits for ever: a request it sent is answered or times out.
Fairness == \A c \in Clients : WF_vars(ClientStep(c))

Spec == Init /\ [][Next]_vars /\ Fairness

-----------------------------------------------------------------------------
(***************************************************************************)
(* What the client promises.                                               *)
(***************************************************************************)

CallState == [phase : {"ready", "waiting", "backoff", "dead"}, item : Nat \ {0},
          attempt : 0..MaxAttempts]

Outcome == [result : {"todo", "skipped", "failed", "created"}, task : Nat]

Request == [client : Clients, item : Nat \ {0}, attempt : 1..MaxAttempts,
            stage : {"sent", "missed", "created", "failed", "rejected"},
            task : Nat]

\* Attempts, breakers, outcomes and requests have their shape; no call makes
\* more attempts than it may, and no request names an item that has no key.
TypeOK ==
    /\ calls \in [Clients -> CallState]
    /\ breaker \in [Clients -> [circuit : Circuit, failures : Nat]]
    /\ \A c \in Clients : outcome[c] \in [DOMAIN Todo[c] -> Outcome]
    /\ DOMAIN outcome = Clients
    /\ requests \subseteq Request
    /\ \A r \in requests : r.item \in DOMAIN Todo[r.client] /\ RequestKey(r) \in Keys
    /\ tasks \in Seq(Keys)
    /\ burst \in [Clients -> Nat]

\* The number an item carries away is that of a task of its own, however many
\* requests for it and for other items were served in between.
OutcomesAreTheirOwn ==
    \A c \in Clients : \A i \in DOMAIN Todo[c] :
      LET known == outcome[c][i] IN
      known.result = "created" =>
        known.task \in DOMAIN tasks /\ tasks[known.task] = Todo[c][i]

\* A tracker that is down is asked so often, and no more until the circuit has
\* rested or the tracker answered.
HammeringIsBounded == \A c \in Clients : burst[c] <= Threshold * MaxAttempts

Promise ==
    INSTANCE Delivery WITH
        alive <- {c \in Clients : calls[c].phase # "dead"},
        made <- [k \in Keys |-> Cardinality(TasksOf(k))],
        outcome <- [c \in Clients |-> [i \in DOMAIN Todo[c] |-> outcome[c][i].result]]

\* A key has at most one task, whoever asks and however often, and an item counts
\* as created only with its task in place.
DeliversOnce == Promise!Safe

\* And a run that lives settles every item.
Delivers == Promise!Spec
=============================================================================

--------------------------- MODULE TaskClientProofs ---------------------------
(***************************************************************************)
(* Theorems about TaskClient, for any number of runs, items and attempts:  *)
(* its types, that every task number is an item's own, the bound on the    *)
(* requests of a tracker that is down, and that the safety of Delivery is  *)
(* implemented.                                                            *)
(***************************************************************************)
EXTENDS TaskClient, FiniteSetTheorems, TLAPS

Stage == {"sent", "missed", "created", "failed", "rejected"}

\* A client that waits or backs off is at an item with a key, and one that
\* backs off has an attempt left.
Engaged ==
    \A c \in Clients :
      /\ calls[c].phase \in {"waiting", "backoff"} =>
           /\ calls[c].item \in DOMAIN Todo[c]
           /\ KeyOf(c) \in Keys
           /\ calls[c].attempt >= 1
      /\ calls[c].phase = "backoff" => MayRetry(calls[c].attempt)

\* The type invariant with what makes it inductive.
TypeInv == TypeOK /\ Engaged

\* A phase is one of the four, and the fields have their types.
LEMMA CallFields ==
    ASSUME TypeOK, NEW c \in Clients
    PROVE  /\ calls[c] \in CallState
           /\ calls[c].phase \in {"ready", "waiting", "backoff", "dead"}
           /\ calls[c].item \in Nat \ {0}
           /\ calls[c].attempt \in 0..MaxAttempts
           /\ DOMAIN calls = Clients
           /\ Todo[c] \in Seq(Keys \cup {None})
  BY TodoAssumption DEF TypeOK, CallState

\* An item handled by an action has a key or none.
LEMMA KeyOfItem ==
    ASSUME TypeOK, NEW c \in Clients, calls[c].item \in DOMAIN Todo[c]
    PROVE  KeyOf(c) \in Keys \cup {None}
  BY CallFields DEF KeyOf

\* Settling an item keeps the types of the calls and the outcomes, and leaves
\* the client ready.
LEMMA SettledType ==
    ASSUME TypeInv, NEW c \in Clients, calls[c].item \in DOMAIN Todo[c],
           NEW result \in {"todo", "skipped", "failed", "created"}, NEW task \in Nat,
           Settled(c, result, task)
    PROVE  /\ calls' \in [Clients -> CallState]
           /\ \A d \in Clients : outcome'[d] \in [DOMAIN Todo[d] -> Outcome]
           /\ DOMAIN outcome' = Clients
           /\ Engaged'
  <1>1. TypeOK /\ Engaged
    BY DEF TypeInv
  <1>2. Ready(calls[c].item + 1) \in CallState
    BY <1>1, CallFields, MaxAttemptsAssumption DEF Ready, CallState
  <1>3. calls' = [calls EXCEPT ![c] = Ready(calls[c].item + 1)]
    BY DEF Settled
  <1>4. calls' \in [Clients -> CallState]
    BY <1>1, <1>2, <1>3 DEF TypeOK
  <1>5. [result |-> result, task |-> task] \in Outcome
    BY DEF Outcome
  <1>6. /\ \A d \in Clients : outcome'[d] \in [DOMAIN Todo[d] -> Outcome]
        /\ DOMAIN outcome' = Clients
    BY <1>1, <1>5 DEF Settled, TypeOK
  <1>7. Engaged'
    BY <1>1, <1>3, CallFields DEF Engaged, Ready, KeyOf, MayRetry
  <1>8. QED
    BY <1>4, <1>6, <1>7

\* A request served keeps the types of the requests.
LEMMA ServedType ==
    ASSUME TypeOK, NEW r \in requests, NEW stage \in Stage, NEW task \in Nat,
           Served(r, stage, task)
    PROVE  /\ requests' \subseteq Request
           /\ \A s \in requests' : s.item \in DOMAIN Todo[s.client] /\ RequestKey(s) \in Keys
  <1> DEFINE moved == [r EXCEPT !.stage = stage, !.task = task]
  <1>1. r \in Request /\ r.item \in DOMAIN Todo[r.client] /\ RequestKey(r) \in Keys
    BY DEF TypeOK
  <1>2. moved \in Request /\ moved.client = r.client /\ moved.item = r.item
    BY <1>1 DEF Request, Stage
  <1>3. requests' \subseteq requests \cup {moved}
    BY DEF Served
  <1> HIDE DEF moved
  <1>4. QED
    BY <1>1, <1>2, <1>3 DEF TypeOK, RequestKey

\* A subset of the requests has their types.
LEMMA FewerRequests ==
    ASSUME TypeOK, requests' \subseteq requests
    PROVE  /\ requests' \subseteq Request
           /\ \A s \in requests' : s.item \in DOMAIN Todo[s.client] /\ RequestKey(s) \in Keys
  BY DEF TypeOK, RequestKey

-----------------------------------------------------------------------------
(***************************************************************************)
(* Types.                                                                  *)
(***************************************************************************)

\* An attempt of an item that has a key.
LEMMA AttemptType ==
    ASSUME TypeInv, NEW c \in Clients, NEW n \in 1..MaxAttempts,
           calls[c].item \in DOMAIN Todo[c], KeyOf(c) \in Keys, Attempt(c, n)
    PROVE  TypeInv'
  <1> DEFINE sent == [client |-> c, item |-> calls[c].item, attempt |-> n,
                      stage |-> "sent", task |-> 0]
             call == [calls[c] EXCEPT !.phase = "waiting", !.attempt = n]
  <1>1. TypeOK /\ Engaged
    BY DEF TypeInv
  <1>2. call \in CallState /\ call.item = calls[c].item /\ call.phase = "waiting"
        /\ call.attempt = n
    <2>1. n \in 0..MaxAttempts
      BY MaxAttemptsAssumption
    <2>2. calls[c] \in CallState
      BY <1>1, CallFields
    <2> DEFINE sending == [calls[c] EXCEPT !.phase = "waiting"]
    <2>3. sending \in CallState /\ sending.item = calls[c].item /\ sending.phase = "waiting"
      BY <2>2 DEF CallState
    <2>4. call = [sending EXCEPT !.attempt = n]
      OBVIOUS
    <2> HIDE DEF sending, call
    <2>5. QED
      BY <2>1, <2>3, <2>4 DEF CallState
  <1>3. calls' = [calls EXCEPT ![c] = call]
    BY DEF Attempt
  <1>4. sent \in Request
    BY <1>1, CallFields DEF Request
  <1>5. requests' = requests \cup {sent}
    BY DEF Attempt
  <1>6. sent.item \in DOMAIN Todo[sent.client] /\ RequestKey(sent) \in Keys
    BY DEF RequestKey, KeyOf
  <1>7. /\ requests' \subseteq Request
        /\ \A s \in requests' : s.item \in DOMAIN Todo[s.client] /\ RequestKey(s) \in Keys
    <2> HIDE DEF sent
    <2>1. QED
      BY <1>1, <1>4, <1>5, <1>6 DEF TypeOK, RequestKey
  <1> HIDE DEF call
  <1>8. calls' \in [Clients -> CallState]
    BY <1>1, <1>2, <1>3 DEF TypeOK
  <1>9. burst' \in [Clients -> Nat]
    BY <1>1 DEF Attempt, TypeOK
  <1>10. Engaged'
    <2>1. n >= 1 /\ DOMAIN calls = Clients
      BY <1>1, CallFields, MaxAttemptsAssumption
    <2>2. \A d \in Clients : calls'[d] = IF d = c THEN call ELSE calls[d]
      BY <1>3, <2>1
    <2>3. QED
      BY <1>1, <1>2, <2>1, <2>2 DEF Engaged, KeyOf, MayRetry
  <1>11. QED
    BY <1>1, <1>7, <1>8, <1>9, <1>10 DEF TypeInv, TypeOK, Attempt, RequestKey

\* What a failed attempt leaves: another one, or a settled item.
LEMMA MissedType ==
    ASSUME TypeInv, NEW c \in Clients, calls[c].phase = "waiting", Missed(c)
    PROVE  /\ calls' \in [Clients -> CallState]
           /\ breaker' \in [Clients -> [circuit : Circuit, failures : Nat]]
           /\ \A d \in Clients : outcome'[d] \in [DOMAIN Todo[d] -> Outcome]
           /\ DOMAIN outcome' = Clients
           /\ Engaged'
  <1>1. TypeOK /\ Engaged /\ calls[c].item \in DOMAIN Todo[c]
    BY DEF TypeInv, Engaged
  <1>2. CASE /\ MayRetry(calls[c].attempt)
             /\ calls' = [calls EXCEPT ![c].phase = "backoff"]
             /\ UNCHANGED <<breaker, outcome>>
    <2> DEFINE call == [calls[c] EXCEPT !.phase = "backoff"]
    <2>1. call \in CallState /\ call.item = calls[c].item /\ call.phase = "backoff"
          /\ call.attempt = calls[c].attempt
      BY <1>1, CallFields DEF CallState
    <2>2. calls' = [calls EXCEPT ![c] = call]
      BY <1>2
    <2> HIDE DEF call
    <2>3. calls' \in [Clients -> CallState]
      BY <1>1, <2>1, <2>2 DEF TypeOK
    <2>4. Engaged'
      BY <1>1, <1>2, <2>1, <2>2, CallFields DEF Engaged, KeyOf, MayRetry
    <2>5. QED
      BY <1>1, <1>2, <2>3, <2>4 DEF TypeOK
  <1>3. CASE /\ breaker' = [breaker EXCEPT ![c] = Failing(breaker[c])]
             /\ Settled(c, "failed", 0)
    <2>1. Failing(breaker[c]) \in [circuit : Circuit, failures : Nat]
      BY <1>1 DEF TypeOK, Failing, Circuit
    <2>2. breaker' \in [Clients -> [circuit : Circuit, failures : Nat]]
      BY <1>1, <1>3, <2>1 DEF TypeOK
    <2>3. QED
      BY <1>1, <1>3, <2>2, SettledType
  <1>4. QED
    BY <1>2, <1>3 DEF Missed

\* Steps of a client keep the types.
LEMMA ClientStepType ==
    ASSUME TypeInv, NEW c \in Clients, ClientStep(c)
    PROVE  TypeInv'
  <1>1. TypeOK /\ Engaged
    BY DEF TypeInv
  <1>2. ASSUME requests' \subseteq requests, UNCHANGED tasks,
               burst' \in [Clients -> Nat],
               breaker' \in [Clients -> [circuit : Circuit, failures : Nat]],
               calls' \in [Clients -> CallState],
               \A d \in Clients : outcome'[d] \in [DOMAIN Todo[d] -> Outcome],
               DOMAIN outcome' = Clients, Engaged'
        PROVE  TypeInv'
    BY <1>1, <1>2, FewerRequests DEF TypeInv, TypeOK, RequestKey
  <1>3. CASE Skip(c) \/ Refuse(c)
    <2>1. calls[c].item \in DOMAIN Todo[c] /\ UNCHANGED <<breaker, requests, tasks, burst>>
      BY <1>3 DEF Skip, Refuse, Handles
    <2>2. Settled(c, "skipped", 0) \/ Settled(c, "failed", 0)
      BY <1>3 DEF Skip, Refuse
    <2>3. QED
      BY <1>1, <1>2, <2>1, <2>2, SettledType DEF TypeOK
  <1>4. CASE Call(c)
    <2>1. calls[c].item \in DOMAIN Todo[c] /\ KeyOf(c) # None /\ Attempt(c, 1)
      BY <1>4 DEF Call, Handles
    <2>2. KeyOf(c) \in Keys /\ 1 \in 1..MaxAttempts
      BY <1>1, <2>1, KeyOfItem, MaxAttemptsAssumption
    <2>3. QED
      BY <2>1, <2>2, AttemptType
  <1>5. CASE Retry(c)
    <2>1. calls[c].phase = "backoff" /\ Attempt(c, calls[c].attempt + 1)
      BY <1>5 DEF Retry
    <2>2. /\ calls[c].item \in DOMAIN Todo[c]
          /\ KeyOf(c) \in Keys
          /\ calls[c].attempt + 1 \in 1..MaxAttempts
      BY <1>1, <2>1, CallFields, MaxAttemptsAssumption DEF Engaged, MayRetry
    <2>3. QED
      BY <2>1, <2>2, AttemptType
  <1>6. CASE Receive(c)
    <2>1. PICK r \in requests :
            /\ r.client = c
            /\ IsAwaited(r)
            /\ \/ /\ r.stage = "created"
                  /\ Settled(c, "created", r.task)
                  /\ breaker' = [breaker EXCEPT ![c] = Closed]
                  /\ burst' = [burst EXCEPT ![c] = 0]
               \/ /\ r.stage = "rejected"
                  /\ Settled(c, "failed", 0)
                  /\ breaker' = [breaker EXCEPT ![c] = Closed]
                  /\ burst' = [burst EXCEPT ![c] = 0]
               \/ /\ r.stage = "failed"
                  /\ Missed(c)
                  /\ UNCHANGED burst
            /\ requests' = requests \ {r}
            /\ UNCHANGED tasks
      BY <1>6 DEF Receive
    <2>2. calls[c].phase = "waiting" /\ calls[c].item \in DOMAIN Todo[c] /\ r.task \in Nat
      BY <1>1, <2>1 DEF IsAwaited, Engaged, TypeOK, Request
    <2>3. CASE r.stage = "failed" /\ Missed(c) /\ UNCHANGED burst
      BY <1>1, <1>2, <2>1, <2>2, <2>3, MissedType DEF TypeOK
    <2>4. CASE /\ Settled(c, "created", r.task) \/ Settled(c, "failed", 0)
               /\ breaker' = [breaker EXCEPT ![c] = Closed]
               /\ burst' = [burst EXCEPT ![c] = 0]
      <3>1. /\ breaker' \in [Clients -> [circuit : Circuit, failures : Nat]]
            /\ burst' \in [Clients -> Nat]
        BY <1>1, <2>4 DEF TypeOK, Closed, Circuit
      <3>2. QED
        BY <1>2, <2>1, <2>2, <2>4, <3>1, SettledType
    <2>5. QED
      BY <2>1, <2>3, <2>4
  <1>7. CASE Timeout(c)
    <2>1. /\ calls[c].phase = "waiting"
          /\ Missed(c)
          /\ requests' \subseteq requests
          /\ UNCHANGED <<tasks, burst>>
      BY <1>7 DEF Timeout
    <2>2. QED
      BY <1>1, <1>2, <2>1, MissedType DEF TypeOK
  <1>8. QED
    BY <1>3, <1>4, <1>5, <1>6, <1>7 DEF ClientStep

\* Steps of the tracker keep the types.
LEMMA TrackerStepType ==
    ASSUME TypeInv, NEW r \in requests, TrackerStep(r)
    PROVE  TypeInv'
  <1>1. TypeOK /\ Engaged
    BY DEF TypeInv
  <1>2. UNCHANGED <<calls, breaker, outcome, burst>>
    BY DEF TrackerStep, Reject, Replay, Miss, Insert, Fail, Lose
  <1>3. Engaged'
    BY <1>1, <1>2 DEF Engaged, KeyOf
  <1>4. tasks' \in Seq(Keys)
    <2>1. RequestKey(r) \in Keys /\ tasks \in Seq(Keys)
      BY <1>1 DEF TypeOK
    <2>2. tasks' = tasks \/ tasks' = Append(tasks, RequestKey(r))
      BY DEF TrackerStep, Reject, Replay, Miss, Insert, Fail, Lose
    <2>3. QED
      BY <2>1, <2>2
  <1>5. /\ requests' \subseteq Request
        /\ \A s \in requests' : s.item \in DOMAIN Todo[s.client] /\ RequestKey(s) \in Keys
    <2>1. CASE Lose(r)
      <3>1. requests' \subseteq requests
        BY <2>1 DEF Lose
      <3>2. QED
        BY <1>1, <3>1, FewerRequests
    <2>2. CASE ~ Lose(r)
      <3>1. tasks \in Seq(Keys) /\ Len(tasks) + 1 \in Nat
        BY <1>1 DEF TypeOK
      <3>2. \E stage \in Stage, task \in Nat : Served(r, stage, task)
        <4>1. CASE Replay(r)
          <5>1. PICK n \in TasksOf(RequestKey(r)) : Served(r, "created", n)
            BY <4>1 DEF Replay
          <5>2. n \in Nat
            BY <3>1 DEF TasksOf
          <5>3. QED
            BY <5>1, <5>2 DEF Stage
        <4>2. CASE Insert(r)
          BY <3>1, <4>2 DEF Insert, Stage
        <4>3. CASE Reject(r) \/ Miss(r) \/ Fail(r)
          BY <4>3 DEF Reject, Miss, Fail, Stage
        <4>4. QED
          BY <2>2, <4>1, <4>2, <4>3 DEF TrackerStep
      <3>3. QED
        BY <1>1, <3>2, ServedType
    <2>3. QED
      BY <2>1, <2>2
  <1>6. QED
    BY <1>1, <1>2, <1>3, <1>4, <1>5 DEF TypeInv, TypeOK, RequestKey

\* Resting a circuit and dying keep the types.
LEMMA RestDieType ==
    ASSUME TypeInv, NEW c \in Clients, Rest(c) \/ Die(c)
    PROVE  TypeInv'
  <1>1. TypeOK /\ Engaged
    BY DEF TypeInv
  <1>2. CASE Rest(c)
    <2>1. [breaker[c] EXCEPT !.circuit = "half_open"] \in [circuit : Circuit, failures : Nat]
      BY <1>1 DEF TypeOK, Circuit
    <2>2. /\ breaker' \in [Clients -> [circuit : Circuit, failures : Nat]]
          /\ burst' \in [Clients -> Nat]
      BY <1>1, <1>2, <2>1 DEF TypeOK, Rest
    <2>3. QED
      BY <1>1, <1>2, <2>2 DEF TypeInv, TypeOK, Engaged, KeyOf, Rest, RequestKey
  <1>3. CASE Die(c)
    <2> DEFINE dead == [Ready(1) EXCEPT !.phase = "dead"]
    <2>1. dead \in CallState /\ dead.phase = "dead"
      BY MaxAttemptsAssumption DEF Ready, CallState
    <2>2. calls' = [calls EXCEPT ![c] = dead]
      BY <1>3 DEF Die
    <2> HIDE DEF dead
    <2>3. calls' \in [Clients -> CallState]
      BY <1>1, <2>1, <2>2 DEF TypeOK
    <2>4. Engaged'
      BY <1>1, <2>1, <2>2, CallFields DEF Engaged, KeyOf
    <2>5. requests' \subseteq requests /\ UNCHANGED <<outcome, tasks>>
      BY <1>3 DEF Die
    <2>6. /\ breaker' \in [Clients -> [circuit : Circuit, failures : Nat]]
          /\ burst' \in [Clients -> Nat]
      BY <1>1, <1>3 DEF TypeOK, Die, Closed, Circuit
    <2>7. QED
      BY <1>1, <2>3, <2>4, <2>5, <2>6, FewerRequests DEF TypeInv, TypeOK, RequestKey
  <1>4. QED
    BY <1>2, <1>3

\* The initial states have their types.
LEMMA TypeInit == Init => TypeInv
  <1> SUFFICES ASSUME Init PROVE TypeInv
    OBVIOUS
  <1>1. Ready(1) \in CallState /\ Ready(1).phase = "ready"
    BY MaxAttemptsAssumption DEF Ready, CallState
  <1>2. Unsettled \in Outcome
    BY DEF Unsettled, Outcome
  <1>3. TypeOK
    BY <1>1, <1>2 DEF Init, TypeOK, Circuit
  <1>4. Engaged
    BY <1>1 DEF Init, Engaged
  <1>5. QED
    BY <1>3, <1>4 DEF TypeInv

\* Every step keeps the types.
LEMMA TypeStep == TypeInv /\ [Next]_vars => TypeInv'
  <1> SUFFICES ASSUME TypeInv, [Next]_vars PROVE TypeInv'
    OBVIOUS
  <1>1. CASE UNCHANGED vars
    BY <1>1 DEF TypeInv, TypeOK, Engaged, KeyOf, RequestKey, vars
  <1>2. ASSUME NEW c \in Clients, ClientStep(c) \/ Rest(c) \/ Die(c)
        PROVE  TypeInv'
    BY <1>2, ClientStepType, RestDieType
  <1>3. ASSUME NEW r \in requests, TrackerStep(r)
        PROVE  TypeInv'
    BY <1>3, TrackerStepType
  <1>4. QED
    BY <1>1, <1>2, <1>3 DEF Next

\* The types hold always.
LEMMA TypeInvariant == Spec => []TypeInv
  BY TypeInit, TypeStep, PTL DEF Spec

\* No call makes more attempts than it may, and every request, however late,
\* names an item of a run that has a key (services/task_client.py).
THEOREM TypeCorrect == Spec => []TypeOK
  <1>1. TypeInv => TypeOK
    BY DEF TypeInv
  <1>2. QED
    BY <1>1, TypeInvariant, PTL

-----------------------------------------------------------------------------
(***************************************************************************)
(* What the steps do to outcomes, requests and tasks.                      *)
(***************************************************************************)

\* Client c settles the item at hand, and the result fits what it was told.
Settles(c, result, task) ==
    /\ calls[c].phase # "dead"
    /\ calls[c].item \in DOMAIN Todo[c]
    /\ Settled(c, result, task)
    /\ \/ result = "skipped" /\ KeyOf(c) = None
       \/ result = "failed" /\ KeyOf(c) # None
       \/ /\ result = "created" /\ KeyOf(c) # None
          /\ \E r \in requests : /\ r.stage = "created"
                                 /\ r.client = c
                                 /\ r.item = calls[c].item
                                 /\ r.task = task

\* The clients stay at their items, and nobody dies.
Steady ==
    \A d \in Clients : /\ calls'[d].item = calls[d].item
                       /\ calls'[d].phase = "dead" <=> calls[d].phase = "dead"

\* The tasks keep their numbers.
TasksKept == \A n \in DOMAIN tasks : n \in DOMAIN tasks' /\ tasks'[n] = tasks[n]

\* A failed attempt settles the item at hand as failed, or changes no outcome.
LEMMA MissedEffect ==
    ASSUME TypeInv, NEW c \in Clients, calls[c].phase = "waiting", Missed(c)
    PROVE  \/ UNCHANGED outcome /\ Steady
           \/ Settles(c, "failed", 0)
  <1>1. /\ calls[c].item \in DOMAIN Todo[c] /\ KeyOf(c) # None
        /\ DOMAIN calls = Clients /\ calls[c] \in CallState
    BY CallFields, NoneAssumption DEF TypeInv, Engaged
  <1>2. CASE calls' = [calls EXCEPT ![c].phase = "backoff"] /\ UNCHANGED outcome
    <2> DEFINE call == [calls[c] EXCEPT !.phase = "backoff"]
    <2>1. call.item = calls[c].item /\ call.phase = "backoff"
      BY <1>1 DEF CallState
    <2>2. calls' = [calls EXCEPT ![c] = call]
      BY <1>2
    <2> HIDE DEF call
    <2>3. QED
      BY <1>1, <1>2, <2>1, <2>2 DEF Steady
  <1>3. CASE Settled(c, "failed", 0)
    BY <1>1, <1>3 DEF Settles
  <1>4. QED
    BY <1>2, <1>3 DEF Missed

\* An attempt changes no outcome and sends one request.
LEMMA AttemptEffect ==
    ASSUME TypeInv, NEW c \in Clients, NEW n \in Nat, calls[c].phase # "dead", Attempt(c, n)
    PROVE  /\ UNCHANGED <<tasks, outcome>>
           /\ \A r \in requests' : r \in requests \/ r.stage = "sent"
           /\ Steady
  <1> DEFINE sending == [calls[c] EXCEPT !.phase = "waiting"]
             call == [sending EXCEPT !.attempt = n]
  <1>1. DOMAIN calls = Clients /\ calls[c] \in CallState
    BY CallFields DEF TypeInv
  <1>2. sending.item = calls[c].item /\ sending.phase = "waiting"
        /\ DOMAIN sending = {"phase", "item", "attempt"}
    BY <1>1 DEF CallState
  <1>3. calls' = [calls EXCEPT ![c] = call]
    BY DEF Attempt
  <1> HIDE DEF sending
  <1>4. call.item = calls[c].item /\ call.phase = "waiting"
    BY <1>2
  <1> HIDE DEF call
  <1>5. Steady
    BY <1>1, <1>3, <1>4 DEF Steady
  <1>6. QED
    BY <1>5 DEF Attempt

\* A step of a client leaves the tasks alone, sends at most one request, and
\* either settles the item at hand or changes no outcome.
LEMMA ClientEffect ==
    ASSUME TypeInv, NEW c \in Clients, ClientStep(c)
    PROVE  /\ UNCHANGED tasks
           /\ \A r \in requests' : r \in requests \/ r.stage = "sent"
           /\ \/ UNCHANGED outcome /\ Steady
              \/ \E result \in {"skipped", "failed", "created"}, task \in Nat :
                    Settles(c, result, task)
  <1>1. TypeOK /\ Engaged
    BY DEF TypeInv
  <1>2. CASE Skip(c)
    <2>1. Settles(c, "skipped", 0)
      BY <1>2 DEF Skip, Handles, Settles
    <2>2. QED
      BY <1>2, <2>1 DEF Skip
  <1>3. CASE Refuse(c)
    <2>1. Settles(c, "failed", 0)
      BY <1>3 DEF Refuse, Handles, Settles
    <2>2. QED
      BY <1>3, <2>1 DEF Refuse
  <1>4. CASE Call(c)
    BY <1>4, AttemptEffect DEF Call, Handles
  <1>5. CASE Retry(c)
    <2>1. calls[c].phase = "backoff" /\ Attempt(c, calls[c].attempt + 1)
          /\ calls[c].attempt + 1 \in Nat
      BY <1>1, <1>5, CallFields, MaxAttemptsAssumption DEF Retry
    <2>2. QED
      BY <2>1, AttemptEffect
  <1>6. CASE Receive(c)
    <2>1. PICK r \in requests :
            /\ r.client = c
            /\ IsAwaited(r)
            /\ \/ r.stage = "created" /\ Settled(c, "created", r.task)
               \/ r.stage = "rejected" /\ Settled(c, "failed", 0)
               \/ r.stage = "failed" /\ Missed(c)
            /\ requests' = requests \ {r}
            /\ UNCHANGED tasks
      BY <1>6 DEF Receive
    <2>2. /\ calls[c].phase = "waiting" /\ calls[c].item = r.item
          /\ calls[c].item \in DOMAIN Todo[c] /\ KeyOf(c) # None /\ r.task \in Nat
      BY <1>1, <2>1, NoneAssumption DEF IsAwaited, Engaged, TypeOK, Request
    <2>3. CASE r.stage = "created" /\ Settled(c, "created", r.task)
      <3>1. Settles(c, "created", r.task)
        BY <2>1, <2>2, <2>3 DEF Settles
      <3>2. QED
        BY <2>1, <2>2, <3>1
    <2>4. CASE Settled(c, "failed", 0)
      <3>1. Settles(c, "failed", 0)
        BY <2>2, <2>4 DEF Settles
      <3>2. QED
        BY <2>1, <3>1
    <2>5. CASE Missed(c)
      BY <2>1, <2>2, <2>5, MissedEffect
    <2>6. QED
      BY <2>1, <2>3, <2>4, <2>5
  <1>7. CASE Timeout(c)
    <2>1. calls[c].phase = "waiting" /\ Missed(c) /\ requests' \subseteq requests
          /\ UNCHANGED tasks
      BY <1>7 DEF Timeout
    <2>2. QED
      BY <2>1, MissedEffect
  <1>8. QED
    BY <1>2, <1>3, <1>4, <1>5, <1>6, <1>7 DEF ClientStep

\* A settled item has its result, and the other items keep theirs.
LEMMA SettledOutcome ==
    ASSUME TypeInv, NEW c \in Clients, NEW result, NEW task, Settles(c, result, task)
    PROVE  /\ outcome'[c][calls[c].item] = [result |-> result, task |-> task]
           /\ \A d \in Clients : \A i \in DOMAIN Todo[d] :
                ~ (d = c /\ i = calls[c].item) => outcome'[d][i] = outcome[d][i]
  BY DEF Settles, Settled, TypeInv, TypeOK

\* A client that settled an item is ready for the next one.
LEMMA SettledCalls ==
    ASSUME TypeInv, NEW c \in Clients, NEW result, NEW task, Settles(c, result, task)
    PROVE  /\ calls'[c] = Ready(calls[c].item + 1)
           /\ \A d \in Clients : d # c => calls'[d] = calls[d]
  BY DEF Settles, Settled, TypeInv, TypeOK

\* A step of the tracker leaves the clients alone and gives every task a number
\* of its own.
LEMMA TrackerEffect ==
    ASSUME TypeInv, NEW r \in requests, TrackerStep(r)
    PROVE  /\ UNCHANGED <<calls, breaker, outcome, burst>>
           /\ \/ UNCHANGED tasks
              \/ /\ tasks' = Append(tasks, RequestKey(r))
                 /\ ~ Clashes(RequestKey(r))
           /\ TasksKept
  <1>1. tasks \in Seq(Keys) /\ RequestKey(r) \in Keys
    BY DEF TypeInv, TypeOK
  <1>2. \/ UNCHANGED tasks
        \/ /\ tasks' = Append(tasks, RequestKey(r))
           /\ ~ Clashes(RequestKey(r))
    BY DEF TrackerStep, Reject, Replay, Miss, Insert, Fail, Lose
  <1>3. TasksKept
    BY <1>1, <1>2 DEF TasksKept
  <1>4. QED
    BY <1>2, <1>3 DEF TrackerStep, Reject, Replay, Miss, Insert, Fail, Lose

-----------------------------------------------------------------------------
(***************************************************************************)
(* Task numbers.                                                           *)
(***************************************************************************)

\* An answer on its way names a task stored under the key that was asked for.
Answered ==
    \A r \in requests :
      r.stage = "created" => r.task \in DOMAIN tasks /\ tasks[r.task] = RequestKey(r)

OwnInv == OutcomesAreTheirOwn /\ Answered

\* What a tracker's step makes of requests.
LEMMA TrackerAnswers ==
    ASSUME TypeInv, OwnInv, NEW r \in requests, TrackerStep(r)
    PROVE  Answered'
  <1>1. TasksKept /\ tasks \in Seq(Keys) /\ RequestKey(r) \in Keys /\ r \in Request
    BY TrackerEffect DEF TypeInv, TypeOK
  <1>2. ASSUME NEW stage, NEW task, Served(r, stage, task),
               stage = "created" => task \in DOMAIN tasks' /\ tasks'[task] = RequestKey(r)
        PROVE  Answered'
    <2> DEFINE moved == [r EXCEPT !.stage = stage, !.task = task]
    <2>1. moved.stage = stage /\ moved.task = task
          /\ moved.client = r.client /\ moved.item = r.item
      BY <1>1 DEF Request
    <2>2. requests' \subseteq requests \cup {moved}
      BY <1>2 DEF Served
    <2> HIDE DEF moved
    <2>3. QED
      BY <1>1, <1>2, <2>1, <2>2 DEF OwnInv, Answered, TasksKept, RequestKey
  <1>3. CASE Replay(r)
    <2>1. PICK n \in TasksOf(RequestKey(r)) : Served(r, "created", n)
      BY <1>3 DEF Replay
    <2>2. n \in DOMAIN tasks /\ tasks[n] = RequestKey(r)
      BY DEF TasksOf
    <2>3. QED
      BY <1>1, <1>2, <2>1, <2>2 DEF TasksKept
  <1>4. CASE Insert(r)
    <2>1. /\ tasks' = Append(tasks, RequestKey(r))
          /\ Served(r, "created", Len(tasks) + 1) \/ Served(r, "failed", 0)
      BY <1>4 DEF Insert
    <2>2. Len(tasks) + 1 \in DOMAIN tasks' /\ tasks'[Len(tasks) + 1] = RequestKey(r)
      BY <1>1, <2>1
    <2>3. QED
      BY <1>2, <2>1, <2>2
  <1>5. CASE Reject(r) \/ Miss(r) \/ Fail(r)
    <2>1. \E stage \in {"rejected", "missed", "failed"} : Served(r, stage, 0)
      BY <1>5 DEF Reject, Miss, Fail
    <2>2. QED
      BY <1>2, <2>1
  <1>6. CASE Lose(r)
    BY <1>1, <1>6 DEF Lose, OwnInv, Answered, TasksKept, RequestKey
  <1>7. QED
    BY <1>3, <1>4, <1>5, <1>6 DEF TrackerStep

\* Every step keeps outcomes and answers true.
LEMMA OwnStep == TypeInv /\ OwnInv /\ [Next]_vars => OwnInv'
  <1> SUFFICES ASSUME TypeInv, OwnInv, [Next]_vars PROVE OwnInv'
    OBVIOUS
  <1>1. CASE UNCHANGED vars
    BY <1>1 DEF OwnInv, OutcomesAreTheirOwn, Answered, RequestKey, vars
  <1>2. ASSUME UNCHANGED tasks, \A r \in requests' : r \in requests \/ r.stage = "sent"
        PROVE  Answered'
    BY <1>2 DEF OwnInv, Answered, RequestKey
  <1>3. ASSUME NEW c \in Clients, ClientStep(c)
        PROVE  OwnInv'
    <2>1. Answered' /\ UNCHANGED tasks
      BY <1>2, <1>3, ClientEffect
    <2>2. CASE UNCHANGED outcome
      BY <2>1, <2>2 DEF OwnInv, OutcomesAreTheirOwn
    <2>3. ASSUME NEW result, NEW task, Settles(c, result, task)
          PROVE  OutcomesAreTheirOwn'
      <3>1. result = "created" =>
              task \in DOMAIN tasks /\ tasks[task] = Todo[c][calls[c].item]
        BY <2>3 DEF Settles, OwnInv, Answered, RequestKey
      <3>2. /\ outcome'[c][calls[c].item] = [result |-> result, task |-> task]
            /\ \A d \in Clients : \A i \in DOMAIN Todo[d] :
                 ~ (d = c /\ i = calls[c].item) => outcome'[d][i] = outcome[d][i]
        BY <2>3, SettledOutcome
      <3>3. SUFFICES ASSUME NEW d \in Clients, NEW i \in DOMAIN Todo[d],
                            outcome'[d][i].result = "created"
                     PROVE  /\ outcome'[d][i].task \in DOMAIN tasks
                            /\ tasks[outcome'[d][i].task] = Todo[d][i]
        BY <2>1 DEF OutcomesAreTheirOwn
      <3>4. CASE d = c /\ i = calls[c].item
        <4>1. outcome'[d][i] = [result |-> result, task |-> task]
          BY <3>2, <3>4
        <4>2. QED
          BY <3>1, <3>3, <3>4, <4>1
      <3>5. CASE ~ (d = c /\ i = calls[c].item)
        <4>1. outcome'[d][i] = outcome[d][i]
          BY <3>2, <3>5
        <4>2. QED
          BY <3>3, <4>1 DEF OwnInv, OutcomesAreTheirOwn
      <3>6. QED
        BY <3>4, <3>5
    <2>4. QED
      BY <1>3, <2>1, <2>2, <2>3, ClientEffect DEF OwnInv
  <1>4. ASSUME NEW c \in Clients, Rest(c) \/ Die(c)
        PROVE  OwnInv'
    <2>1. requests' \subseteq requests /\ UNCHANGED <<outcome, tasks>>
      BY <1>4 DEF Rest, Die
    <2>2. QED
      BY <1>2, <2>1 DEF OwnInv, OutcomesAreTheirOwn
  <1>5. ASSUME NEW r \in requests, TrackerStep(r)
        PROVE  OwnInv'
    <2>1. Answered' /\ UNCHANGED outcome /\ TasksKept
      BY <1>5, TrackerAnswers, TrackerEffect
    <2>2. QED
      BY <2>1 DEF OwnInv, OutcomesAreTheirOwn, TasksKept
  <1>6. QED
    BY <1>1, <1>3, <1>4, <1>5 DEF Next

\* The number an item carries away is that of a task stored under the item's own
\* key, however requests, retries and replays were interleaved
\* (agents/execution.py, api/mock_tasks.py).
THEOREM OutcomesOwn == Spec => []OutcomesAreTheirOwn
  <1>1. Init => OwnInv
    BY DEF Init, Unsettled, OwnInv, OutcomesAreTheirOwn, Answered
  <1>2. OwnInv => OutcomesAreTheirOwn
    BY DEF OwnInv
  <1>3. QED
    BY <1>1, <1>2, OwnStep, TypeInvariant, PTL DEF Spec

-----------------------------------------------------------------------------
(***************************************************************************)
(* The safety of Delivery.                                                 *)
(***************************************************************************)

\* A key has one task at most.
Single == \A m, n \in DOMAIN tasks : tasks[m] = tasks[n] => m = n

\* A run that lives knows nothing yet of the items it has not reached.
Unreached ==
    \A c \in Clients :
      calls[c].phase # "dead" =>
        \A i \in DOMAIN Todo[c] : i >= calls[c].item => outcome[c][i].result = "todo"

OnceInv == OwnInv /\ Single /\ Unreached

\* The state of Delivery.
Living == {c \in Clients : calls[c].phase # "dead"}
Made == [k \in Keys |-> Cardinality(TasksOf(k))]
Results == [c \in Clients |-> [i \in DOMAIN Todo[c] |-> outcome[c][i].result]]

\* A key without a task was given none, and one with a task one.
LEMMA MadeOf ==
    ASSUME Single, NEW k \in Keys
    PROVE  /\ TasksOf(k) = {} => Made[k] = 0
           /\ \A n \in TasksOf(k) : Made[k] = 1
  <1>1. CASE TasksOf(k) = {}
    BY <1>1, FS_EmptySet DEF Made
  <1>2. ASSUME NEW n \in TasksOf(k) PROVE Made[k] = 1
    <2>1. TasksOf(k) = {n}
      BY <1>2 DEF TasksOf, Single
    <2>2. QED
      BY <2>1, FS_Singleton DEF Made
  <1>3. QED
    BY <1>1, <1>2

\* The tracker gives no key a second task.
LEMMA SingleStep ==
    ASSUME TypeInv, Single, NEW r \in requests, TrackerStep(r)
    PROVE  Single'
  <1>1. tasks \in Seq(Keys) /\ RequestKey(r) \in Keys
    BY DEF TypeInv, TypeOK
  <1>2. CASE UNCHANGED tasks
    BY <1>2 DEF Single
  <1>3. CASE tasks' = Append(tasks, RequestKey(r)) /\ ~ Clashes(RequestKey(r))
    <2>1. \A n \in DOMAIN tasks : tasks[n] # RequestKey(r)
      BY <1>3 DEF Clashes
    <2>2. \A n \in DOMAIN tasks' :
            \/ n \in DOMAIN tasks /\ tasks'[n] = tasks[n]
            \/ n = Len(tasks) + 1 /\ tasks'[n] = RequestKey(r)
      BY <1>1, <1>3
    <2>3. QED
      BY <2>1, <2>2 DEF Single
  <1>4. QED
    BY <1>2, <1>3, TrackerEffect

\* A client settles its items in their order.
LEMMA UnreachedStep ==
    ASSUME TypeInv, Unreached, NEW c \in Clients, ClientStep(c)
    PROVE  Unreached'
  <1>1. CASE UNCHANGED outcome /\ Steady
    BY <1>1 DEF Unreached, Steady
  <1>2. ASSUME NEW result, NEW task, Settles(c, result, task)
        PROVE  Unreached'
    <2>1. /\ calls[c].phase # "dead" /\ calls[c].item \in Nat
          /\ Todo[c] \in Seq(Keys \cup {None}) /\ DOMAIN calls = Clients
      BY <1>2, CallFields DEF Settles, TypeInv
    <2>2. calls'[c].item = calls[c].item + 1
          /\ \A d \in Clients : d # c => calls'[d] = calls[d]
      <3>1. calls'[c] = Ready(calls[c].item + 1)
            /\ \A d \in Clients : d # c => calls'[d] = calls[d]
        BY <1>2, SettledCalls
      <3>2. QED
        BY <3>1 DEF Ready
    <2>3. \A d \in Clients : \A i \in DOMAIN Todo[d] :
            ~ (d = c /\ i = calls[c].item) => outcome'[d][i] = outcome[d][i]
      BY <1>2, SettledOutcome
    <2>4. \A i \in DOMAIN Todo[c] :
            i >= calls[c].item + 1 => i >= calls[c].item /\ i # calls[c].item
      BY <2>1
    <2>5. QED
      BY <2>1, <2>2, <2>3, <2>4 DEF Unreached
  <1>3. QED
    BY <1>1, <1>2, ClientEffect

\* Every step keeps what the mapping to Delivery rests on.
LEMMA OnceStep == TypeInv /\ OnceInv /\ [Next]_vars => OnceInv'
  <1> SUFFICES ASSUME TypeInv, OnceInv, [Next]_vars PROVE OnceInv'
    OBVIOUS
  <1>1. OwnInv' /\ OwnInv /\ Single /\ Unreached
    BY OwnStep DEF OnceInv
  <1>2. CASE UNCHANGED vars
    BY <1>1, <1>2 DEF OnceInv, Single, Unreached, vars
  <1>3. ASSUME NEW c \in Clients, ClientStep(c)
        PROVE  OnceInv'
    <2>1. UNCHANGED tasks
      BY <1>3, ClientEffect
    <2>2. QED
      BY <1>1, <1>3, <2>1, UnreachedStep DEF OnceInv, Single
  <1>4. ASSUME NEW c \in Clients, Rest(c)
        PROVE  OnceInv'
    BY <1>1, <1>4 DEF Rest, OnceInv, Single, Unreached
  <1>5. ASSUME NEW c \in Clients, Die(c)
        PROVE  OnceInv'
    <2>1. UNCHANGED <<outcome, tasks>> /\ DOMAIN calls = Clients
      BY <1>5, CallFields DEF Die, TypeInv
    <2>2. calls'[c].phase = "dead" /\ \A d \in Clients : d # c => calls'[d] = calls[d]
      BY <1>5, <2>1 DEF Die, Ready
    <2>3. QED
      BY <1>1, <2>1, <2>2 DEF OnceInv, Single, Unreached
  <1>6. ASSUME NEW r \in requests, TrackerStep(r)
        PROVE  OnceInv'
    <2>1. UNCHANGED <<calls, outcome>> /\ Single'
      BY <1>1, <1>6, TrackerEffect, SingleStep
    <2>2. QED
      BY <1>1, <2>1 DEF OnceInv, Unreached
  <1>7. QED
    BY <1>2, <1>3, <1>4, <1>5, <1>6 DEF Next

\* A settled item is one step of Delivery.
LEMMA SettlesMaps ==
    ASSUME TypeInv, OnceInv, NEW c \in Clients, UNCHANGED tasks,
           NEW result, NEW task, Settles(c, result, task),
           NEW i \in DOMAIN Todo[c], i = calls[c].item
    PROVE  Promise!Settle(c, i)
  <1>1. /\ c \in Living /\ i \in DOMAIN Todo[c] /\ DOMAIN calls = Clients
        /\ Todo[c] \in Seq(Keys \cup {None}) /\ i \in Nat
    BY CallFields DEF Living, Settles, TypeInv
  <1>2. Living' = Living /\ Made' = Made
    <2>1. \A d \in Clients : calls'[d].phase = "dead" <=> calls[d].phase = "dead"
      <3>1. calls'[c] = Ready(calls[c].item + 1)
            /\ \A d \in Clients : d # c => calls'[d] = calls[d]
        BY SettledCalls
      <3>2. QED
        BY <1>1, <3>1 DEF Ready, Living
    <2>2. QED
      BY <2>1 DEF Living, Made, TasksOf
  <1>3. Results[c][i] = "todo"
    BY <1>1 DEF Results, OnceInv, Unreached, Living
  <1>4. Results' = [Results EXCEPT ![c][i] = result]
    <2>1. \A d \in Clients : \A j \in DOMAIN Todo[d] :
            outcome'[d][j].result = IF d = c /\ j = i THEN result ELSE outcome[d][j].result
      <3>1. /\ outcome'[c][calls[c].item] = [result |-> result, task |-> task]
            /\ \A d \in Clients : \A j \in DOMAIN Todo[d] :
                 ~ (d = c /\ j = calls[c].item) => outcome'[d][j] = outcome[d][j]
        BY SettledOutcome
      <3>2. QED
        BY <3>1
    <2>2. DOMAIN Results = Clients /\ \A d \in Clients : DOMAIN Results[d] = DOMAIN Todo[d]
      BY DEF Results
    <2> DEFINE new == [Results[c] EXCEPT ![i] = result]
    <2>3. new = [j \in DOMAIN Todo[c] |-> outcome'[c][j].result]
      BY <1>1, <2>1 DEF Results
    <2>4. \A d \in Clients : d # c =>
            [j \in DOMAIN Todo[d] |-> outcome'[d][j].result] = Results[d]
      BY <2>1 DEF Results
    <2>5. Results' = [d \in Clients |-> [j \in DOMAIN Todo[d] |-> outcome'[d][j].result]]
      BY DEF Results
    <2> HIDE DEF new
    <2>6. Results' = [Results EXCEPT ![c] = new]
      BY <2>2, <2>3, <2>4, <2>5
    <2>7. QED
      BY <2>6 DEF new
  <1>5. result = "created" => Made[Todo[c][i]] = 1 /\ Todo[c][i] # None
    <2>1. SUFFICES ASSUME result = "created"
                   PROVE  Made[Todo[c][i]] = 1 /\ Todo[c][i] # None
      OBVIOUS
    <2>2. PICK r \in requests :
            r.stage = "created" /\ r.client = c /\ r.item = i /\ r.task = task
      BY <2>1 DEF Settles
    <2>3. Todo[c][i] # None /\ Todo[c][i] \in Keys
      BY <1>1, <2>1 DEF Settles, KeyOf
    <2>4. r.task \in TasksOf(Todo[c][i])
      BY <2>2 DEF OnceInv, OwnInv, Answered, RequestKey, TasksOf
    <2>5. QED
      BY <2>3, <2>4, MadeOf DEF OnceInv
  <1>6. QED
    BY <1>1, <1>2, <1>3, <1>4, <1>5 DEF Promise!Settle, Living, Made, Results, Settles, KeyOf

\* A task stored is one step of Delivery.
LEMMA InsertMaps ==
    ASSUME TypeInv, OnceInv, OnceInv', NEW k \in Keys, ~ Clashes(k),
           tasks' = Append(tasks, k), UNCHANGED <<calls, outcome>>
    PROVE  Promise!Create(k)
  <1>1. tasks \in Seq(Keys)
    BY DEF TypeInv, TypeOK
  <1>2. Made[k] = 0
    <2>1. TasksOf(k) = {}
      BY DEF Clashes, TasksOf
    <2>2. QED
      BY <2>1, MadeOf DEF OnceInv
  <1>3. TasksOf(k)' = {Len(tasks) + 1}
    BY <1>1 DEF Clashes, TasksOf
  <1>4. \A j \in Keys : j # k => TasksOf(j)' = TasksOf(j)
    BY <1>1 DEF TasksOf
  <1>5. Made' = [Made EXCEPT ![k] = 1]
    <2>1. Cardinality(TasksOf(k)') = 1
      BY <1>3, FS_Singleton
    <2>2. Made' = [j \in Keys |-> Cardinality(TasksOf(j)')]
      BY DEF Made
    <2>3. Made = [j \in Keys |-> Cardinality(TasksOf(j))]
      BY DEF Made
    <2>4. QED
      BY <1>4, <2>1, <2>2, <2>3
  <1>6. UNCHANGED <<Living, Results>>
    BY DEF Living, Results
  <1>7. QED
    BY <1>2, <1>5, <1>6 DEF Promise!Create, Living, Made, Results

\* Initial states are initial states of Delivery.
LEMMA DeliverInit == Init => Promise!Init
  <1> SUFFICES ASSUME Init PROVE Promise!Init
    OBVIOUS
  <1>1. \A k \in Keys : TasksOf(k) = {}
    BY DEF Init, TasksOf
  <1>2. \A k \in Keys : Cardinality(TasksOf(k)) = 0
    BY <1>1, FS_EmptySet
  <1>3. {c \in Clients : calls[c].phase # "dead"} = Clients
    BY DEF Init, Ready
  <1>4. [c \in Clients |-> [i \in DOMAIN Todo[c] |-> outcome[c][i].result]]
        = [c \in Clients |-> [i \in DOMAIN Todo[c] |-> "todo"]]
    BY DEF Init, Unsettled
  <1>5. QED
    BY <1>2, <1>3, <1>4 DEF Promise!Init

\* Every step is a step of Delivery, or none.
LEMMA DeliverStep ==
    TypeInv /\ OnceInv /\ OnceInv' /\ [Next]_vars => [Promise!Next]_(Promise!vars)
  <1> SUFFICES ASSUME TypeInv, OnceInv, OnceInv', [Next]_vars
               PROVE  Promise!Next \/ UNCHANGED Promise!vars
    OBVIOUS
  <1>1. ASSUME UNCHANGED <<tasks, outcome>>, Living' = Living
        PROVE  UNCHANGED Promise!vars
    BY <1>1 DEF Promise!vars, Living, TasksOf
  <1>2. CASE UNCHANGED vars
    BY <1>1, <1>2 DEF vars, Living
  <1>3. ASSUME NEW c \in Clients, ClientStep(c)
        PROVE  Promise!Next \/ UNCHANGED Promise!vars
    <2>1. UNCHANGED tasks
      BY <1>3, ClientEffect
    <2>2. CASE UNCHANGED outcome /\ Steady
      BY <1>1, <2>1, <2>2 DEF Steady, Living
    <2>3. ASSUME NEW result, NEW task, Settles(c, result, task)
          PROVE  Promise!Next
      <3>1. PICK i \in DOMAIN Todo[c] : i = calls[c].item
        BY <2>3 DEF Settles
      <3>2. Promise!Settle(c, i)
        BY <2>1, <2>3, <3>1, SettlesMaps
      <3>3. QED
        BY <3>2 DEF Promise!Next, Promise!SettleOne
    <2>4. QED
      BY <1>3, <2>2, <2>3, ClientEffect
  <1>4. ASSUME NEW c \in Clients, Rest(c)
        PROVE  UNCHANGED Promise!vars
    BY <1>1, <1>4 DEF Rest, Living
  <1>5. ASSUME NEW c \in Clients, Die(c)
        PROVE  Promise!Next
    <2>1. UNCHANGED <<outcome, tasks>> /\ DOMAIN calls = Clients /\ calls[c].phase # "dead"
      BY <1>5, CallFields DEF Die, TypeInv
    <2>2. calls'[c].phase = "dead" /\ \A d \in Clients : d # c => calls'[d] = calls[d]
      BY <1>5, <2>1 DEF Die, Ready
    <2>3. c \in Living /\ Living' = Living \ {c}
      BY <2>1, <2>2 DEF Living
    <2>4. Promise!Die(c)
      BY <2>1, <2>3 DEF Promise!Die, Living, TasksOf
    <2>5. QED
      BY <2>4 DEF Promise!Next
  <1>6. ASSUME NEW r \in requests, TrackerStep(r)
        PROVE  Promise!Next \/ UNCHANGED Promise!vars
    <2>1. UNCHANGED <<calls, outcome>> /\ RequestKey(r) \in Keys
      BY <1>6, TrackerEffect DEF TypeInv, TypeOK
    <2>2. CASE UNCHANGED tasks
      BY <1>1, <2>1, <2>2 DEF Living
    <2>3. CASE tasks' = Append(tasks, RequestKey(r)) /\ ~ Clashes(RequestKey(r))
      <3>1. Promise!Create(RequestKey(r))
        BY <2>1, <2>3, InsertMaps
      <3>2. QED
        BY <2>1, <3>1 DEF Promise!Next
    <2>4. QED
      BY <1>6, <2>2, <2>3, TrackerEffect
  <1>7. QED
    BY <1>2, <1>3, <1>4, <1>5, <1>6 DEF Next

\* Whoever asks, however often, and whatever is lost, repeated or interleaved: a
\* key is given at most one task, and an item counts as created only when its
\* key has one (services/task_client.py, api/mock_tasks.py).
THEOREM DeliversAtMostOnce == Spec => DeliversOnce
  <1>1. Init => OnceInv
    BY DEF Init, Ready, Unsettled, OnceInv, OwnInv, OutcomesAreTheirOwn, Answered,
           Single, Unreached
  <1>2. QED
    BY <1>1, DeliverInit, DeliverStep, OnceStep, TypeInvariant, PTL
    DEF Spec, DeliversOnce, Promise!Safe

-----------------------------------------------------------------------------
(***************************************************************************)
(* The bound on the requests to a tracker that is down.                    *)
(***************************************************************************)

\* What a number of failed calls cost in requests.
Cost(failures) == failures * MaxAttempts

\* Failed calls below the threshold leave room for one more.
LEMMA CostFacts ==
    ASSUME NEW f \in Nat
    PROVE  /\ Cost(f) \in Nat
           /\ Cost(f + 1) = Cost(f) + MaxAttempts
           /\ f < Threshold => Cost(f) + MaxAttempts <= Cost(Threshold)
           /\ MaxAttempts <= Cost(Threshold)
  <1>1. Cost(f) \in Nat /\ Cost(f + 1) = Cost(f) + MaxAttempts
    BY MaxAttemptsAssumption DEF Cost
  <1>2. ASSUME NEW a \in Nat, NEW b \in Nat, a <= b PROVE Cost(a) <= Cost(b)
    BY <1>2, MaxAttemptsAssumption DEF Cost
  <1>3. Cost(1) = MaxAttempts /\ Cost(1) <= Cost(Threshold)
    BY <1>2, MaxAttemptsAssumption, ThresholdAssumption DEF Cost
  <1>4. f < Threshold => Cost(f + 1) <= Cost(Threshold)
    BY <1>2, ThresholdAssumption
  <1>5. QED
    BY <1>1, <1>3, <1>4

\* Requests n of a client are paid for: by its failed calls and the attempts of
\* the one under way while the circuit is closed, by the probe alone when it has
\* rested; and an open circuit has no call under way.
Within(call, b, n) ==
    /\ call.phase \in {"ready", "dead"} => call.attempt = 0
    /\ b.circuit = "closed" =>
         b.failures < Threshold /\ n <= Cost(b.failures) + call.attempt
    /\ b.circuit = "half_open" => b.failures >= Threshold /\ n <= call.attempt
    /\ b.circuit = "open" =>
         b.failures >= Threshold /\ call.phase = "ready" /\ n <= Cost(Threshold)

HammerInv == \A c \in Clients : Within(calls[c], breaker[c], burst[c])

\* The client that takes a step is the only one whose state may change.
Elsewhere(c) ==
    \A d \in Clients : d # c => /\ calls'[d] = calls[d]
                                /\ breaker'[d] = breaker[d]
                                /\ burst'[d] = burst[d]

\* Requests that are paid for are within the bound.
LEMMA WithinBound ==
    ASSUME TypeOK, HammerInv, NEW c \in Clients
    PROVE  burst[c] <= Cost(Threshold)
  <1>1. /\ breaker[c].circuit \in {"closed", "open", "half_open"}
        /\ breaker[c].failures \in Nat /\ burst[c] \in Nat
        /\ calls[c].attempt \in 0..MaxAttempts
    BY CallFields DEF TypeOK, Circuit
  <1>2. Within(calls[c], breaker[c], burst[c])
    BY DEF HammerInv
  <1>3. /\ Cost(breaker[c].failures) \in Nat /\ Cost(Threshold) \in Nat
        /\ breaker[c].failures < Threshold =>
             Cost(breaker[c].failures) + MaxAttempts <= Cost(Threshold)
        /\ MaxAttempts <= Cost(Threshold)
    BY <1>1, CostFacts, ThresholdAssumption
  <1>4. QED
    BY <1>1, <1>2, <1>3, MaxAttemptsAssumption DEF Within

\* An item settled without a request.
LEMMA SettledWithin ==
    ASSUME TypeInv, HammerInv, NEW c \in Clients, NEW result, NEW task,
           calls[c].phase = "ready", Settled(c, result, task), UNCHANGED <<breaker, burst>>
    PROVE  Within(calls'[c], breaker'[c], burst'[c]) /\ Elsewhere(c)
  <1>1. /\ DOMAIN calls = Clients
        /\ calls' = [calls EXCEPT ![c] = Ready(calls[c].item + 1)]
    BY CallFields DEF TypeInv, Settled
  <1>2. /\ calls'[c].phase = "ready" /\ calls'[c].attempt = 0
        /\ \A d \in Clients : d # c => calls'[d] = calls[d]
    BY <1>1 DEF Ready
  <1>3. calls[c].attempt = 0 /\ Within(calls[c], breaker[c], burst[c])
    BY DEF HammerInv, Within
  <1>4. QED
    BY <1>2, <1>3 DEF Within, Elsewhere

\* An attempt, one more than the one before it.
LEMMA AttemptWithin ==
    ASSUME TypeInv, HammerInv, NEW c \in Clients, Attempt(c, calls[c].attempt + 1),
           breaker[c].circuit # "open"
    PROVE  Within(calls'[c], breaker'[c], burst'[c]) /\ Elsewhere(c)
  <1> DEFINE n == calls[c].attempt + 1
             sending == [calls[c] EXCEPT !.phase = "waiting"]
             call == [sending EXCEPT !.attempt = n]
  <1>1. /\ DOMAIN calls = Clients /\ calls[c] \in CallState
        /\ DOMAIN breaker = Clients /\ DOMAIN burst = Clients
        /\ burst[c] \in Nat /\ breaker[c].failures \in Nat
        /\ calls[c].attempt \in Nat
    BY CallFields, MaxAttemptsAssumption DEF TypeInv, TypeOK
  <1>2. sending.phase = "waiting" /\ DOMAIN sending = {"phase", "item", "attempt"}
    BY <1>1 DEF CallState
  <1>3. calls' = [calls EXCEPT ![c] = call]
    BY DEF Attempt
  <1> HIDE DEF sending
  <1>4. call.phase = "waiting" /\ call.attempt = n
    BY <1>2
  <1> HIDE DEF call
  <1>5. /\ calls'[c] = call /\ burst'[c] = burst[c] + 1 /\ breaker' = breaker
        /\ Elsewhere(c)
    BY <1>1, <1>3 DEF Attempt, Elsewhere
  <1>6. Within(calls[c], breaker[c], burst[c]) /\ Cost(breaker[c].failures) \in Nat
    BY <1>1, CostFacts DEF HammerInv
  <1>7. QED
    BY <1>1, <1>4, <1>5, <1>6 DEF Within

\* A failed attempt: another one is left, or the call has failed.
LEMMA MissedWithin ==
    ASSUME TypeInv, HammerInv, NEW c \in Clients, calls[c].phase = "waiting", Missed(c),
           UNCHANGED burst
    PROVE  Within(calls'[c], breaker'[c], burst'[c]) /\ Elsewhere(c)
  <1>1. /\ DOMAIN calls = Clients /\ calls[c] \in CallState
        /\ DOMAIN breaker = Clients /\ DOMAIN burst = Clients
        /\ burst[c] \in Nat /\ breaker[c].failures \in Nat
        /\ breaker[c].circuit \in Circuit
        /\ calls[c].attempt \in 0..MaxAttempts
    BY CallFields DEF TypeInv, TypeOK
  <1>2. Within(calls[c], breaker[c], burst[c])
    BY DEF HammerInv
  <1>3. CASE calls' = [calls EXCEPT ![c].phase = "backoff"] /\ UNCHANGED breaker
    <2> DEFINE call == [calls[c] EXCEPT !.phase = "backoff"]
    <2>1. call.attempt = calls[c].attempt /\ call.phase = "backoff"
      BY <1>1 DEF CallState
    <2>2. calls' = [calls EXCEPT ![c] = call]
      BY <1>3
    <2> HIDE DEF call
    <2>3. calls'[c] = call /\ Elsewhere(c)
      BY <1>1, <1>3, <2>2 DEF Elsewhere
    <2>4. QED
      BY <1>2, <1>3, <2>1, <2>3 DEF Within
  <1>4. CASE /\ ~ MayRetry(calls[c].attempt)
             /\ breaker' = [breaker EXCEPT ![c] = Failing(breaker[c])]
             /\ Settled(c, "failed", 0)
    <2>1. calls' = [calls EXCEPT ![c] = Ready(calls[c].item + 1)]
      BY <1>4 DEF Settled
    <2>2. /\ calls'[c].phase = "ready" /\ calls'[c].attempt = 0
          /\ breaker'[c] = Failing(breaker[c])
          /\ Elsewhere(c)
      BY <1>1, <1>4, <2>1 DEF Ready, Elsewhere
    <2>3. burst[c] <= Cost(Threshold)
      BY WithinBound DEF TypeInv
    <2>4. /\ breaker'[c].failures = breaker[c].failures + 1
          /\ breaker'[c].circuit = IF breaker[c].failures + 1 >= Threshold
                                   THEN "open" ELSE breaker[c].circuit
      BY <2>2 DEF Failing
    <2>5. calls[c].attempt <= MaxAttempts
      BY <1>1, MaxAttemptsAssumption
    <2>6. Cost(breaker[c].failures) \in Nat
          /\ Cost(breaker[c].failures + 1) = Cost(breaker[c].failures) + MaxAttempts
      BY <1>1, CostFacts
    <2>7. CASE breaker[c].failures + 1 >= Threshold
      BY <2>2, <2>3, <2>4, <2>7, <1>1, ThresholdAssumption DEF Within
    <2>8. CASE breaker[c].failures + 1 < Threshold
      <3>1. breaker[c].circuit = "closed"
        BY <1>1, <1>2, <2>8, ThresholdAssumption DEF Within, Circuit
      <3>2. burst[c] <= Cost(breaker[c].failures) + MaxAttempts
        BY <1>1, <1>2, <2>5, <2>6, <3>1, MaxAttemptsAssumption DEF Within
      <3>3. breaker'[c].circuit = "closed"
        BY <1>1, <2>4, <2>8, <3>1, ThresholdAssumption
      <3>4. breaker'[c].failures < Threshold
        BY <2>4, <2>8
      <3>5. Cost(breaker'[c].failures) = Cost(breaker[c].failures) + MaxAttempts
        BY <2>4, <2>6
      <3>6. burst'[c] <= Cost(breaker'[c].failures) + 0
        BY <1>1, <2>6, <3>2, <3>5, MaxAttemptsAssumption
      <3>7. QED
        BY <2>2, <3>3, <3>4, <3>6 DEF Within
    <2>9. QED
      BY <1>1, <2>7, <2>8, ThresholdAssumption
  <1>5. QED
    BY <1>3, <1>4 DEF Missed

\* A client that was answered, or died, owes nothing.
LEMMA ClearedWithin ==
    ASSUME TypeInv, NEW c \in Clients, NEW call, call.attempt = 0,
           calls' = [calls EXCEPT ![c] = call],
           breaker' = [breaker EXCEPT ![c] = Closed],
           burst' = [burst EXCEPT ![c] = 0]
    PROVE  Within(calls'[c], breaker'[c], burst'[c]) /\ Elsewhere(c)
  <1>1. DOMAIN calls = Clients /\ DOMAIN breaker = Clients /\ DOMAIN burst = Clients
    BY DEF TypeInv, TypeOK
  <1>2. calls'[c] = call /\ breaker'[c] = Closed /\ burst'[c] = 0 /\ Elsewhere(c)
    BY <1>1 DEF Elsewhere
  <1>3. Closed.circuit = "closed" /\ Closed.failures = 0 /\ Cost(0) = 0
    BY MaxAttemptsAssumption DEF Closed, Cost
  <1>4. QED
    BY <1>2, <1>3, ThresholdAssumption DEF Within

\* Every step of a client leaves its requests paid for.
LEMMA ClientWithin ==
    ASSUME TypeInv, HammerInv, NEW c \in Clients, ClientStep(c)
    PROVE  Within(calls'[c], breaker'[c], burst'[c]) /\ Elsewhere(c)
  <1>1. /\ TypeOK /\ Engaged /\ Within(calls[c], breaker[c], burst[c])
        /\ calls[c].attempt \in Nat
    BY CallFields, MaxAttemptsAssumption DEF TypeInv, HammerInv
  <1>2. CASE Skip(c) \/ Refuse(c)
    <2>1. calls[c].phase = "ready" /\ UNCHANGED <<breaker, burst>>
      BY <1>2 DEF Skip, Refuse, Handles
    <2>2. Settled(c, "skipped", 0) \/ Settled(c, "failed", 0)
      BY <1>2 DEF Skip, Refuse
    <2>3. QED
      BY <2>1, <2>2, SettledWithin
  <1>3. CASE Call(c)
    <2>1. calls[c].phase = "ready" /\ breaker[c].circuit # "open" /\ Attempt(c, 1)
      BY <1>3 DEF Call, Handles
    <2>2. calls[c].attempt = 0
      BY <1>1, <2>1 DEF Within
    <2>3. Attempt(c, calls[c].attempt + 1)
      BY <2>1, <2>2
    <2>4. QED
      BY <2>1, <2>3, AttemptWithin
  <1>4. CASE Retry(c)
    <2>1. calls[c].phase = "backoff" /\ Attempt(c, calls[c].attempt + 1)
      BY <1>4 DEF Retry
    <2>2. breaker[c].circuit # "open"
      BY <1>1, <2>1 DEF Within
    <2>3. QED
      BY <2>1, <2>2, AttemptWithin
  <1>5. CASE Receive(c)
    <2>1. PICK r \in requests :
            /\ r.client = c
            /\ IsAwaited(r)
            /\ \/ /\ \/ Settled(c, "created", r.task)
                     \/ Settled(c, "failed", 0)
                  /\ breaker' = [breaker EXCEPT ![c] = Closed]
                  /\ burst' = [burst EXCEPT ![c] = 0]
               \/ Missed(c) /\ UNCHANGED burst
      BY <1>5 DEF Receive
    <2>2. calls[c].phase = "waiting"
      BY <2>1 DEF IsAwaited
    <2>3. CASE Missed(c) /\ UNCHANGED burst
      BY <2>2, <2>3, MissedWithin
    <2>4. CASE /\ Settled(c, "created", r.task) \/ Settled(c, "failed", 0)
               /\ breaker' = [breaker EXCEPT ![c] = Closed]
               /\ burst' = [burst EXCEPT ![c] = 0]
      <3>1. calls' = [calls EXCEPT ![c] = Ready(calls[c].item + 1)]
        BY <2>4 DEF Settled
      <3>2. Ready(calls[c].item + 1).attempt = 0
        BY DEF Ready
      <3>3. QED
        BY <2>4, <3>1, <3>2, ClearedWithin
    <2>5. QED
      BY <2>1, <2>3, <2>4
  <1>6. CASE Timeout(c)
    BY <1>6, MissedWithin DEF Timeout
  <1>7. QED
    BY <1>2, <1>3, <1>4, <1>5, <1>6 DEF ClientStep

\* A circuit that has rested starts from nothing.
LEMMA RestWithin ==
    ASSUME TypeInv, HammerInv, NEW c \in Clients, Rest(c)
    PROVE  Within(calls'[c], breaker'[c], burst'[c]) /\ Elsewhere(c)
  <1>1. /\ Within(calls[c], breaker[c], burst[c])
        /\ DOMAIN breaker = Clients /\ DOMAIN burst = Clients
        /\ breaker[c] \in [circuit : Circuit, failures : Nat]
    BY DEF TypeInv, TypeOK, HammerInv
  <1>2. /\ breaker[c].circuit = "open" /\ calls' = calls
        /\ breaker'[c] = [breaker[c] EXCEPT !.circuit = "half_open"]
        /\ burst'[c] = 0
        /\ Elsewhere(c)
    BY <1>1 DEF Rest, Elsewhere
  <1>3. breaker'[c].circuit = "half_open" /\ breaker'[c].failures = breaker[c].failures
    BY <1>1, <1>2
  <1>4. calls[c].attempt = 0 /\ breaker[c].failures >= Threshold
    BY <1>1, <1>2 DEF Within
  <1>5. QED
    BY <1>1, <1>2, <1>3, <1>4 DEF Within

\* Every step leaves every client's requests paid for.
LEMMA HammerStep == TypeInv /\ HammerInv /\ [Next]_vars => HammerInv'
  <1> SUFFICES ASSUME TypeInv, HammerInv, [Next]_vars PROVE HammerInv'
    OBVIOUS
  <1>1. ASSUME NEW c \in Clients, Within(calls'[c], breaker'[c], burst'[c]), Elsewhere(c)
        PROVE  HammerInv'
    BY <1>1 DEF HammerInv, Elsewhere
  <1>2. CASE UNCHANGED <<calls, breaker, burst>>
    BY <1>2 DEF HammerInv
  <1>3. ASSUME NEW c \in Clients, ClientStep(c)
        PROVE  HammerInv'
    BY <1>1, <1>3, ClientWithin
  <1>4. ASSUME NEW c \in Clients, Rest(c)
        PROVE  HammerInv'
    BY <1>1, <1>4, RestWithin
  <1>5. ASSUME NEW c \in Clients, Die(c)
        PROVE  HammerInv'
    <2> DEFINE dead == [Ready(1) EXCEPT !.phase = "dead"]
    <2>1. dead.attempt = 0
      BY DEF Ready
    <2>2. calls' = [calls EXCEPT ![c] = dead]
      BY <1>5 DEF Die
    <2> HIDE DEF dead
    <2>3. QED
      BY <1>1, <1>5, <2>1, <2>2, ClearedWithin DEF Die
  <1>6. ASSUME NEW r \in requests, TrackerStep(r)
        PROVE  HammerInv'
    BY <1>2, <1>6, TrackerEffect
  <1>7. QED
    BY <1>2, <1>3, <1>4, <1>5, <1>6 DEF Next, vars

\* However a tracker fails, a client sends it no more than Threshold calls of
\* MaxAttempts attempts before the tracker answers or the circuit has rested
\* (CircuitBreaker and the retry loop of services/task_client.py).
THEOREM HammeringBounded == Spec => []HammeringIsBounded
  <1>1. Init => HammerInv
    <2> SUFFICES ASSUME Init, NEW c \in Clients
                 PROVE  Within(calls[c], breaker[c], burst[c])
      BY DEF HammerInv
    <2>1. /\ calls[c].attempt = 0 /\ burst[c] = 0
          /\ breaker[c].circuit = "closed" /\ breaker[c].failures = 0
      BY DEF Init, Ready
    <2>2. Cost(0) = 0
      BY MaxAttemptsAssumption DEF Cost
    <2>3. QED
      BY <2>1, <2>2, ThresholdAssumption DEF Within
  <1>2. TypeInv /\ HammerInv => HammeringIsBounded
    BY WithinBound DEF HammeringIsBounded, TypeInv, Cost
  <1>3. QED
    BY <1>1, <1>2, HammerStep, TypeInvariant, PTL DEF Spec
=============================================================================

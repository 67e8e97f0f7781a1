------------------------------- MODULE Briefs -------------------------------
(***************************************************************************)
(* The Analyst's briefs: calls of one model that run beside each other     *)
(* under a semaphore, paced by the token budget all calls of the process   *)
(* share.  Time is kept as an order: of the spends in the window, oldest   *)
(* first, `aged` have left it and are dropped when somebody next looks.    *)
(* Other agents' calls are left out.                                       *)
(***************************************************************************)
EXTENDS Router

CONSTANTS
    Brief,        \* the jobs the Analyst is fanned out across
    Concurrency,  \* briefs that may be at work at one time
    Estimates,    \* what the briefs' prompts may be estimated at, in tokens
    Actual,       \* tokens a call may turn out to have cost
    Ceiling,      \* the share of the limit per minute that is given out
    Settings,     \* credentials and overrides the service may run with
    None          \* no brief

ASSUME EstimateAssumption == Estimates \subseteq [Brief -> Nat]
ASSUME ActualAssumption == Actual \subseteq Nat
ASSUME CeilingAssumption == Ceiling \in Nat
ASSUME SettingsAssumption ==
    \A s \in Settings : s.override \in [reason : Seq(ModelSpec), skeptic : Seq(ModelSpec)]
ASSUME NoneAssumption == None \notin Brief

MaxAttempts == 2

VARIABLES
    chains,   \* the models each tier has in the settings of this process
    estimate, \* the tokens each brief's prompt is estimated at
    brief,    \* how far each brief is, and at which attempt
    spends,   \* tokens booked, in the order they were booked
    aged,     \* how many of them are older than the window
    sleeper,  \* the brief that sleeps holding the budget's lock
    rolled    \* history variable: whether a spend ever left the window

given == <<chains, estimate>>
briefVars == <<chains, estimate, brief, spends, aged, sleeper, rolled>>

\* The Analyst's calls are paced when its first model is of the free tier, the
\* one provider that rations tokens.
Paced == chains.reason # <<>> /\ chains.reason[1].provider = "groq"

Phase(b) == brief[b].phase
Settled(b) == Phase(b) \in {"answered", "failed"}

\* The briefs that hold the semaphore: it is held through the pause before a
\* second attempt and while waiting for the budget.
AtWork ==
    {b \in Brief : Phase(b) \in {"pausing", "reserving", "sleeping", "calling"}}

Move(b, phase) == brief' = [brief EXCEPT ![b].phase = phase]

InitBriefs ==
    /\ \E setting \in Settings : chains = Chains(setting)
    /\ estimate \in Estimates
    /\ brief = [b \in Brief |-> [phase |-> "idle", attempt |-> 1]]
    /\ spends = <<>>
    /\ aged = 0
    /\ sleeper = None
    /\ rolled = FALSE

\* Extraction starts every brief; each needs a model to build its agent with.
StartBriefs ==
    /\ \A b \in Brief : Phase(b) = "idle"
    /\ chains.reason # <<>>
    /\ brief' = [b \in Brief |-> [phase |-> "queued", attempt |-> 1]]
    /\ UNCHANGED <<given, spends, aged, sleeper, rolled>>

\* The brief enters the semaphore; before a second attempt it pauses inside.
Enter(b) ==
    /\ Phase(b) = "queued"
    /\ Cardinality(AtWork) < Concurrency
    /\ Move(b, IF brief[b].attempt = 1 THEN "reserving" ELSE "pausing")
    /\ UNCHANGED <<given, spends, aged, sleeper, rolled>>

PauseEnds(b) ==
    /\ Phase(b) = "pausing"
    /\ Move(b, "reserving")
    /\ UNCHANGED <<given, spends, aged, sleeper, rolled>>

\* A provider without a limit worth planning around is called at once.
CallUnpaced(b) ==
    /\ Phase(b) = "reserving"
    /\ ~ Paced
    /\ Move(b, "calling")
    /\ UNCHANGED <<given, spends, aged, sleeper, rolled>>

\* The tokens of several counts, one by one, and how many they are.
Tokens(counts) == UNION {{i} \X (1..counts[i]) : i \in DOMAIN counts}
Total(counts) == Cardinality(Tokens(counts))
InWindow == SubSeq(spends, aged + 1, Len(spends))

\* Mutant of Fits: an estimate above the ceiling waits for room there never is.
FitsBelowCeiling(b) == Total(InWindow) + estimate[b] <= Ceiling

\* Room in the window, or a window with nothing in it.
Fits(b) == Total(InWindow) + estimate[b] <= Ceiling \/ InWindow = <<>>

\* With the lock in hand, the brief drops what has aged and books its estimate,
\* or goes to sleep with the lock until the oldest spend has aged.
Book(b) ==
    /\ aged' = 0
    /\ IF Fits(b)
         THEN /\ spends' = Append(InWindow, estimate[b])
              /\ sleeper' = None
              /\ Move(b, "calling")
         ELSE /\ spends' = InWindow
              /\ sleeper' = b
              /\ Move(b, "sleeping")
    /\ UNCHANGED <<given, rolled>>

Reserve(b) ==
    /\ Phase(b) = "reserving"
    /\ Paced
    /\ sleeper = None
    /\ Book(b)

Wake(b) ==
    /\ Phase(b) = "sleeping"
    /\ aged > 0
    /\ Book(b)

\* Mutant of Reconcile: every entry equal to the estimate is replaced.
ReconcileEvery(tokens, estimated, actual) ==
    [i \in DOMAIN tokens |-> IF tokens[i] = estimated THEN actual ELSE tokens[i]]

\* The newest entry equal to the estimate takes the actual cost, whosever it is.
Reconcile(tokens, estimated, actual) ==
    LET mine == {i \in DOMAIN tokens : tokens[i] = estimated} IN
    IF mine = {} THEN tokens
    ELSE [tokens EXCEPT ![Highest(mine)] = actual]

\* The model returned a batch or, what counts as a failed brief all the same,
\* nothing that fits its schema.  That it may have been asked twice on the one
\* booking, for quotes that are nowhere in the transcript, is left out.
Return(b, actual) ==
    /\ Phase(b) = "calling"
    /\ Move(b, "answered")
    /\ spends' = IF Paced THEN Reconcile(spends, estimate[b], actual) ELSE spends
    /\ UNCHANGED <<given, aged, sleeper, rolled>>

\* Mutant of AttemptsLeft: the count is taken before the attempt it is to allow.
AttemptsLeftOneMore(b) == brief[b].attempt <= MaxAttempts

\* Whether a brief whose call raised has an attempt left.
AttemptsLeft(b) == brief[b].attempt < MaxAttempts

\* The call raised: the brief leaves the semaphore, for one more attempt if it
\* was the first, and its booking stays.
Raise(b) ==
    /\ Phase(b) = "calling"
    /\ brief' = [brief EXCEPT
                   ![b] = IF AttemptsLeft(b)
                            THEN [phase |-> "queued", attempt |-> @.attempt + 1]
                            ELSE [@ EXCEPT !.phase = "failed"]]
    /\ UNCHANGED <<given, spends, aged, sleeper, rolled>>

\* Time passes: the oldest spend in the window leaves it.
Expire ==
    /\ aged < Len(spends)
    /\ aged' = aged + 1
    /\ rolled' = TRUE
    /\ UNCHANGED <<given, brief, spends, sleeper>>

\* What a brief does sooner or later: a model call ends, one way or another.
Progress(b) ==
    \/ Enter(b)
    \/ PauseEnds(b)
    \/ CallUnpaced(b)
    \/ Reserve(b)
    \/ Wake(b)
    \/ \E actual \in Actual : Return(b, actual)
    \/ Raise(b)

-----------------------------------------------------------------------------
BriefsTypeOK ==
    /\ chains \in [reason : Seq(ModelSpec), skeptic : Seq(ModelSpec)]
    /\ estimate \in Estimates
    /\ brief \in [Brief -> [phase : {"idle", "queued", "pausing", "reserving", "sleeping",
                                     "calling", "answered", "failed"},
                            attempt : 1..MaxAttempts]]
    /\ spends \in Seq(Nat)
    /\ aged \in 0..Len(spends)
    /\ sleeper \in Brief \cup {None}
    /\ \A b \in Brief : Phase(b) = "sleeping" <=> sleeper = b
    /\ rolled \in BOOLEAN

\* The calls the provider is working on.
InFlight == {b \in Brief : Phase(b) = "calling"}

\* What is booked covers what is in flight: within one window, calls that run
\* beside each other were estimated below the ceiling together, unless one is
\* alone.  Each books on its own and settles by the value of its estimate only,
\* so one call's settling may replace another's booking (rate_budget.py 63-107).
BurstsStayBelowTheCeiling ==
    /\ ~ rolled
    /\ Cardinality(InFlight) > 1
    /\ Paced
    => Total([b \in InFlight |-> estimate[b]]) <= Ceiling

\* Every brief that is started settles, whatever the provider does and however
\* little room the window has: the one that sleeps holding the lock wakes, one
\* larger than the ceiling finds an empty window, the rest get the lock and the
\* semaphore (rate_budget.py 63-92, intelligence.py 169-202).
EveryBriefSettles == \A b \in Brief : Phase(b) # "idle" ~> Settled(b)

\* The Skeptic is served by another provider than the Analyst whenever any model
\* of its chain is, which is what /health reports (model_router.py 236-255).
ReviewIsIndependent ==
    /\ chains.reason # <<>>
    /\ \E m \in Range(chains.skeptic) : m.provider # chains.reason[1].provider
    => IndependentReview(chains)

=============================================================================
